----------------------------- MODULE MCSensors ------------------------------
(***************************************************************************)
(* Sensors for TLC.  The samples lie on both sides of each threshold of    *)
(* the rules; every field is also missing, and of a foreign type.          *)
(***************************************************************************)
EXTENDS Sensors

Around(thresholds) == R!Odd \cup UNION {{t, t + 1} : t \in thresholds}

ForeignConns ==
  [label : {"foreign"}, type : {"conn"},
   origPkts : Around({4, 99, 10000}), origBytes : Around({50, 149, 5000000}),
   respBytes : Around({50, 149, 9999}), port : R!Odd \cup {80, 4444},
   state : {"S0", "REJ", "SF"}, ja4 : {"", Rare}]

Queries == [len : {R!Listed, 0, 60, 61}, label : {15, 16}, random : BOOLEAN,
            infra : BOOLEAN]

ForeignQueries ==
  [label : {"foreign"}, type : {"dns"}, query : Queries, qtype : {"TXT", "A"}]

AllSamples == ForeignConns \cup ForeignQueries
=============================================================================
