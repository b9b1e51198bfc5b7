----------------------------- MODULE MCPipeline -----------------------------
(***************************************************************************)
(* An instance of Pipeline for TLC: two firings of one strong detector.    *)
(***************************************************************************)
EXTENDS Pipeline

Pair == 1 .. 2
PairThreat == [a \in Pair |-> "ddos"]
PairSeverity == [a \in Pair |-> 100]
PairDetector == [a \in Pair |-> "rate"]
PairConfidence == [a \in Pair |-> 29]
=============================================================================
