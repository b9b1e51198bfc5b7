---------------------------- MODULE MCAlertsApi -----------------------------
(***************************************************************************)
(* An instance of AlertsApi for TLC: two tenants whose sensors use the     *)
(* same alert ids, with batches that repeat an id, some that meet in       *)
(* opposite orders, and one with a row the database refuses; an incident   *)
(* that has a triage row and one that has none; two sessions of the web    *)
(* dashboard; lists of alerts of every severity, some without a source.    *)
(***************************************************************************)
EXTENDS AlertsApi

SomeBatches == {<<"a">>, <<"a", "b">>, <<"b", "a">>, <<"x", "b">>, <<"b", "b">>,
                <<"a", "b", "b">>}

OneRow == [i \in {"i", "j"} |->
             IF i = "i" THEN [status |-> "open", actor |-> "u1"] ELSE None]
OneEntry == <<[incident |-> "i", status |-> "open", actor |-> "u1"]>>

SomeListed == [source : {"", "a", "b"}, destination : {"", "b"},
               severity : {"low", "medium", "critical", "other"}]
=============================================================================
