---------------------------- MODULE MCKafkaSink ----------------------------
(***************************************************************************)
(* Instances of KafkaSink for TLC.                                         *)
(***************************************************************************)
EXTENDS KafkaSink

Msg(id, k) == [aid |-> id, kind |-> k]

\* Two partitions, and one alert that was produced four times, in both of
\* them, once in a form AlertPayload refuses.
TwoPartitions == {"p1", "p2"}
TwoLogs ==
  [p \in TwoPartitions |->
     IF p = "p1" THEN <<Msg("a", "valid"), Msg("a", "valid")>>
                 ELSE <<Msg("a", "invalid"), Msg("a", "valid")>>]
TwoIds == {"a", "b"}

\* One partition, shared by two processes: a valid and a bad message
OnePartition == {"p1"}
MixedLog ==
  [p \in OnePartition |-> <<Msg("a", "valid"), Msg("b", "bad")>>]
=============================================================================
