--------------------------- MODULE AlertDelivery ---------------------------
(***************************************************************************)
(* What the path from the alerts topic to its readers promises, without    *)
(* saying how: at-least-once delivery.  Messages become secure, for good,  *)
(* in any order and any number at a time; the acknowledged offsets may     *)
(* move in any way (back, too: then messages are delivered again) as long  *)
(* as everything owed below them is secure.  KafkaSink implements it.      *)
(***************************************************************************)
EXTENDS Integers

CONSTANTS
  Partitions,  \* partitions of the topic
  Messages,    \* its messages, <<partition, offset>>, a subset of
               \* Partitions \X Nat
  Owed         \* those of them that must not get lost

VARIABLES
  secure,  \* messages that are in safe keeping
  acked    \* acked[p]: the offset from which p would be delivered again

vars == <<secure, acked>>

MayAck(offs) == \A m \in Owed : m[2] < offs[m[1]] => m \in secure

Init ==
  /\ secure = {}
  /\ acked = [p \in Partitions |-> 0]

Secure ==
  /\ secure \subseteq secure'
  /\ secure' \subseteq Messages
  /\ UNCHANGED acked

Acknowledge ==
  /\ acked' \in [Partitions -> Nat]
  /\ MayAck(acked')
  /\ UNCHANGED secure

Next == Secure \/ Acknowledge

Spec == Init /\ [][Next]_vars
=============================================================================
