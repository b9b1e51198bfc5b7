-------------------------- MODULE KafkaSinkProofs --------------------------
(***************************************************************************)
(* Theorems about KafkaSink, for every log, every number of partitions and *)
(* processes and every batch size.                                         *)
(***************************************************************************)
EXTENDS KafkaSink, WellFoundedInduction, SequenceTheorems, TLAPS

-----------------------------------------------------------------------------
(* Messages, batches and offset maps *)

LEMMA MaxOfBounded ==
  ASSUME NEW S, S \subseteq Nat, S # {}, NEW n \in Nat, \A x \in S : x <= n
  PROVE  Max(S) \in S /\ \A y \in S : y <= Max(S)
<1> DEFINE T == {n - x : x \in S}
<1>1. T \subseteq Nat /\ T # {}
  <2>1. \A x \in S : n - x \in Nat
    OBVIOUS
  <2>2. PICK x \in S : TRUE
    OBVIOUS
  <2>3. n - x \in T
    OBVIOUS
  <2>. QED BY <2>1, <2>3
<1>2. PICK t \in T : \A u \in T : ~(<<u, t>> \in OpToRel(<, Nat))
  BY <1>1, NatLessThanWellFounded, WFMin
<1>3. PICK x \in S : t = n - x
  BY <1>2
<1>4. ASSUME NEW y \in S PROVE y <= x
  <2>1. n - y \in T /\ n - y \in Nat /\ n - x \in Nat
    BY <1>1
  <2>2. ~(n - y < n - x)
    BY <1>1, <1>2, <1>3, <2>1 DEF OpToRel
  <2>. QED BY <2>2
<1>. QED BY <1>4 DEF Max

LEMMA MessageFacts ==
  \A m : m \in Messages <=>
           m \in Partitions \X Nat /\ Len(Log[m[1]]) \in Nat /\ m[2] < Len(Log[m[1]])
<1>1. \A p \in Partitions : Len(Log[p]) \in Nat
  BY LogAssumption
<1>. QED BY <1>1 DEF Messages

LEMMA ItemFacts ==
  /\ Items(<<>>) = {}
  /\ \A b \in Seq(Messages) :
       /\ Items(b) \subseteq Messages
       /\ Deduped(b) \subseteq Valid(b)
       /\ Valid(b) \subseteq Items(b) /\ Invalid(b) \subseteq Items(b)
       /\ \A m \in Messages : /\ Append(b, m) \in Seq(Messages)
                              /\ Items(Append(b, m)) = Items(b) \cup {m}
<1>1. Items(<<>>) = {}
  BY DEF Items
<1>2. ASSUME NEW b \in Seq(Messages)
      PROVE  /\ Items(b) \subseteq Messages
             /\ Deduped(b) \subseteq Valid(b)
             /\ Valid(b) \subseteq Items(b) /\ Invalid(b) \subseteq Items(b)
  BY DEF Items, Deduped, Valid, Invalid
<1>3. ASSUME NEW b \in Seq(Messages), NEW m \in Messages
      PROVE  Append(b, m) \in Seq(Messages) /\ Items(Append(b, m)) = Items(b) \cup {m}
  <2>1. Append(b, m) \in Seq(Messages)
    OBVIOUS
  <2>2. DOMAIN Append(b, m) = 1 .. Len(b) + 1 /\ DOMAIN b = 1 .. Len(b)
    OBVIOUS
  <2>3. \A i \in 1 .. Len(b) : Append(b, m)[i] = b[i]
    OBVIOUS
  <2>4. Append(b, m)[Len(b) + 1] = m
    OBVIOUS
  <2>5. 1 .. Len(b) + 1 = (1 .. Len(b)) \cup {Len(b) + 1}
    OBVIOUS
  <2>. QED BY <2>1, <2>2, <2>3, <2>4, <2>5 DEF Items
<1>. QED BY <1>1, <1>2, <1>3

\* The watermark of a set of messages is an offset map, and a partition's
\* entry lies one past a message of the set.
LEMMA WatermarkFacts ==
  ASSUME NEW S, S \subseteq Messages
  PROVE  /\ Watermark(S) \in OffsetMaps
         /\ \A p \in Partitions : Watermark(S)[p] # None =>
              \E m \in S : m[1] = p /\ Watermark(S)[p] = m[2] + 1
<1> SUFFICES ASSUME NEW p \in Partitions
             PROVE  /\ Watermark(S)[p] \in Nat \cup {None}
                    /\ Watermark(S)[p] # None =>
                         \E m \in S : m[1] = p /\ Watermark(S)[p] = m[2] + 1
  BY DEF Watermark, OffsetMaps
<1> DEFINE next == {m[2] + 1 : m \in {n \in S : n[1] = p}}
<1>1. Watermark(S)[p] = IF next = {} THEN None ELSE Max(next)
  BY DEF Watermark
<1>2. CASE next = {}
  BY <1>1, <1>2
<1>3. CASE next # {}
  <2>1. \A m \in S : m \in Partitions \X Nat /\ m[2] < Len(Log[m[1]])
    BY MessageFacts
  <2>2. Len(Log[p]) \in Nat
    BY LogAssumption
  <2>3. next \subseteq Nat /\ \A x \in next : x <= Len(Log[p])
    BY <2>1, <2>2
  <2>4. Max(next) \in next
    <3> HIDE DEF next
    <3>. QED BY <1>3, <2>2, <2>3, MaxOfBounded
  <2>5. PICK m \in S : m[1] = p /\ Max(next) = m[2] + 1
    BY <2>4
  <2>6. Watermark(S)[p] = m[2] + 1 /\ m[2] + 1 \in Nat
    BY <1>1, <1>3, <2>1, <2>5
  <2>. QED BY <2>5, <2>6
<1>. QED BY <1>2, <1>3

LEMMA MapFacts ==
  /\ NoOffsets \in OffsetMaps
  /\ \A S : \A f \in OffsetMaps : Only(S, f) \in OffsetMaps
  /\ \A f \in OffsetMaps, g \in OffsetMaps : Update(f, g) \in OffsetMaps
  /\ \A f \in [Partitions -> Nat], g \in OffsetMaps :
       Update(f, g) \in [Partitions -> Nat]
BY DEF NoOffsets, OffsetMaps, Only, Update, None

-----------------------------------------------------------------------------
(* Type correctness.  ControlConsistent is what keeps the failure counter  *)
(* within its bound.                                                       *)

TypeInv == TypeOK /\ ControlConsistent

LEMMA TypeInit == Init => TypeInv
<1> SUFFICES ASSUME Init PROVE TypeInv
  OBVIOUS
<1>1. <<>> \in Seq(Messages)
  OBVIOUS
<1>. QED BY <1>1, SizeAssumption, BoundAssumption, MapFacts
         DEF Init, TypeInv, TypeOK, ControlConsistent, Labels

LEMMA PollTypeStep ==
  ASSUME TypeInv, NEW c \in Consumers,
         \/ StartPoll(c) \/ FlushDue(c) \/ NotDue(c)
         \/ \E p \in Partitions : Receive(c, p)
  PROVE  TypeInv'
<1> USE SizeAssumption DEF TypeInv, TypeOK, ControlConsistent, Labels, Goto,
        durable, work, budget
<1>1. CASE StartPoll(c)
  BY <1>1 DEF StartPoll
<1>2. CASE FlushDue(c)
  BY <1>2 DEF FlushDue
<1>3. CASE NotDue(c)
  BY <1>3 DEF NotDue
<1>4. ASSUME NEW p \in Partitions, Receive(c, p) PROVE TypeInv'
  <2>1. batch' \in [Consumers -> Seq(Messages)]
    BY <1>4 DEF Receive
  <2>2. observed' \in [Consumers -> OffsetMaps]
    <3> DEFINE seen == [observed[c] EXCEPT ![p] = IF @ > position[c][p] + 1 THEN @
                                                  ELSE position[c][p] + 1]
    <3>1. observed[c] \in OffsetMaps /\ position[c][p] + 1 \in Nat
      BY ONLY TypeInv DEF TypeInv, TypeOK
    <3>2. seen \in OffsetMaps
      BY <3>1 DEF OffsetMaps
    <3>3. observed' = [observed EXCEPT ![c] = seen]
      BY <1>4 DEF Receive
    <3> HIDE DEF seen
    <3>. QED BY <3>2, <3>3
  <2>3. position' \in [Consumers -> [Partitions -> Nat]]
    <3>1. PICK w \in Nat : w = position[c][p] + 1
      BY ONLY TypeInv DEF TypeInv, TypeOK
    <3>2. position' = [position EXCEPT ![c][p] = w]
      BY <1>4, <3>1 DEF Receive
    <3>. QED BY ONLY TypeInv, <3>2 DEF TypeInv, TypeOK
  <2>4. polled' \in [Consumers -> 0 .. MaxPollRecords]
    <3>1. polled' = [polled EXCEPT ![c] = @ + 1] /\ polled[c] < MaxPollRecords
      BY <1>4 DEF Receive
    <3>. QED BY ONLY TypeInv, SizeAssumption, <3>1 DEF TypeInv, TypeOK
  <2>5. \A d \in Consumers : pc'[d] = "down" => batch'[d] = <<>>
    BY <1>4 DEF Receive
  <2>. QED BY <1>4, <2>1, <2>2, <2>3, <2>4, <2>5 DEF Receive
<1>. QED BY <1>1, <1>2, <1>3, <1>4

LEMMA BrokerTypes ==
  ASSUME committed \in [Partitions -> Nat], NEW offs \in OffsetMaps,
         CommitOk(offs) \/ CommitFailed(offs)
  PROVE  committed' \in [Partitions -> Nat]
<1>1. CASE CommitOk(offs)
  BY <1>1, MapFacts DEF CommitOk
<1>2. CASE CommitFailed(offs)
  <2>1. PICK S \in SUBSET Partitions : committed' = Update(committed, Only(S, offs))
    BY <1>2 DEF CommitFailed
  <2>2. Only(S, offs) \in OffsetMaps
    BY MapFacts
  <2>. QED BY <2>1, <2>2, MapFacts
<1>. QED BY <1>1, <1>2

LEMMA CountTypes ==
  ASSUME TypeInv, NEW c \in Consumers, pc[c] \in {"ingest", "commit"},
         CountFailure(c)
  PROVE  failures' \in [Consumers -> 0 .. MaxFailures]
<1>1. failures[c] \in 0 .. MaxFailures /\ failures[c] < MaxFailures
  BY DEF TypeInv, TypeOK, ControlConsistent
<1>2. failures[c] + 1 \in 0 .. MaxFailures
  BY <1>1, SizeAssumption
<1>. QED BY <1>1, <1>2 DEF CountFailure, TypeInv, TypeOK

LEMMA FlushTypeStep ==
  ASSUME TypeInv, NEW c \in Consumers, Flush(c)
  PROVE  TypeInv'
<1> USE SizeAssumption DEF TypeInv, TypeOK, ControlConsistent, Labels, Goto,
        durable, work, budget
<1>0. batch[c] \in Seq(Messages)
  OBVIOUS
<1>1. CASE Quarantine(c)
  <2>1. fileDlq' \subseteq Messages
    BY <1>0, <1>1, ItemFacts DEF Quarantine, Appended
  <2>. QED BY <1>1, <2>1 DEF Quarantine
<1>2. CASE Ingested(c)
  <2>1. stored' \subseteq Messages /\ fileDlq' \subseteq Messages
    BY <1>0, <1>2, ItemFacts DEF Ingested, Appended
  <2>2. merged' \subseteq Messages
    BY <1>0, <1>2, ItemFacts DEF Ingested
  <2>3. Watermark(Deduped(batch[c]) \cup Invalid(batch[c])) \in OffsetMaps
    BY <1>0, ItemFacts, WatermarkFacts
  <2>. QED BY <1>2, <2>1, <2>2, <2>3 DEF Ingested
<1>3. CASE IngestRaised(c)
  <2>1. stored' \subseteq Messages
    BY <1>0, <1>3, ItemFacts DEF IngestRaised
  <2>2. failures' \in [Consumers -> 0 .. MaxFailures]
    BY <1>3, CountTypes DEF IngestRaised
  <2>3. \A d \in Consumers :
          pc'[d] \notin {"evacuate", "evacuated"} => failures'[d] < MaxFailures
    BY <1>3, <2>2 DEF IngestRaised, CountFailure, AfterFailure
  <2>4. AfterFailure(c) \in Labels \ {"down"}
    BY DEF AfterFailure
  <2>. QED BY <1>3, <2>1, <2>2, <2>3, <2>4 DEF IngestRaised
<1>4. CASE Commit(c)
  <2>1. committed' \in [Partitions -> Nat]
    BY <1>4, MapFacts DEF Commit, CommitOk
  <2>2. lastCommitted' \in [Consumers -> OffsetMaps]
    BY <1>4, MapFacts DEF Commit
  <2>3. batch' \in [Consumers -> Seq(Messages)]
    BY <1>4 DEF Commit
  <2>. QED BY <1>4, <2>1, <2>2, <2>3, MapFacts DEF Commit
<1>5. CASE CommitRaised(c)
  <2>1. committed' \in [Partitions -> Nat]
    BY <1>5, BrokerTypes DEF CommitRaised
  <2>2. failures' \in [Consumers -> 0 .. MaxFailures]
    BY <1>5, CountTypes DEF CommitRaised
  <2>3. \A d \in Consumers :
          pc'[d] \notin {"evacuate", "evacuated"} => failures'[d] < MaxFailures
    BY <1>5, <2>2 DEF CommitRaised, CountFailure, AfterFailure
  <2>4. AfterFailure(c) \in Labels \ {"down"}
    BY DEF AfterFailure
  <2>. QED BY <1>5, <2>1, <2>2, <2>3, <2>4, MapFacts DEF CommitRaised
<1>. QED BY <1>1, <1>2, <1>3, <1>4, <1>5 DEF Flush

LEMMA HousekeepingTypeStep ==
  ASSUME TypeInv, NEW c \in Consumers, Housekeeping(c)
  PROVE  TypeInv'
<1> USE SizeAssumption DEF TypeInv, TypeOK, ControlConsistent, Labels, Goto,
        durable, work, budget
<1>0. batch[c] \in Seq(Messages) /\ StaleOffsets(c) \in OffsetMaps
  BY MapFacts DEF StaleOffsets
<1>1. CASE Evacuate(c)
  <2>1. fileDlq' \subseteq Messages
    BY <1>0, <1>1, ItemFacts DEF Evacuate, Appended
  <2>2. processed' \in [Consumers -> OffsetMaps]
    BY <1>0, <1>1, ItemFacts, WatermarkFacts DEF Evacuate
  <2>. QED BY <1>1, <2>1, <2>2 DEF Evacuate
<1>2. CASE EvacuationCommit(c)
  <2>1. committed' \in [Partitions -> Nat]
    BY <1>2, BrokerTypes DEF EvacuationCommit
  <2>2. lastCommitted' \in [Consumers -> OffsetMaps]
    <3>1. Update(lastCommitted[c], processed[c]) \in OffsetMaps
      BY MapFacts
    <3>2. \/ lastCommitted' = lastCommitted
          \/ lastCommitted' = [lastCommitted EXCEPT
                                 ![c] = Update(@, processed[c])]
      BY <1>2 DEF EvacuationCommit
    <3>. QED BY <3>1, <3>2
  <2>3. batch' \in [Consumers -> Seq(Messages)]
    BY <1>2 DEF EvacuationCommit
  <2>. QED BY <1>2, <2>1, <2>2, <2>3, MapFacts DEF EvacuationCommit
<1>3. CASE StaleCommit(c)
  <2>1. committed' \in [Partitions -> Nat]
    BY <1>0, <1>3, BrokerTypes DEF StaleCommit
  <2>2. lastCommitted' \in [Consumers -> OffsetMaps]
    BY <1>0, <1>3, MapFacts DEF StaleCommit
  <2>. QED BY <1>3, <2>1, <2>2 DEF StaleCommit
<1>4. CASE StaleCommitRaised(c)
  <2>1. committed' \in [Partitions -> Nat]
    BY <1>0, <1>4, BrokerTypes DEF StaleCommitRaised
  <2>. QED BY <1>4, <2>1 DEF StaleCommitRaised
<1>5. CASE NothingStale(c)
  BY <1>5 DEF NothingStale
<1>6. CASE NoPanic(c)
  BY <1>6 DEF NoPanic
<1>. QED BY <1>1, <1>2, <1>3, <1>4, <1>5, <1>6 DEF Housekeeping

LEMMA LifecycleTypeStep ==
  ASSUME TypeInv, NEW c \in Consumers,
         \/ Stop(c) \/ Exit(c) \/ Crash(c) \/ Restart(c)
         \/ \E p \in Partitions : Assign(c, p)
  PROVE  TypeInv'
<1> USE SizeAssumption, BoundAssumption
    DEF TypeInv, TypeOK, ControlConsistent, Labels, Goto, durable, work, budget
<1>1. CASE Stop(c)
  BY <1>1 DEF Stop
<1>2. ASSUME Forget(c) PROVE
        /\ pc' \in [Consumers -> Labels] /\ draining' \in [Consumers -> BOOLEAN]
        /\ polled' \in [Consumers -> 0 .. MaxPollRecords]
        /\ batch' \in [Consumers -> Seq(Messages)]
        /\ processed' \in [Consumers -> OffsetMaps]
        /\ observed' \in [Consumers -> OffsetMaps]
        /\ lastCommitted' \in [Consumers -> OffsetMaps]
        /\ failures' \in [Consumers -> 0 .. MaxFailures]
        /\ ControlConsistent'
  <2>1. pc' \in [Consumers -> Labels] /\ draining' \in [Consumers -> BOOLEAN]
    BY <1>2 DEF Forget
  <2>2. polled' \in [Consumers -> 0 .. MaxPollRecords]
    BY <1>2 DEF Forget
  <2>3. batch' \in [Consumers -> Seq(Messages)]
    BY <1>2 DEF Forget
  <2>4. processed' \in [Consumers -> OffsetMaps]
    BY <1>2, MapFacts DEF Forget
  <2>5. observed' \in [Consumers -> OffsetMaps]
    BY <1>2, MapFacts DEF Forget
  <2>6. lastCommitted' \in [Consumers -> OffsetMaps]
    BY <1>2, MapFacts DEF Forget
  <2>7. failures' \in [Consumers -> 0 .. MaxFailures]
    BY <1>2 DEF Forget
  <2>8. ControlConsistent'
    BY <1>2 DEF Forget
  <2>. QED BY <2>1, <2>2, <2>3, <2>4, <2>5, <2>6, <2>7, <2>8
<1>3. CASE Exit(c)
  BY <1>2, <1>3 DEF Exit
<1>4. CASE Crash(c)
  BY <1>2, <1>4 DEF Crash
<1>5. CASE Restart(c)
  <2>1. position' \in [Consumers -> [Partitions -> Nat]]
    BY <1>5 DEF Restart
  <2>. QED BY <1>5, <2>1 DEF Restart
<1>6. ASSUME NEW p \in Partitions, Assign(c, p) PROVE TypeInv'
  <2>1. position' \in [Consumers -> [Partitions -> Nat]]
    BY <1>6 DEF Assign
  <2>. QED BY <1>6, <2>1 DEF Assign
<1>. QED BY <1>1, <1>3, <1>4, <1>5, <1>6

LEMMA TypeStep == TypeInv /\ [Next]_vars => TypeInv'
<1>1. ASSUME TypeInv, Next PROVE TypeInv'
  BY <1>1, PollTypeStep, FlushTypeStep, HousekeepingTypeStep, LifecycleTypeStep
     DEF Next
<1>2. ASSUME TypeInv, UNCHANGED vars PROVE TypeInv'
  BY <1>2 DEF TypeInv, TypeOK, ControlConsistent, vars, durable, loop, work,
              budget
<1>. QED BY <1>1, <1>2

\* Every reachable state of the sink is type-correct (run_sink): in
\* particular the failure counter never passes MAX_CONSECUTIVE_FAILURES.
THEOREM TypeCorrect == Spec => []TypeOK
<1>1. TypeInv => TypeOK
  BY DEF TypeInv
<1>. QED BY <1>1, TypeInit, TypeStep, PTL DEF Spec

-----------------------------------------------------------------------------
(* No loss, with a DLQ volume that takes what is written to it.  Good(c) is *)
(* what SinkInv says of one process; a step of c keeps it for the others as *)
(* long as nothing secured is given up.                                    *)

Good(c) ==
  /\ \A m \in Owed :
       /\ m[2] < processed[c][m[1]] => m \in Secured
       /\ m[2] < observed[c][m[1]] => m \in Secured \cup Items(batch[c])
       /\ pc[c] # "down" /\ m[2] < position[c][m[1]]
            => m \in Secured \cup Items(batch[c])
  /\ \A m \in Items(batch[c]) : m \in Owed /\ m[2] < observed[c][m[1]]
  /\ pc[c] = "ingest" => Invalid(batch[c]) \subseteq Secured
  /\ pc[c] \in {"commit", "evacuated", "panicked"}
       => Items(batch[c]) \subseteq Secured

AllGood == \A c \in Consumers : Good(c)

LEMMA SinkInvParts == SinkInv <=> TypeInv /\ NoLoss /\ AllGood
BY DEF SinkInv, TypeInv, AllGood, Good, NothingPrematurelyAcked, BatchHandled,
       NothingSkipped

\* What a step of c may change of another process's memory: nothing.
OthersUnchanged(c) ==
  \A d \in Consumers \ {c} :
    /\ pc'[d] = pc[d] /\ batch'[d] = batch[d]
    /\ processed'[d] = processed[d] /\ observed'[d] = observed[d]
    /\ position'[d] = position[d]

LEMMA Locality ==
  ASSUME AllGood, NEW c \in Consumers, OthersUnchanged(c),
         Secured \subseteq Secured', Good(c)'
  PROVE  AllGood'
<1> SUFFICES ASSUME NEW d \in Consumers, d # c PROVE Good(d)'
  BY DEF AllGood
<1>1. Good(d)
  BY DEF AllGood
<1>2. /\ pc'[d] = pc[d] /\ batch'[d] = batch[d]
      /\ processed'[d] = processed[d] /\ observed'[d] = observed[d]
      /\ position'[d] = position[d]
  BY DEF OthersUnchanged
<1>3. Items(batch'[d]) = Items(batch[d]) /\ Invalid(batch'[d]) = Invalid(batch[d])
  BY <1>2
<1>. QED BY <1>1, <1>2, <1>3 DEF Good

\* Committing offsets below which everything owed is secured loses nothing.
LEMMA CommitKeepsNoLoss ==
  ASSUME TypeInv, NoLoss, NEW offs \in OffsetMaps,
         CommitOk(offs) \/ CommitFailed(offs),
         \A m \in Owed : m[2] < offs[m[1]] => m \in Secured,
         UNCHANGED <<stored, merged, fileDlq>>
  PROVE  NoLoss' /\ Secured' = Secured
<1>1. Secured' = Secured
  BY DEF Secured
<1>2. \A p \in Partitions : committed'[p] \in {committed[p], offs[p]}
  BY DEF CommitOk, CommitFailed, Update, Only
<1>3. \A m \in Owed : m[1] \in Partitions
  BY MessageFacts DEF Owed
<1>. QED BY <1>1, <1>2, <1>3 DEF NoLoss

\* Everything below the watermark of a batch of c that is secured entirely is
\* secured: c has observed the messages of its batch.
LEMMA WatermarkIsSecured ==
  ASSUME TypeInv, NEW c \in Consumers, Good(c),
         NEW S, S \subseteq Items(batch[c]), NEW T,
         Items(batch[c]) \subseteq T, Secured \subseteq T,
         NEW m \in Owed, m[2] < Watermark(S)[m[1]]
  PROVE  m \in T
<1>1. m[1] \in Partitions /\ m[2] \in Nat
  BY MessageFacts DEF Owed
<1>2. batch[c] \in Seq(Messages) /\ observed[c] \in OffsetMaps
  BY DEF TypeInv, TypeOK
<1>3. S \subseteq Messages
  BY <1>2, ItemFacts
<1>4. Watermark(S)[m[1]] # None
  BY <1>1 DEF None
<1>5. PICK n \in S : n[1] = m[1] /\ Watermark(S)[m[1]] = n[2] + 1
  BY <1>1, <1>3, <1>4, WatermarkFacts
<1>6. n[2] \in Nat /\ n[2] < observed[c][m[1]]
  BY <1>3, <1>5, MessageFacts DEF Good
<1>7. observed[c][m[1]] \in Nat \cup {None}
  BY <1>1, <1>2 DEF OffsetMaps
<1>8. m[2] < observed[c][m[1]]
  BY <1>1, <1>5, <1>6, <1>7 DEF None
<1>. QED BY <1>8 DEF Good

LEMMA PollStep ==
  ASSUME TypeInv, NoLoss, AllGood, NEW c \in Consumers,
         \/ StartPoll(c) \/ FlushDue(c) \/ NotDue(c)
         \/ \E p \in Partitions : Receive(c, p)
  PROVE  NoLoss' /\ AllGood'
<1>0. Good(c)
  BY DEF AllGood
<1>1. CASE StartPoll(c) \/ FlushDue(c) \/ NotDue(c)
  <2>1. Secured' = Secured /\ NoLoss'
    BY <1>1 DEF StartPoll, FlushDue, NotDue, durable, Secured, NoLoss
  <2>2. OthersUnchanged(c)
    BY <1>1 DEF StartPoll, FlushDue, NotDue, work, Goto, OthersUnchanged,
                TypeInv, TypeOK
  <2>3. pc[c] # "down" /\ pc'[c] \in {"poll", "flush", "stale"}
    BY <1>1 DEF StartPoll, FlushDue, NotDue, Goto, TypeInv, TypeOK
  <2>4. UNCHANGED <<batch, processed, observed, position>>
    BY <1>1 DEF StartPoll, FlushDue, NotDue, work
  <2>5. Good(c)'
    BY <1>0, <2>1, <2>3, <2>4 DEF Good
  <2>. QED BY <2>1, <2>2, <2>5, Locality
<1>2. ASSUME NEW p \in Partitions, Receive(c, p) PROVE NoLoss' /\ AllGood'
  <2> DEFINE m == <<p, position[c][p]>>
             w == position[c][p] + 1
  <2>1. Secured' = Secured /\ NoLoss'
    BY <1>2 DEF Receive, durable, Secured, NoLoss
  <2>2. OthersUnchanged(c)
    BY <1>2 DEF Receive, OthersUnchanged, TypeInv, TypeOK
  <2>3. m \in Messages /\ position[c][p] \in Nat /\ w \in Nat
    BY <1>2 DEF Receive, TypeInv, TypeOK
  <2>4. batch[c] \in Seq(Messages)
    BY DEF TypeInv, TypeOK
  <2>5. /\ pc'[c] = pc[c] /\ pc[c] = "poll" /\ processed'[c] = processed[c]
        /\ position'[c] = [position[c] EXCEPT ![p] = w]
    BY <1>2 DEF Receive, TypeInv, TypeOK
  <2>6. Items(batch'[c]) = IF Kind(m) = "bad" THEN Items(batch[c])
                           ELSE Items(batch[c]) \cup {m}
    BY <1>2, <2>3, <2>4, ItemFacts DEF Receive, TypeInv, TypeOK
  <2>7. observed'[c] = [observed[c] EXCEPT ![p] = IF @ > w THEN @ ELSE w]
    BY <1>2 DEF Receive, TypeInv, TypeOK
  <2>8. observed[c] \in OffsetMaps /\ position[c] \in [Partitions -> Nat]
    BY DEF TypeInv, TypeOK
  <2>9. /\ observed'[c][p] >= w /\ observed'[c][p] >= observed[c][p]
        /\ observed'[c][p] \in {observed[c][p], w}
        /\ \A q \in Partitions \ {p} : observed'[c][q] = observed[c][q]
        /\ position'[c][p] = w
        /\ \A q \in Partitions \ {p} : position'[c][q] = position[c][q]
    BY <2>3, <2>5, <2>7, <2>8 DEF OffsetMaps, None
  <2>10. ASSUME NEW n \in Owed
         PROVE  /\ n[2] < processed'[c][n[1]] => n \in Secured'
                /\ n[2] < observed'[c][n[1]] => n \in Secured' \cup Items(batch'[c])
                /\ n[2] < position'[c][n[1]] => n \in Secured' \cup Items(batch'[c])
    <3>1. n \in Messages /\ n[1] \in Partitions /\ n[2] \in Nat /\ n = <<n[1], n[2]>>
          /\ Kind(n) # "bad"
      BY MessageFacts DEF Owed
    <3>2. n = m => n \in Items(batch'[c])
      BY <2>6, <3>1
    <3>3. n[1] = p /\ n[2] < w => n = m \/ n[2] < position[c][p]
      BY <2>3, <3>1
    <3>4. n[2] < position[c][n[1]] => n \in Secured \cup Items(batch[c])
      BY <1>0, <2>5 DEF Good
    <3>5. n[2] < position'[c][n[1]] => n \in Secured' \cup Items(batch'[c])
      BY <2>1, <2>6, <2>9, <3>1, <3>2, <3>3, <3>4
    <3>6. n[2] < observed'[c][n[1]]
            => n[2] < observed[c][n[1]] \/ n[2] < position'[c][n[1]]
      BY <2>9, <3>1
    <3>7. n[2] < observed[c][n[1]] => n \in Secured \cup Items(batch[c])
      BY <1>0 DEF Good
    <3>8. n[2] < processed'[c][n[1]] => n \in Secured'
      BY <1>0, <2>1, <2>5 DEF Good
    <3>. QED BY <2>1, <2>6, <3>5, <3>6, <3>7, <3>8
  <2>11. ASSUME NEW n \in Items(batch'[c])
         PROVE  n \in Owed /\ n[2] < observed'[c][n[1]]
    <3>1. CASE n = m /\ Kind(m) # "bad"
      BY <2>3, <2>8, <2>9, <3>1 DEF Owed, OffsetMaps, None
    <3>2. CASE n \in Items(batch[c])
      <4>1. n \in Messages /\ n[1] \in Partitions /\ n[2] \in Nat
        BY <2>4, <3>2, ItemFacts, MessageFacts
      <4>2. n \in Owed /\ n[2] < observed[c][n[1]]
        BY <1>0, <3>2 DEF Good
      <4>. QED BY <2>3, <2>8, <2>9, <4>1, <4>2 DEF OffsetMaps, None
    <3>. QED BY <2>6, <3>1, <3>2
  <2>12. Good(c)'
    BY <2>5, <2>10, <2>11 DEF Good
  <2>. QED BY <2>1, <2>2, <2>12, Locality
<1>. QED BY <1>1, <1>2

\* A retained message is valid or invalid: bad ones never enter a batch.
LEMMA BatchKinds ==
  ASSUME NEW c \in Consumers, Good(c), batch[c] \in Seq(Messages)
  PROVE  Items(batch[c]) = Valid(batch[c]) \cup Invalid(batch[c])
<1> SUFFICES ASSUME NEW m \in Items(batch[c])
             PROVE  Kind(m) \in {"valid", "invalid"}
  BY DEF Valid, Invalid
<1>1. m \in Messages /\ Kind(m) # "bad"
  BY DEF Good, Owed
<1>2. m[2] + 1 \in 1 .. Len(Log[m[1]]) /\ m[1] \in Partitions
  BY <1>1, MessageFacts
<1>3. Log[m[1]][m[2] + 1] \in [aid : AlertIds, kind : Kinds]
  <2>1. Log[m[1]] \in Seq([aid : AlertIds, kind : Kinds])
    BY <1>2, LogAssumption
  <2>. QED BY <1>2, <2>1, ElementOfSeq
<1>. QED BY <1>1, <1>3 DEF Kind, Kinds

LEMMA QuarantineStep ==
  ASSUME DiskMayFail = FALSE, TypeInv, NoLoss, AllGood, NEW c \in Consumers,
         Quarantine(c)
  PROVE  NoLoss' /\ AllGood'
<1>0. Good(c)
  BY DEF AllGood
<1>1. fileDlq' = fileDlq \cup Invalid(batch[c])
  BY DEF Quarantine, Appended
<1>2. Secured' = Secured \cup Invalid(batch[c])
  BY <1>1 DEF Quarantine, Secured
<1>3. NoLoss'
  BY <1>2 DEF Quarantine, NoLoss
<1>4. OthersUnchanged(c)
  BY DEF Quarantine, OthersUnchanged, Goto, work, TypeInv, TypeOK
<1>5. pc[c] # "down" /\ pc'[c] = "ingest"
      /\ UNCHANGED <<batch, processed, observed, position>>
  BY DEF Quarantine, Goto, work, TypeInv, TypeOK
<1>6. Good(c)'
  BY <1>0, <1>2, <1>5 DEF Good, Invalid
<1>. QED BY <1>2, <1>3, <1>4, <1>6, Locality

\* An answered POST secures the whole batch: its valid items are stored,
\* rejected into the DLQ or merged, and the others were quarantined before.
LEMMA IngestedStep ==
  ASSUME DiskMayFail = FALSE, TypeInv, NoLoss, AllGood, NEW c \in Consumers,
         Ingested(c)
  PROVE  NoLoss' /\ AllGood'
<1> DEFINE b == batch[c]
<1>0. Good(c) /\ b \in Seq(Messages)
  BY DEF AllGood, TypeInv, TypeOK
<1>1. PICK rejected \in SUBSET Deduped(b) :
        /\ stored' = stored \cup (Deduped(b) \ rejected)
        /\ fileDlq' = fileDlq \cup rejected
  BY DEF Ingested, Appended
<1>2. merged' = merged \cup (Valid(b) \ Deduped(b))
  BY DEF Ingested
<1>3. Secured \subseteq Secured' /\ Valid(b) \subseteq Secured'
  BY <1>0, <1>1, <1>2, ItemFacts DEF Secured
<1>4. NoLoss'
  BY <1>3 DEF Ingested, NoLoss
<1>5. OthersUnchanged(c)
  BY DEF Ingested, OthersUnchanged, Goto, TypeInv, TypeOK
<1>6. /\ pc[c] = "ingest" /\ pc'[c] = "commit"
      /\ processed'[c] = Watermark(Deduped(b) \cup Invalid(b))
      /\ UNCHANGED <<batch, observed, position>>
  BY DEF Ingested, Goto, TypeInv, TypeOK
<1>7. Items(b) \subseteq Secured'
  <2>1. Items(b) = Valid(b) \cup Invalid(b)
    BY <1>0, BatchKinds
  <2>. QED BY <1>0, <1>3, <1>6, <2>1 DEF Good
<1>8. \A m \in Owed : m[2] < processed'[c][m[1]] => m \in Secured'
  <2>1. Deduped(b) \cup Invalid(b) \subseteq Items(b)
    BY <1>0, ItemFacts
  <2>. QED BY <1>0, <1>3, <1>6, <1>7, <2>1, WatermarkIsSecured
<1>9. Good(c)'
  BY <1>0, <1>3, <1>6, <1>7, <1>8 DEF Good
<1>. QED BY <1>3, <1>4, <1>5, <1>9, Locality

LEMMA IngestRaisedStep ==
  ASSUME TypeInv, NoLoss, AllGood, NEW c \in Consumers, IngestRaised(c)
  PROVE  NoLoss' /\ AllGood'
<1>0. Good(c)
  BY DEF AllGood
<1>1. Secured \subseteq Secured'
  BY DEF IngestRaised, Secured
<1>2. NoLoss'
  BY <1>1 DEF IngestRaised, NoLoss
<1>3. OthersUnchanged(c)
  BY DEF IngestRaised, OthersUnchanged, Goto, TypeInv, TypeOK
<1>4. pc[c] # "down" /\ pc'[c] \in {"exit", "evacuate", "stale"}
      /\ UNCHANGED <<batch, processed, observed, position>>
  BY DEF IngestRaised, AfterFailure, Goto, TypeInv, TypeOK
<1>5. Good(c)'
  BY <1>0, <1>1, <1>4 DEF Good
<1>. QED BY <1>1, <1>2, <1>3, <1>5, Locality

\* After a commit or an evacuation the batch is forgotten: it was secured.
LEMMA ForgottenBatch ==
  ASSUME TypeInv, NoLoss, AllGood, NEW c \in Consumers,
         pc[c] \in {"commit", "evacuated", "panicked"},
         CommitOk(processed[c]) \/ CommitFailed(processed[c]),
         UNCHANGED <<stored, merged, fileDlq, position, observed>>,
         batch' = [batch EXCEPT ![c] = <<>>],
         processed' = [processed EXCEPT ![c] = NoOffsets],
         NEW label \in {"exit", "stale", "top"}, pc' = [pc EXCEPT ![c] = label]
  PROVE  NoLoss' /\ AllGood'
<1>0. Good(c) /\ processed[c] \in OffsetMaps
  BY DEF AllGood, TypeInv, TypeOK
<1>1. Secured' = Secured /\ NoLoss'
  BY <1>0, CommitKeepsNoLoss DEF Good
<1>2. OthersUnchanged(c)
  BY DEF OthersUnchanged, TypeInv, TypeOK
<1>3. Items(batch[c]) \subseteq Secured
  BY <1>0 DEF Good
<1>4. /\ batch'[c] = <<>> /\ processed'[c] = NoOffsets /\ pc'[c] = label
      /\ Items(batch'[c]) = {}
  BY ItemFacts DEF TypeInv, TypeOK
<1>5. \A m \in Owed : ~(m[2] < processed'[c][m[1]])
  BY <1>4, MessageFacts DEF Owed, NoOffsets, None
<1>6. Good(c)'
  BY <1>0, <1>1, <1>3, <1>4, <1>5 DEF Good
<1>. QED BY <1>1, <1>2, <1>6, Locality

LEMMA CommitRaisedStep ==
  ASSUME TypeInv, NoLoss, AllGood, NEW c \in Consumers, CommitRaised(c)
  PROVE  NoLoss' /\ AllGood'
<1>0. Good(c) /\ processed[c] \in OffsetMaps
  BY DEF AllGood, TypeInv, TypeOK
<1>1. Secured' = Secured /\ NoLoss'
  BY <1>0, CommitKeepsNoLoss DEF Good, CommitRaised
<1>2. OthersUnchanged(c)
  BY DEF CommitRaised, OthersUnchanged, Goto, TypeInv, TypeOK
<1>3. /\ pc[c] # "down" /\ pc'[c] \in {"exit", "evacuate", "stale"}
      /\ processed'[c] = NoOffsets
      /\ UNCHANGED <<batch, observed, position>>
  BY DEF CommitRaised, AfterFailure, Goto, TypeInv, TypeOK
<1>4. \A m \in Owed : ~(m[2] < processed'[c][m[1]])
  BY <1>3, MessageFacts DEF Owed, NoOffsets, None
<1>5. Good(c)'
  BY <1>0, <1>1, <1>3, <1>4 DEF Good
<1>. QED BY <1>1, <1>2, <1>5, Locality

LEMMA FlushStep ==
  ASSUME DiskMayFail = FALSE, TypeInv, NoLoss, AllGood, NEW c \in Consumers,
         Flush(c)
  PROVE  NoLoss' /\ AllGood'
<1>1. CASE Commit(c)
  <2>1. /\ pc[c] = "commit" /\ CommitOk(processed[c])
        /\ UNCHANGED <<stored, merged, fileDlq, position, observed>>
        /\ batch' = [batch EXCEPT ![c] = <<>>]
        /\ processed' = [processed EXCEPT ![c] = NoOffsets]
    BY <1>1 DEF Commit
  <2>2. PICK label \in {"exit", "stale", "top"} : pc' = [pc EXCEPT ![c] = label]
    BY <1>1 DEF Commit, Goto
  <2>. QED BY <2>1, <2>2, ForgottenBatch
<1>. QED BY <1>1, QuarantineStep, IngestedStep, IngestRaisedStep,
            CommitRaisedStep DEF Flush

LEMMA EvacuateStep ==
  ASSUME DiskMayFail = FALSE, TypeInv, NoLoss, AllGood, NEW c \in Consumers,
         Evacuate(c)
  PROVE  NoLoss' /\ AllGood'
<1>0. Good(c) /\ batch[c] \in Seq(Messages)
  BY DEF AllGood, TypeInv, TypeOK
<1>1. fileDlq' = fileDlq \cup Items(batch[c])
  BY DEF Evacuate, Appended
<1>2. Secured' = Secured \cup Items(batch[c])
  BY <1>1 DEF Evacuate, Secured
<1>3. NoLoss'
  BY <1>2 DEF Evacuate, NoLoss
<1>4. OthersUnchanged(c)
  BY DEF Evacuate, OthersUnchanged, Goto, TypeInv, TypeOK
<1>5. /\ pc[c] # "down" /\ pc'[c] \in {"evacuated", "panicked"}
      /\ processed'[c] = Watermark(Items(batch[c]))
      /\ UNCHANGED <<batch, observed, position>>
  BY DEF Evacuate, Goto, TypeInv, TypeOK
<1>6. \A m \in Owed : m[2] < processed'[c][m[1]] => m \in Secured'
  BY <1>0, <1>2, <1>5, WatermarkIsSecured
<1>7. Good(c)'
  BY <1>0, <1>2, <1>5, <1>6 DEF Good
<1>. QED BY <1>2, <1>3, <1>4, <1>7, Locality

\* Stale offsets are committed while nothing is retained, and then everything
\* a process has observed is secured.
LEMMA StaleStep ==
  ASSUME TypeInv, NoLoss, AllGood, NEW c \in Consumers,
         StaleCommit(c) \/ StaleCommitRaised(c)
  PROVE  NoLoss' /\ AllGood'
<1>0. Good(c) /\ observed[c] \in OffsetMaps
  BY DEF AllGood, TypeInv, TypeOK
<1>1. StaleOffsets(c) \in OffsetMaps
  BY <1>0, MapFacts DEF StaleOffsets
<1>2. Items(batch[c]) = {}
  BY ItemFacts DEF StaleCommit, StaleCommitRaised, IsStale
<1>3. ASSUME NEW m \in Owed, m[2] < StaleOffsets(c)[m[1]] PROVE m \in Secured
  <2>1. m[1] \in Partitions /\ m[2] \in Nat
    BY MessageFacts DEF Owed
  <2>2. StaleOffsets(c)[m[1]] \in {None, observed[c][m[1]]}
    BY <2>1 DEF StaleOffsets, Only
  <2>3. m[2] < observed[c][m[1]]
    BY <1>3, <2>1, <2>2 DEF None
  <2>. QED BY <1>0, <1>2, <2>3 DEF Good
<1>4. Secured' = Secured /\ NoLoss'
  BY <1>1, <1>3, CommitKeepsNoLoss DEF StaleCommit, StaleCommitRaised
<1>5. OthersUnchanged(c)
  BY DEF StaleCommit, StaleCommitRaised, OthersUnchanged, Goto, work, TypeInv,
         TypeOK
<1>6. /\ pc[c] # "down" /\ pc'[c] = "panic"
      /\ UNCHANGED <<batch, processed, observed, position>>
  BY DEF StaleCommit, StaleCommitRaised, Goto, work, TypeInv, TypeOK
<1>7. Good(c)'
  BY <1>0, <1>4, <1>6 DEF Good
<1>. QED BY <1>4, <1>5, <1>7, Locality

LEMMA HousekeepingStep ==
  ASSUME DiskMayFail = FALSE, TypeInv, NoLoss, AllGood, NEW c \in Consumers,
         Housekeeping(c)
  PROVE  NoLoss' /\ AllGood'
<1>1. CASE EvacuationCommit(c)
  <2>1. /\ pc[c] \in {"commit", "evacuated", "panicked"}
        /\ CommitOk(processed[c]) \/ CommitFailed(processed[c])
        /\ UNCHANGED <<stored, merged, fileDlq, position, observed>>
        /\ batch' = [batch EXCEPT ![c] = <<>>]
        /\ processed' = [processed EXCEPT ![c] = NoOffsets]
    BY <1>1 DEF EvacuationCommit
  <2>2. PICK label \in {"exit", "stale", "top"} : pc' = [pc EXCEPT ![c] = label]
    BY <1>1 DEF EvacuationCommit, Goto
  <2>. QED BY <2>1, <2>2, ForgottenBatch
<1>2. CASE NothingStale(c) \/ NoPanic(c)
  <2>1. Secured' = Secured /\ NoLoss'
    BY <1>2 DEF NothingStale, NoPanic, durable, Secured, NoLoss
  <2>2. OthersUnchanged(c)
    BY <1>2 DEF NothingStale, NoPanic, work, Goto, OthersUnchanged, TypeInv,
                TypeOK
  <2>3. pc[c] # "down" /\ pc'[c] \in {"panic", "top"}
        /\ UNCHANGED <<batch, processed, observed, position>>
    BY <1>2 DEF NothingStale, NoPanic, work, Goto, TypeInv, TypeOK
  <2>4. Good(c)'
    BY <2>1, <2>3 DEF Good, AllGood
  <2>. QED BY <2>1, <2>2, <2>4, Locality
<1>. QED BY <1>1, <1>2, EvacuateStep, StaleStep DEF Housekeeping

LEMMA LifecycleStep ==
  ASSUME TypeInv, NoLoss, AllGood, NEW c \in Consumers,
         \/ Stop(c) \/ Exit(c) \/ Crash(c) \/ Restart(c)
         \/ \E p \in Partitions : Assign(c, p)
  PROVE  NoLoss' /\ AllGood'
<1>0. Good(c)
  BY DEF AllGood
<1>1. Secured' = Secured /\ NoLoss'
  BY DEF Stop, Exit, Crash, Restart, Assign, durable, Secured, NoLoss
<1>2. OthersUnchanged(c)
  <2>1. CASE Stop(c) \/ Restart(c) \/ \E p \in Partitions : Assign(c, p)
    BY <2>1 DEF Stop, Restart, Assign, work, Goto, OthersUnchanged, TypeInv,
                TypeOK
  <2>2. CASE Exit(c) \/ Crash(c)
    BY <2>2 DEF Exit, Crash, Forget, Goto, OthersUnchanged, TypeInv, TypeOK
  <2>. QED BY <2>1, <2>2
<1>3. CASE Stop(c)
  <2>1. pc[c] # "down" /\ pc'[c] \in {"exit", "flush"}
        /\ UNCHANGED <<batch, processed, observed, position>>
    BY <1>3 DEF Stop, work, Goto, TypeInv, TypeOK
  <2>2. Good(c)'
    BY <1>0, <1>1, <2>1 DEF Good
  <2>. QED BY <1>1, <1>2, <2>2, Locality
<1>4. CASE Exit(c) \/ Crash(c)
  <2>1. /\ pc'[c] = "down" /\ Items(batch'[c]) = {}
        /\ processed'[c] = NoOffsets /\ observed'[c] = NoOffsets
    BY <1>4, ItemFacts DEF Exit, Crash, Forget, Goto, TypeInv, TypeOK
  <2>2. \A m \in Owed : /\ ~(m[2] < processed'[c][m[1]])
                        /\ ~(m[2] < observed'[c][m[1]])
    BY <2>1, MessageFacts DEF Owed, NoOffsets, None
  <2>3. Good(c)'
    BY <2>1, <2>2 DEF Good
  <2>. QED BY <1>1, <1>2, <2>3, Locality
<1>5. CASE Restart(c)
  <2>1. /\ pc[c] = "down" /\ pc'[c] = "top" /\ position'[c] = committed
        /\ UNCHANGED <<batch, processed, observed>>
    BY <1>5 DEF Restart, work, Goto, TypeInv, TypeOK
  <2>2. \A m \in Owed : m[2] < position'[c][m[1]] => m \in Secured
    BY <2>1 DEF NoLoss
  <2>3. Good(c)'
    BY <1>0, <1>1, <2>1, <2>2 DEF Good
  <2>. QED BY <1>1, <1>2, <2>3, Locality
<1>6. ASSUME NEW p \in Partitions, Assign(c, p) PROVE NoLoss' /\ AllGood'
  <2>1. /\ pc'[c] = pc[c] /\ pc[c] = "poll"
        /\ UNCHANGED <<batch, processed, observed>>
        /\ position'[c][p] = committed[p]
        /\ \A q \in Partitions \ {p} : position'[c][q] = position[c][q]
    BY <1>6 DEF Assign, work, TypeInv, TypeOK
  <2>2. ASSUME NEW m \in Owed, m[2] < position'[c][m[1]]
        PROVE  m \in Secured \cup Items(batch[c])
    <3>1. m[1] \in Partitions
      BY MessageFacts DEF Owed
    <3>2. CASE m[1] = p
      BY <2>1, <2>2, <3>2 DEF NoLoss
    <3>3. CASE m[1] # p
      BY <1>0, <2>1, <2>2, <3>1, <3>3 DEF Good
    <3>. QED BY <3>2, <3>3
  <2>3. Good(c)'
    BY <1>0, <1>1, <2>1, <2>2 DEF Good
  <2>. QED BY <1>1, <1>2, <2>3, Locality
<1>. QED BY <1>3, <1>4, <1>5, <1>6

LEMMA SinkInit == Init => SinkInv
<1> SUFFICES ASSUME Init PROVE SinkInv
  OBVIOUS
<1>1. TypeInv
  BY TypeInit
<1>2. NoLoss
  BY MessageFacts DEF Init, NoLoss, Owed
<1>3. AllGood
  <2> SUFFICES ASSUME NEW c \in Consumers PROVE Good(c)
    BY DEF AllGood
  <2>1. /\ pc[c] = "top" /\ Items(batch[c]) = {}
        /\ processed[c] = NoOffsets /\ observed[c] = NoOffsets
        /\ position[c] = [p \in Partitions |-> 0]
    BY ItemFacts DEF Init
  <2>2. \A m \in Owed : m[1] \in Partitions /\ m[2] \in Nat
    BY MessageFacts DEF Owed
  <2>. QED BY <2>1, <2>2 DEF Good, NoOffsets, None
<1>. QED BY <1>1, <1>2, <1>3, SinkInvParts

LEMMA SinkStep == DiskMayFail = FALSE /\ SinkInv /\ [Next]_vars => SinkInv'
<1> SUFFICES ASSUME DiskMayFail = FALSE, SinkInv, [Next]_vars PROVE SinkInv'
  OBVIOUS
<1>1. TypeInv /\ NoLoss /\ AllGood
  BY SinkInvParts
<1>2. TypeInv'
  BY <1>1, TypeStep
<1>3. CASE Next
  <2>1. NoLoss' /\ AllGood'
    BY <1>1, <1>3, PollStep, FlushStep, HousekeepingStep, LifecycleStep DEF Next
  <2>2. SinkInv' <=> TypeInv' /\ NoLoss' /\ AllGood'
    BY SinkInvParts, PTL
  <2>. QED BY <1>2, <2>1, <2>2
<1>4. CASE UNCHANGED vars
  BY <1>1, <1>4 DEF SinkInv, TypeOK, NoLoss, NothingPrematurelyAcked,
     BatchHandled, NothingSkipped, ControlConsistent, Secured, Invalid,
     vars, durable, loop, work, budget
<1>. QED BY <1>3, <1>4

\* The inductive invariant holds in every reachable state, provided appends
\* to the file DLQ work (write_to_file_dlq only logs a failed one).
THEOREM SinkInvariant == DiskMayFail = FALSE => (Spec => []SinkInv)
<1> SUFFICES ASSUME DiskMayFail = FALSE PROVE Spec => []SinkInv
  OBVIOUS
<1>1. SinkInv /\ [Next]_vars => SinkInv'
  BY SinkStep
<1>. QED BY <1>1, SinkInit, PTL DEF Spec

\* No alert the sink can read is lost (run_sink, process_batch): below a
\* committed offset every message is in Postgres, in the file DLQ, or was
\* left out for a later message with its alert id.
THEOREM NothingLost == DiskMayFail = FALSE => (Spec => []NoLoss)
<1>1. SinkInv => NoLoss
  BY DEF SinkInv
<1>. QED BY <1>1, SinkInvariant, PTL

-----------------------------------------------------------------------------
(* Flow control.  Bounded(c) relates the place of a process in its loop to *)
(* the size of its batch and its failure count: past the flush, a batch    *)
(* that is still full was refused, which is why the panic guard never      *)
(* meets a batch that was not offered to the API.                          *)

Bounded(c) ==
  /\ pc[c] = "poll" => Len(batch[c]) < MaxBatchSize + polled[c]
  /\ Len(batch[c]) < MaxBatchSize + MaxPollRecords
  /\ pc[c] = "top" => Len(batch[c]) < PanicBatchSize
  /\ pc[c] \in {"stale", "panic"} /\ Len(batch[c]) >= MaxBatchSize
       => failures[c] > 0
  /\ pc[c] \in {"evacuate", "evacuated", "panicked"} => failures[c] > 0

AllBounded == \A c \in Consumers : Bounded(c)

\* A step of c leaves the loop of the others alone.
OtherLoopsUnchanged(c) ==
  \A d \in Consumers \ {c} :
    /\ pc'[d] = pc[d] /\ batch'[d] = batch[d]
    /\ polled'[d] = polled[d] /\ failures'[d] = failures[d]

LEMMA BoundedLocally ==
  ASSUME AllBounded, NEW c \in Consumers, OtherLoopsUnchanged(c), Bounded(c)'
  PROVE  AllBounded'
BY DEF AllBounded, Bounded, OtherLoopsUnchanged

\* What the bounds need of the types of one process.
LEMMA LoopTypes ==
  ASSUME TypeInv, NEW c \in Consumers
  PROVE  /\ Len(batch[c]) \in Nat /\ Len(<<>>) = 0
         /\ polled[c] \in 0 .. MaxPollRecords /\ failures[c] \in Nat
         /\ MaxBatchSize \in Nat \ {0} /\ MaxPollRecords \in Nat \ {0}
         /\ PanicBatchSize \in Nat /\ PanicBatchSize >= MaxBatchSize
         /\ MaxFailures \in Nat \ {0}
<1>1. batch[c] \in Seq(Messages)
  BY DEF TypeInv, TypeOK
<1>. QED BY <1>1, SizeAssumption DEF TypeInv, TypeOK

LEMMA BoundedPollStep ==
  ASSUME TypeInv, AllBounded, NEW c \in Consumers,
         \/ StartPoll(c) \/ FlushDue(c) \/ NotDue(c)
         \/ \E p \in Partitions : Receive(c, p)
  PROVE  AllBounded'
<1>0. Bounded(c)
  BY DEF AllBounded
<1>1. OtherLoopsUnchanged(c)
  <2>1. CASE StartPoll(c) \/ FlushDue(c) \/ NotDue(c)
    BY <2>1 DEF StartPoll, FlushDue, NotDue, OtherLoopsUnchanged, Goto, work,
                TypeInv, TypeOK
  <2>2. CASE \E p \in Partitions : Receive(c, p)
    BY <2>2 DEF Receive, OtherLoopsUnchanged, TypeInv, TypeOK
  <2>. QED BY <2>1, <2>2
<1>2. CASE StartPoll(c)
  <2>1. pc'[c] = "poll" /\ polled'[c] = 0 /\ batch'[c] = batch[c]
        /\ Len(batch[c]) < MaxBatchSize
    BY <1>2 DEF StartPoll, Goto, work, TypeInv, TypeOK
  <2>2. Bounded(c)'
    BY <1>0, <2>1, LoopTypes DEF Bounded
  <2>. QED BY <1>1, <2>2, BoundedLocally
<1>3. CASE FlushDue(c)
  <2>1. pc'[c] = "flush" /\ batch'[c] = batch[c]
    BY <1>3 DEF FlushDue, Goto, work, TypeInv, TypeOK
  <2>2. Bounded(c)'
    BY <1>0, <2>1 DEF Bounded
  <2>. QED BY <1>1, <2>2, BoundedLocally
<1>4. CASE NotDue(c)
  <2>1. pc'[c] = "stale" /\ batch'[c] = batch[c] /\ Len(batch[c]) < MaxBatchSize
    BY <1>4 DEF NotDue, Goto, work, TypeInv, TypeOK
  <2>2. Bounded(c)'
    BY <1>0, <2>1, LoopTypes DEF Bounded
  <2>. QED BY <1>1, <2>2, BoundedLocally
<1>5. ASSUME NEW p \in Partitions, Receive(c, p) PROVE AllBounded'
  <2> DEFINE m == <<p, position[c][p]>>
  <2>1. /\ pc[c] = "poll" /\ pc'[c] = "poll" /\ polled[c] < MaxPollRecords
        /\ polled'[c] = polled[c] + 1 /\ m \in Messages
        /\ batch'[c] = batch[c] \/ batch'[c] = Append(batch[c], m)
    BY <1>5 DEF Receive, TypeInv, TypeOK
  <2>2. Len(batch'[c]) \in {Len(batch[c]), Len(batch[c]) + 1}
    <3>1. batch[c] \in Seq(Messages)
      BY DEF TypeInv, TypeOK
    <3>2. m \in Messages
      BY <2>1
    <3>3. Len(Append(batch[c], m)) = Len(batch[c]) + 1
      <4> HIDE DEF m
      <4>. QED BY <3>1, <3>2
    <3>. QED BY <2>1, <3>3
  <2>3. Bounded(c)'
    <3> DEFINE before == Len(batch[c])
               after == Len(batch'[c])
    <3>1. before < MaxBatchSize + polled[c] /\ before \in Nat /\ after \in {before, before + 1}
      BY <1>0, <2>1, <2>2, LoopTypes DEF Bounded
    <3> HIDE DEF before, after
    <3>2. after < MaxBatchSize + polled'[c] /\ after < MaxBatchSize + MaxPollRecords
      BY <2>1, <3>1, LoopTypes
    <3>. QED BY <2>1, <3>2 DEF Bounded, after
  <2>. QED BY <1>1, <2>3, BoundedLocally
<1>. QED BY <1>2, <1>3, <1>4, <1>5

\* A failed flush leads on through the loop with the failure counted.
LEMMA BoundedAfterFailure ==
  ASSUME NEW c \in Consumers, TypeInv, Bounded(c), CountFailure(c),
         pc'[c] = AfterFailure(c), batch'[c] = batch[c]
  PROVE  Bounded(c)'
<1>1. CASE draining[c]
  BY <1>1 DEF AfterFailure, Bounded
<1>2. CASE ~draining[c]
  <2>1. failures'[c] = failures[c] + 1
    BY <1>2 DEF CountFailure, TypeInv, TypeOK
  <2>2. pc'[c] \in {"evacuate", "stale"}
    BY <1>2 DEF AfterFailure
  <2>. QED BY <2>1, <2>2, LoopTypes DEF Bounded
<1>. QED BY <1>1, <1>2 DEF TypeInv, TypeOK

LEMMA BoundedFlushStep ==
  ASSUME TypeInv, AllBounded, NEW c \in Consumers, Flush(c)
  PROVE  AllBounded'
<1>0. Bounded(c)
  BY DEF AllBounded
<1>1. OtherLoopsUnchanged(c)
  BY DEF Flush, Quarantine, Ingested, IngestRaised, Commit, CommitRaised,
         CountFailure, OtherLoopsUnchanged, Goto, work, TypeInv, TypeOK
<1>2. CASE Quarantine(c) \/ Ingested(c)
  <2>1. pc'[c] \in {"ingest", "commit"} /\ batch'[c] = batch[c]
    BY <1>2 DEF Quarantine, Ingested, Goto, work, TypeInv, TypeOK
  <2>2. Bounded(c)'
    BY <1>0, <2>1 DEF Bounded
  <2>. QED BY <1>1, <2>2, BoundedLocally
<1>3. CASE IngestRaised(c) \/ CommitRaised(c)
  <2>1. /\ CountFailure(c) /\ pc'[c] = AfterFailure(c)
        /\ batch'[c] = batch[c]
    BY <1>3 DEF IngestRaised, CommitRaised, Goto, TypeInv, TypeOK
  <2>. QED BY <1>0, <1>1, <2>1, BoundedAfterFailure, BoundedLocally
<1>4. CASE Commit(c)
  <2>1. pc'[c] \in {"exit", "stale"} /\ batch'[c] = <<>>
    BY <1>4 DEF Commit, Goto, TypeInv, TypeOK
  <2>2. Bounded(c)'
    BY <2>1, LoopTypes DEF Bounded
  <2>. QED BY <1>1, <2>2, BoundedLocally
<1>. QED BY <1>2, <1>3, <1>4 DEF Flush

LEMMA BoundedHousekeepingStep ==
  ASSUME TypeInv, AllBounded, NEW c \in Consumers, Housekeeping(c)
  PROVE  AllBounded'
<1>0. Bounded(c)
  BY DEF AllBounded
<1>1. OtherLoopsUnchanged(c)
  BY DEF Housekeeping, Evacuate, EvacuationCommit, StaleCommit,
         StaleCommitRaised, NothingStale, NoPanic, OtherLoopsUnchanged, Goto,
         work, TypeInv, TypeOK
<1>2. CASE Evacuate(c)
  <2>1. /\ pc'[c] \in {"evacuated", "panicked"}
        /\ batch'[c] = batch[c] /\ failures'[c] = failures[c]
        /\ \/ pc[c] = "evacuate"
           \/ pc[c] = "panic" /\ Len(batch[c]) >= PanicBatchSize
    BY <1>2 DEF Evacuate, Goto, TypeInv, TypeOK
  <2>2. Bounded(c)'
    BY <1>0, <2>1, LoopTypes DEF Bounded
  <2>. QED BY <1>1, <2>2, BoundedLocally
<1>3. CASE EvacuationCommit(c)
  <2>1. pc'[c] \in {"top", "stale"} /\ batch'[c] = <<>>
    BY <1>3 DEF EvacuationCommit, Goto, TypeInv, TypeOK
  <2>2. Bounded(c)'
    BY <2>1, LoopTypes DEF Bounded
  <2>. QED BY <1>1, <2>2, BoundedLocally
<1>4. CASE StaleCommit(c) \/ StaleCommitRaised(c) \/ NothingStale(c)
  <2>1. /\ pc[c] = "stale" /\ pc'[c] = "panic"
        /\ batch'[c] = batch[c] /\ failures'[c] = failures[c]
    BY <1>4 DEF StaleCommit, StaleCommitRaised, NothingStale, Goto, work,
                TypeInv, TypeOK
  <2>2. Bounded(c)'
    BY <1>0, <2>1 DEF Bounded
  <2>. QED BY <1>1, <2>2, BoundedLocally
<1>5. CASE NoPanic(c)
  <2>1. pc'[c] = "top" /\ batch'[c] = batch[c] /\ Len(batch[c]) < PanicBatchSize
    BY <1>5 DEF NoPanic, Goto, work, TypeInv, TypeOK
  <2>2. Bounded(c)'
    BY <1>0, <2>1 DEF Bounded
  <2>. QED BY <1>1, <2>2, BoundedLocally
<1>. QED BY <1>2, <1>3, <1>4, <1>5 DEF Housekeeping

LEMMA BoundedLifecycleStep ==
  ASSUME TypeInv, AllBounded, NEW c \in Consumers,
         \/ Stop(c) \/ Exit(c) \/ Crash(c) \/ Restart(c)
         \/ \E p \in Partitions : Assign(c, p)
  PROVE  AllBounded'
<1>0. Bounded(c)
  BY DEF AllBounded
<1>1. OtherLoopsUnchanged(c)
  <2>1. CASE Stop(c) \/ Restart(c) \/ \E p \in Partitions : Assign(c, p)
    BY <2>1 DEF Stop, Restart, Assign, work, Goto, OtherLoopsUnchanged,
                TypeInv, TypeOK
  <2>2. CASE Exit(c) \/ Crash(c)
    BY <2>2 DEF Exit, Crash, Forget, Goto, OtherLoopsUnchanged, TypeInv, TypeOK
  <2>. QED BY <2>1, <2>2
<1>2. CASE Stop(c)
  <2>1. pc'[c] \in {"exit", "flush"} /\ batch'[c] = batch[c]
    BY <1>2 DEF Stop, Goto, work, TypeInv, TypeOK
  <2>2. Bounded(c)'
    BY <1>0, <2>1 DEF Bounded
  <2>. QED BY <1>1, <2>2, BoundedLocally
<1>3. CASE Exit(c) \/ Crash(c)
  <2>1. pc'[c] = "down" /\ batch'[c] = <<>>
    BY <1>3 DEF Exit, Crash, Forget, Goto, TypeInv, TypeOK
  <2>2. Bounded(c)'
    BY <2>1, LoopTypes DEF Bounded
  <2>. QED BY <1>1, <2>2, BoundedLocally
<1>4. CASE Restart(c)
  <2>1. pc'[c] = "top" /\ batch'[c] = <<>>
    BY <1>4 DEF Restart, Goto, work, TypeInv, TypeOK, ControlConsistent
  <2>2. Bounded(c)'
    BY <2>1, LoopTypes DEF Bounded
  <2>. QED BY <1>1, <2>2, BoundedLocally
<1>5. ASSUME NEW p \in Partitions, Assign(c, p) PROVE AllBounded'
  <2>1. UNCHANGED <<pc, batch, polled, failures>>
    BY <1>5 DEF Assign, work
  <2>. QED BY <2>1 DEF AllBounded, Bounded
<1>. QED BY <1>2, <1>3, <1>4, <1>5

\* Retention is bounded by one batch and one poll, the loop never comes round
\* with a batch of the panic size, and nothing is evacuated that the API was
\* not offered first (run_sink's flow control and its two evacuations): for
\* every batch size, poll size and threshold, and whatever the disk does.
THEOREM EvacuationIsJustified == Spec => []EvacuationJustified
<1>1. Init => AllBounded
  BY SizeAssumption DEF Init, AllBounded, Bounded
<1>2. TypeInv /\ AllBounded /\ [Next]_vars => AllBounded'
  <2>1. ASSUME TypeInv, AllBounded, Next PROVE AllBounded'
    BY <2>1, BoundedPollStep, BoundedFlushStep, BoundedHousekeepingStep,
       BoundedLifecycleStep DEF Next
  <2>2. ASSUME AllBounded, UNCHANGED vars PROVE AllBounded'
    BY <2>2 DEF AllBounded, Bounded, vars, loop, work
  <2>. QED BY <2>1, <2>2
<1>3. AllBounded => EvacuationJustified
  BY DEF AllBounded, Bounded, EvacuationJustified, EvacuationFollowsFailure,
         RetentionBounded
<1>. QED BY <1>1, <1>2, <1>3, TypeInit, TypeStep, PTL DEF Spec

-----------------------------------------------------------------------------
(* De-duplication *)

\* Whatever process_batch leaves out, it sends a later item of that alert id.
LEMMA DedupRepresents ==
  ASSUME NEW b \in Seq(Messages), NEW m \in Valid(b)
  PROVE  \E n \in Deduped(b) : Kind(n) = "valid" /\ Aid(n) = Aid(m)
<1> DEFINE same == {k \in DOMAIN b : Kind(b[k]) = "valid" /\ Aid(b[k]) = Aid(m)}
<1>1. DOMAIN b = 1 .. Len(b) /\ Len(b) \in Nat
  OBVIOUS
<1>2. same # {}
  BY DEF Valid, Items
<1>3. same \subseteq Nat /\ \A k \in same : k <= Len(b)
  BY <1>1
<1>4. Max(same) \in same /\ \A k \in same : k <= Max(same)
  <2> HIDE DEF same
  <2>. QED BY <1>1, <1>2, <1>3, MaxOfBounded
<1> DEFINE last == Max(same)
<1>5. \A j \in DOMAIN b : j > last /\ Kind(b[j]) = "valid" => Aid(b[j]) # Aid(b[last])
  <2> SUFFICES ASSUME NEW j \in DOMAIN b, j > last, Kind(b[j]) = "valid",
                      Aid(b[j]) = Aid(b[last])
               PROVE  FALSE
    OBVIOUS
  <2>1. j \in same
    BY <1>4
  <2>2. j <= last
    BY <1>4, <2>1
  <2>. QED BY <1>1, <1>3, <1>4, <2>2
<1>6. b[last] \in Deduped(b)
  BY <1>4, <1>5 DEF Deduped
<1>. QED BY <1>4, <1>6

\* The last word on an alert is never merged away (by_aid in process_batch):
\* a message that was left out has another one, with its alert id, that is in
\* Postgres or in the file DLQ.
THEOREM MergedAreRepresented == DiskMayFail = FALSE => (Spec => []MergedIsRepresented)
<1> SUFFICES ASSUME DiskMayFail = FALSE PROVE Spec => []MergedIsRepresented
  OBVIOUS
<1>1. Init => MergedIsRepresented
  BY DEF Init, MergedIsRepresented
<1>2. ASSUME TypeInv, MergedIsRepresented, [Next]_vars
      PROVE  MergedIsRepresented'
  <2>1. CASE stored \subseteq stored' /\ fileDlq \subseteq fileDlq' /\ merged' = merged
    BY <1>2, <2>1 DEF MergedIsRepresented
  <2>2. ASSUME NEW c \in Consumers, Ingested(c) PROVE MergedIsRepresented'
    <3> DEFINE b == batch[c]
    <3>1. PICK rejected \in SUBSET Deduped(b) :
            /\ stored' = stored \cup (Deduped(b) \ rejected)
            /\ fileDlq' = fileDlq \cup rejected
      BY <2>2 DEF Ingested, Appended
    <3>2. merged' = merged \cup (Valid(b) \ Deduped(b))
      BY <2>2 DEF Ingested
    <3>3. b \in Seq(Messages)
      BY <1>2 DEF TypeInv, TypeOK
    <3>4. Deduped(b) \subseteq stored' \cup fileDlq'
      BY <3>1
    <3>. QED BY <1>2, <3>1, <3>2, <3>3, <3>4, DedupRepresents
             DEF MergedIsRepresented
  <2>3. CASE Next
    <3>1. ASSUME NEW c \in Consumers,
                 \/ StartPoll(c) \/ FlushDue(c) \/ NotDue(c)
                 \/ \E p \in Partitions : Receive(c, p)
                 \/ Stop(c) \/ Exit(c) \/ Crash(c) \/ Restart(c)
                 \/ \E p \in Partitions : Assign(c, p)
          PROVE  UNCHANGED <<stored, fileDlq, merged>>
      BY <3>1 DEF StartPoll, FlushDue, NotDue, Receive, Stop, Exit, Crash,
                  Restart, Assign, durable
    <3>2. ASSUME NEW c \in Consumers, Flush(c), ~Ingested(c)
          PROVE  stored \subseteq stored' /\ fileDlq \subseteq fileDlq'
                 /\ merged' = merged
      BY <3>2 DEF Flush, Quarantine, IngestRaised, Commit, CommitRaised
    <3>3. ASSUME NEW c \in Consumers, Housekeeping(c)
          PROVE  stored \subseteq stored' /\ fileDlq \subseteq fileDlq'
                 /\ merged' = merged
      BY <3>3 DEF Housekeeping, Evacuate, EvacuationCommit, StaleCommit,
                  StaleCommitRaised, NothingStale, NoPanic, durable
    <3>. QED BY <2>1, <2>2, <2>3, <3>1, <3>2, <3>3 DEF Next
  <2>4. CASE UNCHANGED vars
    BY <2>1, <2>4 DEF vars, durable
  <2>. QED BY <1>2, <2>3, <2>4
<1>3. TypeInv /\ MergedIsRepresented /\ [Next]_vars => MergedIsRepresented'
  BY <1>2
<1>. QED BY <1>1, <1>3, TypeInit, TypeStep, PTL DEF Spec

-----------------------------------------------------------------------------
(* Refinement *)

LEMMA SecuredGrows ==
  ASSUME TypeInv, [Next]_vars
  PROVE  /\ Secured \subseteq Secured'
         /\ UNCHANGED committed \/ Secured' = Secured
<1>1. CASE UNCHANGED vars
  BY <1>1 DEF vars, durable, Secured
<1>2. ASSUME NEW c \in Consumers,
             \/ StartPoll(c) \/ FlushDue(c) \/ NotDue(c)
             \/ \E p \in Partitions : Receive(c, p)
             \/ Stop(c) \/ Exit(c) \/ Crash(c) \/ Restart(c)
             \/ \E p \in Partitions : Assign(c, p)
      PROVE  UNCHANGED <<committed, Secured>>
  BY <1>2 DEF StartPoll, FlushDue, NotDue, Receive, Stop, Exit, Crash, Restart,
              Assign, durable, Secured
<1>3. ASSUME NEW c \in Consumers, Flush(c)
      PROVE  /\ Secured \subseteq Secured'
             /\ UNCHANGED committed \/ Secured' = Secured
  BY <1>3 DEF Flush, Quarantine, Ingested, IngestRaised, Commit, CommitRaised,
              Secured
<1>4. ASSUME NEW c \in Consumers, Housekeeping(c)
      PROVE  /\ Secured \subseteq Secured'
             /\ UNCHANGED committed \/ Secured' = Secured
  BY <1>4 DEF Housekeeping, Evacuate, EvacuationCommit, StaleCommit,
              StaleCommitRaised, NothingStale, NoPanic, durable, Secured
<1>. QED BY <1>1, <1>2, <1>3, <1>4 DEF Next

\* The sink implements at-least-once delivery (AlertDelivery), with the
\* secured messages and the group's committed offsets as its abstract state.
THEOREM SinkDelivers == DiskMayFail = FALSE => (Spec => ImplementsDelivery)
<1> SUFFICES ASSUME DiskMayFail = FALSE PROVE Spec => ImplementsDelivery
  OBVIOUS
<1>1. Init => Delivery!Init
  BY DEF Init, Delivery!Init, Secured
<1>2. SinkInv /\ SinkInv' /\ [Next]_vars => [Delivery!Next]_(Delivery!vars)
  <2> SUFFICES ASSUME SinkInv, SinkInv', [Next]_vars
               PROVE  Delivery!Secure \/ Delivery!Acknowledge
    BY DEF Delivery!Next
  <2>1. TypeInv /\ TypeInv' /\ NoLoss'
    BY SinkInvParts DEF SinkInv, TypeInv
  <2>2. Secured \subseteq Secured' /\ Secured' \subseteq Messages
    BY <2>1, SecuredGrows DEF TypeInv, TypeOK, Secured
  <2>3. committed' \in [Partitions -> Nat]
    BY <2>1 DEF TypeInv, TypeOK
  <2>4. CASE UNCHANGED committed
    BY <2>2, <2>4 DEF Delivery!Secure
  <2>5. CASE Secured' = Secured
    BY <2>1, <2>3, <2>5 DEF Delivery!Acknowledge, Delivery!MayAck, NoLoss
  <2>. QED BY <2>1, <2>4, <2>5, SecuredGrows
<1>. QED BY <1>1, <1>2, SinkInvariant, PTL
         DEF Spec, ImplementsDelivery, Delivery!Spec
=============================================================================
