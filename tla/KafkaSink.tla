------------------------------ MODULE KafkaSink ------------------------------
(***************************************************************************)
(* The sink that moves alerts from the Kafka alerts topic to Postgres:     *)
(* run_sink() and process_batch() of api/kafka_sink.py.                    *)
(*                                                                         *)
(* Each member of Consumers is one sink process: a single-threaded loop    *)
(* that polls, flushes its batch through the ingest API, commits offsets,  *)
(* evacuates the batch to the file DLQ when flushing keeps failing, and    *)
(* commits the "stale" offsets of messages it skipped.  A process may      *)
(* crash between any two steps, and the group may hand a partition to      *)
(* another process, which then reads from the committed offset.            *)
(*                                                                         *)
(* A message is the pair <<partition, offset>>; what it says is Log.  The  *)
(* same alert may occur in the topic more than once (producer retries,     *)
(* scripts/replay_dlq.py), so a message has an alert id and a kind:        *)
(*   "valid"   decodes and passes AlertPayload                             *)
(*   "invalid" decodes and has an alert_id, but AlertPayload refuses it    *)
(*   "bad"     too long, undecodable, or without an alert_id               *)
(*                                                                         *)
(* The attempts of one offset commit are one step.  The copy of a dead     *)
(* letter that send_to_dlq sends to Kafka is left out: it is best effort,  *)
(* and nothing reads it.                                                   *)
(***************************************************************************)
EXTENDS Integers, Sequences, FiniteSetsExt

CONSTANTS
  Partitions,      \* partitions of the alerts topic
  Consumers,       \* sink processes of the consumer group
  Log,             \* Log[p]: the messages of partition p, oldest first
  AlertIds,        \* the alert ids that occur in Log
  MaxBatchSize,    \* MAX_BATCH_SIZE (100)
  MaxPollRecords,  \* the consumer's max_poll_records (library default 500)
  PanicBatchSize,  \* PANIC_BATCH_SIZE (500)
  MaxFailures,     \* MAX_CONSECUTIVE_FAILURES (5)
  DiskMayFail,     \* whether an append to the file DLQ may fail
  MaxStops,        \* bound: crashes and graceful shutdowns in a behaviour
  MaxRebalances    \* bound: partition assignments after the first

Kinds == {"valid", "invalid", "bad"}

ASSUME LogAssumption ==
  Log \in [Partitions -> Seq([aid : AlertIds, kind : Kinds])]

ASSUME SizeAssumption ==
  /\ MaxBatchSize \in Nat \ {0}
  /\ MaxPollRecords \in Nat \ {0}
  /\ PanicBatchSize \in Nat /\ PanicBatchSize >= MaxBatchSize
  /\ MaxFailures \in Nat \ {0}

ASSUME BoundAssumption ==
  /\ DiskMayFail \in BOOLEAN
  /\ MaxStops \in Nat
  /\ MaxRebalances \in Nat

VARIABLES
  \* The broker, Postgres and the DLQ volume: they survive a crash.
  committed,      \* committed[p]: the group's committed offset of p
  owner,          \* owner[p]: the process p is assigned to
  stored,         \* messages that a committed upsert wrote to Postgres
  merged,         \* history: messages left out of a POST that was answered,
                  \* because a later one in the batch had the same alert id
  fileDlq,        \* messages in the local-disk DLQ
  \* The memory of each process.
  pc,             \* where in the loop it is ("down": not running)
  draining,       \* the loop has ended: this is the final batch
  position,       \* position[c][p]: next offset c fetches from p
  polled,         \* records received in the poll under way
  batch,          \* retained messages, in arrival order
  processed,      \* the offsets the next commit writes
  observed,       \* highest_observed_offsets
  lastCommitted,  \* last_committed_offsets
  failures,       \* consecutive_commit_failures
  \* Bounds.
  stops, rebalances

durable == <<committed, owner, stored, merged, fileDlq>>
loop    == <<pc, draining, position, polled>>
work    == <<batch, processed, observed, lastCommitted, failures>>
budget  == <<stops, rebalances>>
vars    == <<durable, loop, work, budget>>

-----------------------------------------------------------------------------
(* Messages and offset maps.  An offset map gives None to a partition the  *)
(* code's dictionary has no key for.                                       *)

Messages == UNION {{p} \X (0 .. Len(Log[p]) - 1) : p \in Partitions}

Aid(m)  == Log[m[1]][m[2] + 1].aid
Kind(m) == Log[m[1]][m[2] + 1].kind

None == -1
NoOffsets == [p \in Partitions |-> None]

Items(b) == {b[i] : i \in DOMAIN b}

\* Fault: two past the highest offset.
WatermarkTooHigh(S) ==
  [p \in Partitions |->
     LET next == {m[2] + 2 : m \in {n \in S : n[1] = p}}
     IN  IF next = {} THEN None ELSE Max(next)]

\* offsets_map / max_offsets: one past the highest offset of each partition
Watermark(S) ==
  [p \in Partitions |->
     LET next == {m[2] + 1 : m \in {n \in S : n[1] = p}}
     IN  IF next = {} THEN None ELSE Max(next)]

\* dict.update, and the effect of an offset commit on the broker
Update(f, g) == [p \in Partitions |-> IF g[p] = None THEN f[p] ELSE g[p]]

\* the part of an offset map that concerns the partitions in S
Only(S, g) == [p \in Partitions |-> IF p \in S THEN g[p] ELSE None]

Invalid(b) == {m \in Items(b) : Kind(m) = "invalid"}
Valid(b)   == {m \in Items(b) : Kind(m) = "valid"}

\* Fault: items are de-duplicated before they are validated.
DedupBeforeValidation(b) ==
  {b[i] : i \in {k \in DOMAIN b :
     /\ Kind(b[k]) = "valid"
     /\ \A j \in DOMAIN b : j > k => Aid(b[j]) # Aid(b[k])}}

\* by_aid: of the valid items with one alert id, only the last is sent
Deduped(b) ==
  {b[i] : i \in {k \in DOMAIN b :
     /\ Kind(b[k]) = "valid"
     /\ \A j \in DOMAIN b :
          j > k /\ Kind(b[j]) = "valid" => Aid(b[j]) # Aid(b[k])}}

\* write_to_file_dlq of every message in S: an append that raises is only
\* logged, so any part of S may be missing afterwards
Appended(S) == IF DiskMayFail THEN SUBSET S ELSE {S}

-----------------------------------------------------------------------------
Init ==
  /\ committed = [p \in Partitions |-> 0]
  /\ owner \in [Partitions -> Consumers]
  /\ stored = {}
  /\ merged = {}
  /\ fileDlq = {}
  /\ pc = [c \in Consumers |-> "top"]
  /\ draining = [c \in Consumers |-> FALSE]
  /\ position = [c \in Consumers |-> committed]
  /\ polled = [c \in Consumers |-> 0]
  /\ batch = [c \in Consumers |-> <<>>]
  /\ processed = [c \in Consumers |-> NoOffsets]
  /\ observed = [c \in Consumers |-> NoOffsets]
  /\ lastCommitted = [c \in Consumers |-> NoOffsets]
  /\ failures = [c \in Consumers |-> 0]
  /\ stops = 0
  /\ rebalances = 0

Goto(c, label) == pc' = [pc EXCEPT ![c] = label]

-----------------------------------------------------------------------------
(* Polling *)

\* Fault: no flow control.
PollAlways(c) ==
  /\ pc[c] = "top"
  /\ Goto(c, "poll")
  /\ polled' = [polled EXCEPT ![c] = 0]
  /\ UNCHANGED <<durable, draining, position, work, budget>>

\* consumer.poll(): only while the batch is below MAX_BATCH_SIZE
StartPoll(c) ==
  /\ pc[c] = "top"
  /\ Len(batch[c]) < MaxBatchSize
  /\ Goto(c, "poll")
  /\ polled' = [polled EXCEPT ![c] = 0]
  /\ UNCHANGED <<durable, draining, position, work, budget>>

\* One record of the poll: _record_offset for every message, then the batch
\* gets the message unless it is bad.  Records of different partitions may
\* come in any order.
Receive(c, p) ==
  LET m == <<p, position[c][p]>>
      w == position[c][p] + 1
  IN  /\ pc[c] = "poll"
      /\ polled[c] < MaxPollRecords
      /\ owner[p] = c
      /\ m \in Messages
      /\ position' = [position EXCEPT ![c][p] = w]
      /\ polled' = [polled EXCEPT ![c] = @ + 1]
      /\ observed' = [observed EXCEPT ![c][p] = IF @ > w THEN @ ELSE w]
      /\ batch' = IF Kind(m) = "bad" THEN batch
                  ELSE [batch EXCEPT ![c] = Append(@, m)]
      /\ UNCHANGED <<durable, pc, draining, processed, lastCommitted,
                     failures, budget>>

\* "Commit on size or time": the batch is full, or it is not empty and five
\* seconds have passed since the last commit.  A batch that is full at the
\* top of the loop is flushed without a poll.
FlushDue(c) ==
  /\ \/ pc[c] = "poll" /\ batch[c] # <<>>
     \/ pc[c] = "top" /\ Len(batch[c]) >= MaxBatchSize
  /\ Goto(c, "flush")
  /\ UNCHANGED <<durable, draining, position, polled, work, budget>>

\* Fault: only the time is looked at.
NotDueBySize(c) ==
  /\ pc[c] = "poll"
  /\ Goto(c, "stale")
  /\ UNCHANGED <<durable, draining, position, polled, work, budget>>

NotDue(c) ==
  /\ pc[c] = "poll"
  /\ Len(batch[c]) < MaxBatchSize
  /\ Goto(c, "stale")
  /\ UNCHANGED <<durable, draining, position, polled, work, budget>>

-----------------------------------------------------------------------------
(* process_batch *)

\* Items AlertPayload refuses go to the DLQ.
Quarantine(c) ==
  /\ pc[c] = "flush"
  /\ \E written \in Appended(Invalid(batch[c])) :
       fileDlq' = fileDlq \cup written
  /\ Goto(c, "ingest")
  /\ UNCHANGED <<committed, owner, stored, merged, draining, position, polled,
                 work, budget>>

\* The ingest API answers, naming the items it rejected: those go to the DLQ
\* and the offsets of the whole batch may be committed.  With no valid item
\* nothing is sent.
Ingested(c) ==
  /\ pc[c] = "ingest"
  /\ \E rejected \in SUBSET Deduped(batch[c]) :
     \E written \in Appended(rejected) :
       /\ stored' = stored \cup (Deduped(batch[c]) \ rejected)
       /\ fileDlq' = fileDlq \cup written
  /\ merged' = merged \cup (Valid(batch[c]) \ Deduped(batch[c]))
  /\ processed' = [processed EXCEPT ![c] =
                     Watermark(Deduped(batch[c]) \cup Invalid(batch[c]))]
  /\ Goto(c, "commit")
  /\ UNCHANGED <<committed, owner, draining, position, polled, batch,
                 observed, lastCommitted, failures, budget>>

\* Fault: the threshold is compared with the wrong operator.
AfterTooManyFailures(c) ==
  CASE draining[c]                    -> "exit"
    [] ~draining[c] /\ failures'[c] > MaxFailures -> "evacuate"
    [] OTHER                          -> "stale"

\* Where a failed flush leads: to the evacuation of the batch once there were
\* MAX_CONSECUTIVE_FAILURES of them, on through the loop with the batch
\* retained before that, and to the exit when the loop has ended.
AfterFailure(c) ==
  CASE draining[c]                    -> "exit"
    [] ~draining[c] /\ failures'[c] >= MaxFailures -> "evacuate"
    [] OTHER                          -> "stale"

\* Fault: failures are not counted, and a batch is retried for ever.
NotCounted(c) == UNCHANGED failures

CountFailure(c) ==
  failures' = [failures EXCEPT ![c] = IF draining[c] THEN @ ELSE @ + 1]

\* The call raises: network error, timeout, refused token, 5xx.  The server
\* may have upserted nothing or, if only the answer was lost, any part of it.
IngestRaised(c) ==
  /\ pc[c] = "ingest"
  /\ Valid(batch[c]) # {}
  /\ \E upserted \in SUBSET Deduped(batch[c]) :
       stored' = stored \cup upserted
  /\ CountFailure(c)
  /\ Goto(c, AfterFailure(c))
  /\ UNCHANGED <<committed, owner, merged, fileDlq, draining, position,
                 polled, batch, processed, observed, lastCommitted, budget>>

-----------------------------------------------------------------------------
(* Offset commits.  The broker does not ask whether the committing process *)
(* still owns the partition.  A commit that raises may still have taken    *)
(* effect, for any of its partitions.                                      *)

CommitOk(offs)     == committed' = Update(committed, offs)
CommitFailed(offs) == \E S \in SUBSET Partitions :
                        committed' = Update(committed, Only(S, offs))

\* A flush whose commit succeeds within its MAX_COMMIT_RETRIES attempts
\* (one attempt on the way out)
Commit(c) ==
  /\ pc[c] = "commit"
  /\ CommitOk(processed[c])
  /\ lastCommitted' = [lastCommitted EXCEPT ![c] = Update(@, processed[c])]
  /\ failures' = [failures EXCEPT ![c] = 0]
  /\ batch' = [batch EXCEPT ![c] = <<>>]
  /\ processed' = [processed EXCEPT ![c] = NoOffsets]
  /\ Goto(c, IF draining[c] THEN "exit" ELSE "stale")
  /\ UNCHANGED <<owner, stored, merged, fileDlq, draining, position, polled,
                 observed, budget>>

CommitRaised(c) ==
  /\ pc[c] = "commit"
  /\ CommitFailed(processed[c])
  /\ CountFailure(c)
  /\ processed' = [processed EXCEPT ![c] = NoOffsets]
  /\ Goto(c, AfterFailure(c))
  /\ UNCHANGED <<owner, stored, merged, fileDlq, draining, position, polled,
                 batch, observed, lastCommitted, budget>>

-----------------------------------------------------------------------------
(* Evacuation *)

\* The batch goes to the file DLQ: at the failure threshold, or because it
\* has PANIC_BATCH_SIZE items at the end of the loop's body.
Evacuate(c) ==
  /\ \/ pc[c] = "evacuate"
     \/ pc[c] = "panic" /\ Len(batch[c]) >= PanicBatchSize
  /\ \E written \in Appended(Items(batch[c])) :
       fileDlq' = fileDlq \cup written
  /\ processed' = [processed EXCEPT ![c] = Watermark(Items(batch[c]))]
  /\ Goto(c, IF pc[c] = "evacuate" THEN "evacuated" ELSE "panicked")
  /\ UNCHANGED <<committed, owner, stored, merged, draining, position, polled,
                 batch, observed, lastCommitted, failures, budget>>

\* The offsets of an evacuated batch are committed once; the batch is
\* forgotten whether or not that works.  Only the evacuation at the threshold
\* notes the offsets in last_committed_offsets.
EvacuationCommit(c) ==
  /\ pc[c] \in {"evacuated", "panicked"}
  /\ \/ /\ CommitOk(processed[c])
        /\ lastCommitted' = IF pc[c] = "panicked" THEN lastCommitted
             ELSE [lastCommitted EXCEPT ![c] = Update(@, processed[c])]
     \/ CommitFailed(processed[c]) /\ UNCHANGED lastCommitted
  /\ batch' = [batch EXCEPT ![c] = <<>>]
  /\ processed' = [processed EXCEPT ![c] = NoOffsets]
  /\ failures' = [failures EXCEPT ![c] = 0]
  /\ Goto(c, IF pc[c] = "panicked" THEN "top" ELSE "stale")
  /\ UNCHANGED <<owner, stored, merged, fileDlq, draining, position, polled,
                 observed, budget>>

-----------------------------------------------------------------------------
(* Stale offsets: with nothing retained, every observed offset is committed *)

\* Fault: offsets of skipped messages are never committed.
NoStaleOffsets(c) == NoOffsets

StaleOffsets(c) ==
  Only({p \in Partitions : observed[c][p] > lastCommitted[c][p]}, observed[c])

\* Fault: observed offsets are committed while a batch is retained.
StaleDespiteBatch(c) == StaleOffsets(c) # NoOffsets

IsStale(c) == batch[c] = <<>> /\ StaleOffsets(c) # NoOffsets

StaleCommit(c) ==
  /\ pc[c] = "stale"
  /\ IsStale(c)
  /\ CommitOk(StaleOffsets(c))
  /\ lastCommitted' =
       [lastCommitted EXCEPT ![c] = Update(@, StaleOffsets(c))]
  /\ Goto(c, "panic")
  /\ UNCHANGED <<owner, stored, merged, fileDlq, draining, position, polled,
                 batch, processed, observed, failures, budget>>

StaleCommitRaised(c) ==
  /\ pc[c] = "stale"
  /\ IsStale(c)
  /\ CommitFailed(StaleOffsets(c))
  /\ Goto(c, "panic")
  /\ UNCHANGED <<owner, stored, merged, fileDlq, draining, position, polled,
                 work, budget>>

NothingStale(c) ==
  /\ pc[c] = "stale"
  /\ ~IsStale(c)
  /\ Goto(c, "panic")
  /\ UNCHANGED <<durable, draining, position, polled, work, budget>>

\* The end of the loop's body, below the panic guard
NoPanic(c) ==
  /\ pc[c] = "panic"
  /\ Len(batch[c]) < PanicBatchSize
  /\ Goto(c, "top")
  /\ UNCHANGED <<durable, draining, position, polled, work, budget>>

-----------------------------------------------------------------------------
(* Shutdown, crash, restart, rebalance *)

\* SIGTERM or SIGINT clears running, which the loop reads at its top.
Stop(c) ==
  /\ pc[c] = "top"
  /\ stops < MaxStops
  /\ stops' = stops + 1
  /\ draining' = [draining EXCEPT ![c] = TRUE]
  /\ Goto(c, IF batch[c] = <<>> THEN "exit" ELSE "flush")
  /\ UNCHANGED <<durable, position, polled, work, rebalances>>

\* The process is gone, and its memory with it.
Forget(c) ==
  /\ Goto(c, "down")
  /\ draining' = [draining EXCEPT ![c] = FALSE]
  /\ polled' = [polled EXCEPT ![c] = 0]
  /\ batch' = [batch EXCEPT ![c] = <<>>]
  /\ processed' = [processed EXCEPT ![c] = NoOffsets]
  /\ observed' = [observed EXCEPT ![c] = NoOffsets]
  /\ lastCommitted' = [lastCommitted EXCEPT ![c] = NoOffsets]
  /\ failures' = [failures EXCEPT ![c] = 0]

Exit(c) ==
  /\ pc[c] = "exit"
  /\ Forget(c)
  /\ UNCHANGED <<durable, position, budget>>

Crash(c) ==
  /\ pc[c] # "down"
  /\ stops < MaxStops
  /\ stops' = stops + 1
  /\ Forget(c)
  /\ UNCHANGED <<durable, position, rebalances>>

\* A new process of the deployment joins the group and fetches the committed
\* offsets of its partitions.
Restart(c) ==
  /\ pc[c] = "down"
  /\ Goto(c, "top")
  /\ position' = [position EXCEPT ![c] = committed]
  /\ UNCHANGED <<durable, draining, polled, work, budget>>

\* A rebalance gives p to c, inside c's call of consumer.poll(), and c reads
\* on from the committed offset.  The loop has no rebalance listener: neither
\* the batch nor the offset maps of c or of the former owner change.
Assign(c, p) ==
  /\ pc[c] = "poll" /\ polled[c] = 0
  /\ rebalances < MaxRebalances
  /\ rebalances' = rebalances + 1
  /\ owner' = [owner EXCEPT ![p] = c]
  /\ position' = [position EXCEPT ![c][p] = committed[p]]
  /\ UNCHANGED <<committed, stored, merged, fileDlq, pc, draining, polled,
                 work, stops>>

-----------------------------------------------------------------------------
Flush(c) ==
  Quarantine(c) \/ Ingested(c) \/ IngestRaised(c) \/ Commit(c) \/ CommitRaised(c)

Housekeeping(c) ==
  \/ Evacuate(c) \/ EvacuationCommit(c)
  \/ StaleCommit(c) \/ StaleCommitRaised(c) \/ NothingStale(c) \/ NoPanic(c)

Next ==
  \E c \in Consumers :
    \/ StartPoll(c) \/ FlushDue(c) \/ NotDue(c)
    \/ \E p \in Partitions : Receive(c, p)
    \/ Flush(c)
    \/ Housekeeping(c)
    \/ Stop(c) \/ Exit(c) \/ Crash(c) \/ Restart(c)
    \/ \E p \in Partitions : Assign(c, p)

Spec == Init /\ [][Next]_vars

\* A live process keeps executing its loop and a dead one is restarted by its
\* Deployment; available records are delivered, and a batch does not wait for
\* its five seconds forever.  Nothing here makes the API or a commit succeed.
Fairness ==
  \A c \in Consumers :
    /\ WF_vars(StartPoll(c) \/ NotDue(c))
    /\ WF_vars(Flush(c))
    /\ WF_vars(Housekeeping(c))
    /\ WF_vars(Exit(c) \/ Restart(c))
    /\ SF_vars(FlushDue(c))
    /\ \A p \in Partitions : SF_vars(Receive(c, p))

FairSpec == Spec /\ Fairness

\* The broker is not away forever: a commit that is attempted again and again
\* succeeds at last.
BrokerFairness ==
  \A c \in Consumers : SF_vars(Commit(c)) /\ SF_vars(StaleCommit(c))

-----------------------------------------------------------------------------
Labels == {"down", "top", "poll", "flush", "ingest", "commit", "evacuate",
           "evacuated", "stale", "panic", "panicked", "exit"}

OffsetMaps == [Partitions -> Nat \cup {None}]

\* Every variable has its type; a position and a committed offset stay within
\* the partition's log.
TypeOK ==
  /\ committed \in [Partitions -> Nat]
  /\ owner \in [Partitions -> Consumers]
  /\ stored \subseteq Messages
  /\ merged \subseteq Messages
  /\ fileDlq \subseteq Messages
  /\ pc \in [Consumers -> Labels]
  /\ draining \in [Consumers -> BOOLEAN]
  /\ position \in [Consumers -> [Partitions -> Nat]]
  /\ polled \in [Consumers -> 0 .. MaxPollRecords]
  /\ batch \in [Consumers -> Seq(Messages)]
  /\ processed \in [Consumers -> OffsetMaps]
  /\ observed \in [Consumers -> OffsetMaps]
  /\ lastCommitted \in [Consumers -> OffsetMaps]
  /\ failures \in [Consumers -> 0 .. MaxFailures]
  /\ stops \in 0 .. MaxStops
  /\ rebalances \in 0 .. MaxRebalances

\* A message is secured when Postgres took it, the DLQ file holds it, or a
\* later one with its alert id stood in for it.
Secured == stored \cup merged \cup fileDlq

\* The messages the sink owes somebody: all but the bad ones, which it skips
Owed == {m \in Messages : Kind(m) # "bad"}

\* No message the sink can read is ever lost: whatever crashes, rebalances,
\* lost answers and failed commits happen, an offset is committed only past
\* messages that are secured (run_sink, process_batch).
NoLoss == \A m \in Owed : m[2] < committed[m[1]] => m \in Secured

\* What the next commit of a process will acknowledge is secured already:
\* by process_batch and the evacuation (processed), and, while nothing is
\* retained, by the stale-offset commit (observed).
NothingPrematurelyAcked ==
  \A c \in Consumers : \A m \in Owed :
    /\ m[2] < processed[c][m[1]] => m \in Secured
    /\ m[2] < observed[c][m[1]] => m \in Secured \cup Items(batch[c])

\* Where the batch of a process stands.  Its messages are owed and were
\* observed; a refused item is in the DLQ before the POST, and all of them are
\* secured before their offsets are committed or the batch is forgotten.
BatchHandled ==
  \A c \in Consumers :
    /\ \A m \in Items(batch[c]) : m \in Owed /\ m[2] < observed[c][m[1]]
    /\ pc[c] = "ingest" => Invalid(batch[c]) \subseteq Secured
    /\ pc[c] \in {"commit", "evacuated", "panicked"}
         => Items(batch[c]) \subseteq Secured

\* A running process reads on only past what is secured or in its batch.
NothingSkipped ==
  \A c \in Consumers : \A m \in Owed :
    pc[c] # "down" /\ m[2] < position[c][m[1]]
      => m \in Secured \cup Items(batch[c])

\* The failure count is below the threshold except on the way through an
\* evacuation, which resets it; a process that is down has no memory.
ControlConsistent ==
  \A c \in Consumers :
    /\ pc[c] \notin {"evacuate", "evacuated"} => failures[c] < MaxFailures
    /\ pc[c] = "down" => batch[c] = <<>>

\* The inductive invariant behind NoLoss
SinkInv ==
  /\ TypeOK /\ NoLoss /\ NothingPrematurelyAcked
  /\ BatchHandled /\ NothingSkipped /\ ControlConsistent

\* De-duplication inside a batch never drops the last word on an alert: for a
\* message that was left out, another valid message with its alert id is in
\* Postgres or in the DLQ (by_aid in process_batch).
MergedIsRepresented ==
  \A m \in merged : \E n \in stored \cup fileDlq :
    Kind(n) = "valid" /\ Aid(n) = Aid(m)

\* No batch goes to the DLQ file before a flush of it has failed: a batch that
\* reaches the panic size was offered to the API in the same pass of the loop.
EvacuationFollowsFailure ==
  \A c \in Consumers :
    pc[c] \in {"evacuate", "evacuated", "panicked"} => failures[c] > 0

\* Flow control: what a process retains is bounded by one batch and one poll,
\* and the loop never comes round with a batch of the panic size.
RetentionBounded ==
  \A c \in Consumers :
    /\ Len(batch[c]) < MaxBatchSize + MaxPollRecords
    /\ pc[c] = "top" => Len(batch[c]) < PanicBatchSize

\* Memory stays bounded by evacuation, and evacuation is the last resort.
EvacuationJustified == EvacuationFollowsFailure /\ RetentionBounded

\* The sink implements at-least-once delivery.
Delivery == INSTANCE AlertDelivery WITH secure <- Secured, acked <- committed
ImplementsDelivery == Delivery!Spec

\* Every owed message is secured in the end, even if every POST and every
\* commit fails from some time on: that is what the evacuation is for.
EventuallySecured == \A m \in Owed : <>(m \in Secured)

\* With a broker that answers at last, the group's offsets reach the end of
\* every partition and stay there, bad messages notwithstanding.  (After a
\* rebalance a former owner may commit once more and take them back; they
\* then stay behind until the next message.)
EventuallyAcked ==
  BrokerFairness /\ [](rebalances = 0) =>
    \A p \in Partitions : <>[](committed[p] = Len(Log[p]))
=============================================================================
