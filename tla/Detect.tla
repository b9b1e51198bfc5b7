------------------------------- MODULE Detect -------------------------------
(***************************************************************************)
(* How the stream processor comes to its detections: the agent             *)
(* process_traffic of inference/stream_processor_faust.py up to the loop   *)
(* that emits them (AlertEmitter).                                         *)
(*                                                                         *)
(* Every member of Coroutines is one instance of the agent; its local      *)
(* variables live as long as its loop over the stream, and so from event   *)
(* to event.  Inference runs on a pool of threads, behind two semaphores   *)
(* and with a deadline; a thread goes on when its coroutine has given up.  *)
(* What a model says of an event is an input.  Of the detections, those    *)
(* that one step leaves for another to read are kept: the verdict of the   *)
(* CNN and the age of a domain.                                            *)
(***************************************************************************)
EXTENDS Integers, Sequences, FiniteSets

CONSTANTS
  Coroutines,     \* instances of the agent (concurrency=16)
  Events,         \* events of raw_traffic
  Kind,           \* Kind[e]: the event_type
  Backpressure,   \* backpressure_sem (8)
  PendingSlots,   \* _infer_pending_sem (8)
  InferSlots,     \* _infer_sem (4)
  CpuThreads      \* max_workers of cpu_executor (4)

Kinds == {"dns", "conn", "other"}
Detectors == {"cnn", "age"}

ASSUME EventAssumption ==
  /\ Kind \in [Events -> Kinds]
  /\ Events # {} /\ IsFiniteSet(Events) /\ IsFiniteSet(Coroutines)

ASSUME PoolAssumption ==
  /\ Backpressure \in Nat \ {0} /\ PendingSlots \in Nat \ {0}
  /\ InferSlots \in Nat \ {0} /\ CpuThreads \in Nat \ {0}

VARIABLES
  pc,       \* where a coroutine is
  event,    \* event[c]: the event it has taken last
  isDga,    \* isDga[c]: its local variable is_dga
  job,      \* job[e]: the inference of e
  queue,    \* work items of cpu_executor, cancelled ones included
  found,    \* found[e]: who has put something on the list detections
  outcome   \* outcome[e]: what became of e

vars == <<pc, event, isDga, job, queue, found, outcome>>

Labels == {"idle", "arrived", "submit", "pending", "inferring", "age",
           "rest"}
Jobs == {"none", "queued", "cancelled", "running", "ended"}
Outcomes == {"waiting", "taken", "skipped", "handled", "lost"}

Admitted == Labels \ {"idle", "arrived"}    \* inside backpressure_sem
Gated == {"pending", "inferring"}           \* inside _infer_pending_sem

At(labels) == {c \in Coroutines : pc[c] \in labels}
In(states) == {e \in Events : job[e] \in states}

\* A semaphore with n slots lets one more coroutine among the labels.
Room(labels, n) == Cardinality(At(labels)) < n

Goto(c, label) == pc' = [pc EXCEPT ![c] = label]

Init ==
  /\ pc = [c \in Coroutines |-> "idle"]
  /\ event = [c \in Coroutines |-> CHOOSE e \in Events : TRUE]
  /\ isDga = [c \in Coroutines |-> "unbound"]
  /\ job = [e \in Events |-> "none"]
  /\ queue = <<>>
  /\ found = [e \in Events |-> {}]
  /\ outcome = [e \in Events |-> "waiting"]

-----------------------------------------------------------------------------
(* Admission, features, rules *)

Take(c, e) ==
  /\ pc[c] = "idle" /\ outcome[e] = "waiting"
  /\ Goto(c, "arrived")
  /\ event' = [event EXCEPT ![c] = e]
  /\ outcome' = [outcome EXCEPT ![e] = "taken"]
  /\ UNCHANGED <<isDga, job, queue, found>>

MayEnter(c) ==
  /\ pc[c] = "arrived"
  /\ Room(Admitted, Backpressure)

\* Feature extraction raises: continue
Skip(c) ==
  /\ MayEnter(c)
  /\ Goto(c, "idle")
  /\ outcome' = [outcome EXCEPT ![event[c]] = "skipped"]
  /\ UNCHANGED <<event, isDga, job, queue, found>>

\* The first step after the rules; a query that is empty or too long is not
\* given to the model.
FirstSteps(e) ==
  CASE Kind[e] = "dns" -> {"submit", "age"}
    [] Kind[e] = "conn" -> {"submit"}
    [] OTHER -> {"rest"}

\* Features and rules, which may raise
Enter(c) ==
  /\ MayEnter(c)
  /\ \E label \in FirstSteps(event[c]) : Goto(c, label)
  /\ UNCHANGED <<event, isDga, job, queue, found, outcome>>

-----------------------------------------------------------------------------
(* Inference *)

AwaitTurn(c) ==
  /\ pc[c] = "submit" /\ Room(Gated, PendingSlots)
  /\ Goto(c, "pending")
  /\ UNCHANGED <<event, isDga, job, queue, found, outcome>>

\* Fault: the second semaphore is missing.
SubmitUngated(c) ==
  /\ pc[c] = "pending"
  /\ Goto(c, "inferring")
  /\ job' = [job EXCEPT ![event[c]] = "queued"]
  /\ queue' = Append(queue, event[c])
  /\ UNCHANGED <<event, isDga, found, outcome>>

Submit(c) ==
  /\ pc[c] = "pending" /\ Room({"inferring"}, InferSlots)
  /\ Goto(c, "inferring")
  /\ job' = [job EXCEPT ![event[c]] = "queued"]
  /\ queue' = Append(queue, event[c])
  /\ UNCHANGED <<event, isDga, found, outcome>>

\* A free thread takes the next work item, and drops it if it was cancelled.
PickUp ==
  /\ queue # <<>> /\ Cardinality(In({"running"})) < CpuThreads
  /\ queue' = Tail(queue)
  /\ job' = [job EXCEPT ![Head(queue)] = IF @ = "queued" THEN "running" ELSE @]
  /\ UNCHANGED <<pc, event, isDga, found, outcome>>

End(e) ==
  /\ job[e] = "running"
  /\ job' = [job EXCEPT ![e] = "ended"]
  /\ UNCHANGED <<pc, event, isDga, queue, found, outcome>>

AfterInference(e) == IF Kind[e] = "dns" THEN "age" ELSE "rest"

\* The answer of the CNN, False also for a prediction that failed
CnnVerdict(c) ==
  /\ pc[c] = "inferring" /\ job[event[c]] = "ended"
  /\ Kind[event[c]] = "dns"
  /\ Goto(c, "age")
  /\ \/ /\ isDga' = [isDga EXCEPT ![c] = "yes"]
        /\ found' = [found EXCEPT ![event[c]] = @ \cup {"cnn"}]
     \/ /\ isDga' = [isDga EXCEPT ![c] = "no"]
        /\ UNCHANGED found
  /\ UNCHANGED <<event, job, queue, outcome>>

FlowVerdict(c) ==
  /\ pc[c] = "inferring" /\ job[event[c]] = "ended"
  /\ Kind[event[c]] = "conn"
  /\ Goto(c, "rest")
  /\ UNCHANGED <<event, isDga, job, queue, found, outcome>>

\* Fault: a work item that timed out is not cancelled.
TimedOutOnly(c) ==
  /\ pc[c] = "inferring" /\ job[event[c]] \in {"queued", "running"}
  /\ Goto(c, AfterInference(event[c]))
  /\ UNCHANGED <<event, isDga, job, queue, found, outcome>>

\* Fault: a call that runs is waited for.
TimedOutInQueue(c) ==
  /\ pc[c] = "inferring" /\ job[event[c]] = "queued"
  /\ Goto(c, AfterInference(event[c]))
  /\ job' = [job EXCEPT ![event[c]] = "cancelled"]
  /\ UNCHANGED <<event, isDga, queue, found, outcome>>

\* Five seconds are over.  The slots are free again; the work item is
\* cancelled if no thread has it, and keeps its thread otherwise.
TimedOut(c) ==
  /\ pc[c] = "inferring" /\ job[event[c]] \in {"queued", "running"}
  /\ Goto(c, AfterInference(event[c]))
  /\ job' = [job EXCEPT ![event[c]] = IF @ = "queued" THEN "cancelled" ELSE @]
  /\ UNCHANGED <<event, isDga, queue, found, outcome>>

-----------------------------------------------------------------------------
(* Domain age, and the rest *)

\* "if is_dga": the age of the domain is looked up, for at most five seconds
DomainAge(c) ==
  /\ pc[c] = "age" /\ isDga[c] # "unbound"
  /\ Goto(c, "rest")
  /\ \/ /\ isDga[c] = "yes"
        /\ found' = [found EXCEPT ![event[c]] = @ \cup {"age"}]
     \/ UNCHANGED found
  /\ UNCHANGED <<event, isDga, job, queue, outcome>>

\* is_dga has no value: UnboundLocalError ends the coroutine.  Its supervisor
\* starts another one in its place; the stream has moved past the event.
DomainAgeUnbound(c) ==
  /\ pc[c] = "age" /\ isDga[c] = "unbound"
  /\ Goto(c, "idle")
  /\ outcome' = [outcome EXCEPT ![event[c]] = "lost"]
  /\ UNCHANGED <<event, isDga, job, queue, found>>

\* The trackers, on the I/O threads, and the loop over the detections; both
\* log every error.
Rest(c) ==
  /\ pc[c] = "rest"
  /\ Goto(c, "idle")
  /\ outcome' = [outcome EXCEPT ![event[c]] = "handled"]
  /\ UNCHANGED <<event, isDga, job, queue, found>>

-----------------------------------------------------------------------------
\* What the event loop does with a coroutine that has an event
Proceed(c) ==
  \/ Skip(c) \/ Enter(c) \/ AwaitTurn(c) \/ Submit(c)
  \/ CnnVerdict(c) \/ FlowVerdict(c) \/ TimedOut(c)
  \/ DomainAge(c) \/ DomainAgeUnbound(c) \/ Rest(c)

\* The events of an instance run out.
Finished ==
  /\ \A e \in Events : outcome[e] \in {"skipped", "handled", "lost"}
  /\ UNCHANGED vars

Next ==
  \/ \E c \in Coroutines : Proceed(c) \/ \E e \in Events : Take(c, e)
  \/ PickUp \/ \E e \in Events : End(e)
  \/ Finished

Spec == Init /\ [][Next]_vars

\* The event loop is fair to its coroutines and a semaphore to those that
\* wait for it (asyncio's wake up in order).  No thread need ever finish.
FairSpec ==
  /\ Spec
  /\ \A c \in Coroutines : SF_vars(Proceed(c))

-----------------------------------------------------------------------------
TypeOK ==
  /\ pc \in [Coroutines -> Labels]
  /\ event \in [Coroutines -> Events]
  /\ isDga \in [Coroutines -> {"unbound", "yes", "no"}]
  /\ job \in [Events -> Jobs]
  /\ queue \in Seq(Events)
  /\ found \in [Events -> SUBSET Detectors]
  /\ outcome \in [Events -> Outcomes]

\* A work item in the queue has a coroutine that waits for it, or is cancelled.
QueuedIsAwaited ==
  \A e \in In({"queued"}) : \E c \in At({"inferring"}) : event[c] = e

\* No semaphore lets more coroutines in than it has slots.
SlotsRespected ==
  /\ Cardinality(At(Admitted)) <= Backpressure
  /\ Cardinality(At(Gated)) <= PendingSlots
  /\ Cardinality(At({"inferring"})) <= InferSlots
  /\ Cardinality(In({"running"})) <= CpuThreads

\* The invariant that LiveWorkBounded follows from: through timeouts and
\* failures the semaphores keep their count, and no work item is left in the
\* queue for a thread to waste its time on.
DetectInv == TypeOK /\ QueuedIsAwaited /\ SlotsRespected

\* Inference that somebody waits for or a thread works at is bounded, however
\* many calls were given up: a call that times out gives back its slot and
\* leaves nothing behind but a thread (_infer_sem, cpu_executor).
LiveWorkBounded ==
  Cardinality(In({"queued", "running"})) <= CpuThreads + InferSlots

\* Every event that was taken is finished with, even if from some time on no
\* inference thread returns: nobody waits for another coroutine's slot, nor
\* for a thread, for ever.
EveryEventFinished ==
  \A e \in Events :
    outcome[e] = "taken" ~> outcome[e] \in {"skipped", "handled", "lost"}

\* "only for domains the CNN has ALREADY flagged as suspicious (is_dga
\* above)" (stream_processor_faust.py:234): no other domain is looked up.
AgeOnlyForFlagged == \A e \in Events : "age" \in found[e] => "cnn" \in found[e]
=============================================================================
