----------------------------- MODULE AlertEmitter -----------------------------
(***************************************************************************)
(* What the stream processor does with a detection                         *)
(* (inference/stream_processor_faust.py, process_traffic from its step 4   *)
(* on, and _send_dlq_safely): publish the alert, correlate it in Redis on  *)
(* an I/O thread, publish the incident if there is one, compensate and     *)
(* dead-letter when a step fails or takes too long.                        *)
(*                                                                         *)
(* Each alert has its own coroutine, so detections of one event overlap    *)
(* here as those of different events do (concurrency=16).  The thread that *)
(* runs add_alert goes on when its coroutine has stopped waiting for it.   *)
(* Correlator gives the keys in Redis and the scripts.                     *)
(***************************************************************************)
EXTENDS Correlator

CONSTANTS
  RedisMayFail,  \* whether Redis may be away, lose a reply or be no master
  DiskMayFail,   \* whether the local dead-letter file may refuse a line
  MaxCrashes     \* bound: worker crashes in a behaviour

ASSUME EmitterAssumption ==
  /\ RedisMayFail \in BOOLEAN /\ DiskMayFail \in BOOLEAN
  /\ MaxCrashes \in Nat

VARIABLES
  topic,      \* alerts in security_alerts
  incidents,  \* incidents in their topic: who raised it, on what evidence
  dlq,        \* alerts in dead_letter_events or the local file
  unsettled,  \* sends that were given up: the producer may still deliver them
  step,       \* step[a]: where the coroutine of a is
  thread,     \* thread[a]: the thread running add_alert(a)
  answer,     \* answer[a]: the evidence of the incident it returned, or {}
  undos,      \* undos[a]: rollbacks still to be made
  crashes

emitter == <<topic, incidents, dlq, unsettled, step, thread, answer, undos,
             crashes>>
allVars == <<vars, emitter>>

Steps == {"new", "publish", "correlate", "report", "undo", "deadletter",
          "done", "crashed"}
Threads == {"idle", "queued", "running", "resending", "returned", "raised"}

AlertMsg(a) == [kind |-> "alert", by |-> a, evidence |-> {a}]
IncidentMsg(a) == [kind |-> "incident", by |-> a, evidence |-> answer[a]]

EmitterInit ==
  /\ Init
  /\ topic = {} /\ incidents = {} /\ dlq = {} /\ unsettled = {}
  /\ step = [a \in Alerts |-> "new"]
  /\ thread = [a \in Alerts |-> "idle"]
  /\ answer = [a \in Alerts |-> {}]
  /\ undos = [a \in Alerts |-> 0]
  /\ crashes = 0

At(a, from, to) == step[a] = from /\ step' = [step EXCEPT ![a] = to]

Runs(a, from, to) == thread[a] \in from /\ thread' = [thread EXCEPT ![a] = to]

-----------------------------------------------------------------------------
(* The coroutine *)

\* Enrichment and the schema gate
Validate(a) ==
  /\ At(a, "new", "publish") \/ At(a, "new", "deadletter")
  /\ UNCHANGED <<vars, topic, incidents, dlq, unsettled, thread, answer,
                 undos, crashes>>

\* Fault: the send returns before the message is sent (force=False).
PublishedLater(a) ==
  /\ At(a, "publish", "correlate")
  /\ Runs(a, {"idle"}, "queued")
  /\ UNCHANGED <<vars, topic, incidents, dlq, unsettled, answer, undos,
                 crashes>>

\* The alert is in the topic; add_alert is submitted to io_executor.
Published(a) ==
  /\ At(a, "publish", "correlate")
  /\ topic' = topic \cup {a}
  /\ Runs(a, {"idle"}, "queued")
  /\ UNCHANGED <<vars, incidents, dlq, unsettled, answer, undos, crashes>>

\* Fault: an alert whose publish failed is correlated all the same.
CorrelateUnpublished(a) ==
  /\ At(a, "publish", "correlate")
  /\ Runs(a, {"idle"}, "queued")
  /\ UNCHANGED <<vars, topic, incidents, dlq, unsettled, answer, undos,
                 crashes>>

\* The publish failed or took three seconds; it may yet take effect.
PublishFailed(a) ==
  /\ At(a, "publish", "deadletter")
  /\ \/ unsettled' = unsettled \cup {AlertMsg(a)}
     \/ UNCHANGED unsettled
  /\ UNCHANGED <<vars, topic, incidents, dlq, thread, answer, undos, crashes>>

\* add_alert came back in time.
Answered(a) ==
  /\ thread[a] = "returned"
  /\ IF answer[a] = {} THEN At(a, "correlate", "done")
                       ELSE At(a, "correlate", "report")
  /\ UNCHANGED <<vars, topic, incidents, dlq, unsettled, thread, answer,
                 undos, crashes>>

\* redis.RedisError: dead-lettered without a rollback
CorrelationRaised(a) ==
  /\ thread[a] = "raised"
  /\ At(a, "correlate", "deadletter")
  /\ UNCHANGED <<vars, topic, incidents, dlq, unsettled, thread, answer,
                 undos, crashes>>

\* Fault: a call that runs is waited for.
TimedOutInQueue(a) ==
  /\ At(a, "correlate", "undo")
  /\ Runs(a, {"queued"}, "idle")
  /\ undos' = [undos EXCEPT ![a] = 1]
  /\ UNCHANGED <<vars, topic, incidents, dlq, unsettled, answer, crashes>>

\* Five seconds are over: a call still in the queue is cancelled, one that
\* runs cannot be.  Either way the alert is rolled back; the client may send
\* the script twice.
CorrelationTimedOut(a) ==
  /\ At(a, "correlate", "undo")
  /\ \/ Runs(a, {"queued"}, "idle")
     \/ thread[a] \in {"running", "resending"} /\ UNCHANGED thread
  /\ undos' \in {[undos EXCEPT ![a] = n] : n \in 1 .. 2}
  /\ UNCHANGED <<vars, topic, incidents, dlq, unsettled, answer, crashes>>

Reported(a) ==
  /\ At(a, "report", "done")
  /\ incidents' = incidents \cup {IncidentMsg(a)}
  /\ UNCHANGED <<vars, topic, dlq, unsettled, thread, answer, undos, crashes>>

\* Fault: a failed incident send is only logged.
ReportForgotten(a) ==
  /\ At(a, "report", "done")
  /\ UNCHANGED <<vars, topic, incidents, dlq, unsettled, thread, answer,
                 undos, crashes>>

\* The incident send failed or took three seconds.  The alert is rolled back,
\* twice after a timeout: the error is raised again and caught as one.
ReportFailed(a) ==
  /\ At(a, "report", "undo")
  /\ undos' \in {[undos EXCEPT ![a] = n] : n \in 1 .. 2}
  /\ \/ unsettled' = unsettled \cup {IncidentMsg(a)}
     \/ UNCHANGED unsettled
  /\ UNCHANGED <<vars, topic, incidents, dlq, thread, answer, crashes>>

\* Fault: the rollback only forgets that the alert was seen.
UndoSeenOnly(a) ==
  /\ step[a] = "undo"
  /\ score' = [score EXCEPT ![a] = Absent]
  /\ UNCHANGED <<list, count, maxSev, seenTtl, listTtl, countTtl, sevTtl, runs,
                 age, outcome>>
  /\ undos' = [undos EXCEPT ![a] = @ - 1]
  /\ step' = IF undos[a] > 1 THEN step
             ELSE [step EXCEPT ![a] = "deadletter"]
  /\ UNCHANGED <<topic, incidents, dlq, unsettled, thread, answer, crashes>>

\* Fault: one rollback too many.
UndoOnceMore(a) ==
  /\ step[a] = "undo"
  /\ Rollback(a) \/ (RedisMayFail /\ UNCHANGED vars)
  /\ undos' = [undos EXCEPT ![a] = @ - 1]
  /\ step' = IF undos[a] > 0 THEN step
             ELSE [step EXCEPT ![a] = "deadletter"]
  /\ UNCHANGED <<topic, incidents, dlq, unsettled, thread, answer, crashes>>

\* rollback_alert_seen, whose errors are only logged
Undo(a) ==
  /\ step[a] = "undo"
  /\ Rollback(a) \/ (RedisMayFail /\ UNCHANGED vars)
  /\ undos' = [undos EXCEPT ![a] = @ - 1]
  /\ step' = IF undos[a] > 1 THEN step
             ELSE [step EXCEPT ![a] = "deadletter"]
  /\ UNCHANGED <<topic, incidents, dlq, unsettled, thread, answer, crashes>>

\* Fault: no local file when the dead-letter topic cannot be reached.
DeadLetterTopicOnly(a) ==
  /\ At(a, "deadletter", "done")
  /\ dlq' = dlq \cup {a} \/ UNCHANGED dlq
  /\ UNCHANGED <<vars, topic, incidents, unsettled, thread, answer, undos,
                 crashes>>

\* _send_dlq_safely: the topic, or else the local file
DeadLetter(a) ==
  /\ At(a, "deadletter", "done")
  /\ \/ dlq' = dlq \cup {a}
     \/ DiskMayFail /\ UNCHANGED dlq
  /\ UNCHANGED <<vars, topic, incidents, unsettled, thread, answer, undos,
                 crashes>>

-----------------------------------------------------------------------------
(* The thread *)

Start(a) ==
  /\ Runs(a, {"queued"}, "running")
  /\ UNCHANGED <<vars, topic, incidents, dlq, unsettled, step, answer, undos,
                 crashes>>

\* check_redis_master says no: None
Skipped(a) ==
  /\ RedisMayFail
  /\ Runs(a, {"running"}, "returned")
  /\ UNCHANGED <<vars, topic, incidents, dlq, unsettled, step, answer, undos,
                 crashes>>

\* The script runs and its reply arrives.
Executed(a) ==
  /\ Runs(a, {"running", "resending"}, "returned")
  /\ \/ /\ Correlate(a)
        /\ answer' = [answer EXCEPT ![a] =
                        IF Incident(a) THEN Range(ListWith(a)) ELSE {}]
     \/ Duplicate(a) /\ UNCHANGED answer
  /\ UNCHANGED <<topic, incidents, dlq, unsettled, step, undos, crashes>>

\* The script runs and its reply is lost.  The client sends it once more
\* (retry_on_timeout) and then raises.
ReplyLost(a) ==
  /\ RedisMayFail
  /\ Runs(a, {"running", "resending"},
          IF thread[a] = "running" THEN "resending" ELSE "raised")
  /\ Correlate(a) \/ Duplicate(a)
  /\ UNCHANGED <<topic, incidents, dlq, unsettled, step, answer, undos,
                 crashes>>

\* Redis is not reached.
RedisDown(a) ==
  /\ RedisMayFail
  /\ Runs(a, {"running", "resending"}, "raised")
  /\ UNCHANGED <<vars, topic, incidents, dlq, unsettled, step, answer, undos,
                 crashes>>

-----------------------------------------------------------------------------
\* The producer delivers a message whose sender has given up.
LateDelivery ==
  /\ \E m \in unsettled :
       /\ unsettled' = unsettled \ {m}
       /\ IF m.kind = "alert"
          THEN topic' = topic \cup {m.by} /\ UNCHANGED incidents
          ELSE incidents' = incidents \cup {m} /\ UNCHANGED topic
  /\ UNCHANGED <<vars, dlq, step, thread, answer, undos, crashes>>

\* The worker dies.  Faust hands the event to the next one, whose detections
\* get new alert ids: they are further members of Alerts.
CrashWorker ==
  /\ crashes < MaxCrashes
  /\ crashes' = crashes + 1
  /\ step' = [a \in Alerts |-> IF step[a] \in {"new", "done"} THEN step[a]
                               ELSE "crashed"]
  /\ thread' = [a \in Alerts |-> "idle"]
  /\ UNCHANGED <<vars, topic, incidents, dlq, unsettled, answer, undos>>

WindowTick == Tick /\ UNCHANGED emitter

Coroutine(a) ==
  \/ Validate(a) \/ Published(a) \/ PublishFailed(a)
  \/ Answered(a) \/ CorrelationRaised(a) \/ CorrelationTimedOut(a)
  \/ Reported(a) \/ ReportFailed(a) \/ Undo(a) \/ DeadLetter(a)

Thread(a) ==
  Start(a) \/ Skipped(a) \/ Executed(a) \/ ReplyLost(a) \/ RedisDown(a)

EmitterNext ==
  \/ \E a \in Alerts : Coroutine(a) \/ Thread(a)
  \/ LateDelivery \/ CrashWorker \/ WindowTick

EmitterSpec == EmitterInit /\ [][EmitterNext]_allVars

\* The event loop runs every coroutine that can go on; every wait for a
\* thread has a timeout.  No thread and no send need ever succeed.
FairEmitterSpec ==
  EmitterSpec /\ \A a \in Alerts : WF_allVars(Coroutine(a))

-----------------------------------------------------------------------------
Message ==
  [kind : {"alert", "incident"}, by : Alerts, evidence : SUBSET Alerts]

EmitterTypeOK ==
  /\ topic \subseteq Alerts /\ dlq \subseteq Alerts
  /\ incidents \subseteq Message /\ unsettled \subseteq Message
  /\ step \in [Alerts -> Steps]
  /\ thread \in [Alerts -> Threads]
  /\ answer \in [Alerts -> SUBSET Alerts]
  /\ undos \in [Alerts -> 0 .. 2]
  /\ crashes \in 0 .. MaxCrashes

\* "Only mutate Redis correlation state after the write is durably persisted
\* in the broker" (stream_processor_faust.py:485): what Redis knows, and what
\* any incident rests on, can be read in the alerts topic.
CorrelatedIsPublished ==
  /\ Seen \cup Evidence \subseteq topic
  /\ \A i \in incidents : i.evidence \subseteq topic

\* No detection is dropped: one whose coroutine has ended is in the alerts
\* topic or dead-lettered.
NothingDropped == \A a \in Alerts : step[a] = "done" => a \in topic \cup dlq

\* An incident that was built is published, or its alert is dead-lettered, or
\* its coroutine is still at it; only a crash of the worker leaves it at that.
IncidentAccountedFor ==
  \A a \in Alerts : thread[a] = "returned" /\ answer[a] # {} /\ step[a] = "done"
    => IncidentMsg(a) \in incidents \/ a \in dlq

\* The coroutines and threads use Redis only through the atomic scripts: the
\* emitter implements Correlator, and all that holds of it holds here.
UsesScripts == Spec

\* Every detection is dealt with in the end, whatever fails.
EverySettled ==
  \A a \in Alerts : (step[a] # "new") ~> (step[a] \in {"done", "crashed"})
=============================================================================
