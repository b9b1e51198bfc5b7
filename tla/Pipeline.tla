------------------------------- MODULE Pipeline -------------------------------
(***************************************************************************)
(* From a detection to the console: the emitter of AlertEmitter next to    *)
(* the sink, which takes every alert in the topic to Postgres or to its    *)
(* own DLQ file, at its own time and any number of times.  That this is    *)
(* what the sink does is shown of KafkaSink (ImplementsDelivery,           *)
(* EventuallySecured).                                                     *)
(***************************************************************************)
EXTENDS AlertEmitter

VARIABLE
  onRecord   \* alerts in Postgres or in the sink's DLQ file

pipeline == <<allVars, onRecord>>

PipelineInit == EmitterInit /\ onRecord = {}

\* The sink is done with a, whichever of the two became of it; a repetition
\* changes nothing.
Sink(a) ==
  /\ a \in topic
  /\ onRecord' = onRecord \cup {a}
  /\ UNCHANGED allVars

PipelineNext ==
  \/ EmitterNext /\ UNCHANGED onRecord
  \/ \E a \in Alerts : Sink(a)

PipelineSpec ==
  /\ PipelineInit /\ [][PipelineNext]_pipeline
  /\ \A a \in Alerts :
       /\ WF_pipeline(Coroutine(a) /\ UNCHANGED onRecord)
       /\ WF_pipeline(Sink(a))

\* What an analyst can be told about is on record: an alert that an incident
\* rests on ends in Postgres or in the sink's DLQ file.
EvidenceOnRecord ==
  \A a \in Alerts :
    (\E i \in incidents : a \in i.evidence) ~> (a \in onRecord)
=============================================================================
