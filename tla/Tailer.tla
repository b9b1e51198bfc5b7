------------------------------- MODULE Tailer -------------------------------
(***************************************************************************)
(* The sensor of Zeek's logs, ingest/tail_to_redpanda.py: a thread per log *)
(* reads what `tail -F' prints of it and gives the lines to one Kafka      *)
(* producer, whose sends are asynchronous.  The process may be interrupted *)
(* or killed and started again; Zeek goes on writing meanwhile.            *)
(*                                                                         *)
(* A line is the number it has in its log.  The metrics are left out: they *)
(* are printed at the end and decide nothing.                              *)
(***************************************************************************)
EXTENDS Integers, Sequences, FiniteSets

CONSTANTS
  Logs,            \* conn, dns, ssl
  TailLines,       \* lines that tail prints of a file it opens (10)
  MaxLines,        \* bound: lines of a log
  MaxBoots,        \* bound: starts of the process
  MaxSendErrors,   \* bound: sends refused by the producer for lack of room
  MaxLost          \* bound: records given up after their retries

\* An assumption; the module that instantiates this one makes it.
TailerAssumption ==
  /\ TailLines \in Nat /\ MaxLines \in Nat /\ MaxBoots \in Nat
  /\ MaxSendErrors \in Nat /\ MaxLost \in Nat /\ IsFiniteSet(Logs)

\* What process_log makes of a line.  Neither a line of blanks nor one that
\* has no `ts' nor one that is not JSON becomes an event; "large" lines are
\* over max_request_size; "undecodable" ones are no UTF-8.
Kinds == {"blank", "event", "large event", "garbage", "large garbage",
          "undecodable"}

VARIABLES
  file,        \* file[l]: the lines of a log, by kind
  process,     \* "up", "stopping" (in handle_sigint) or "down"
  boots, sendErrors, lost,
  thread,      \* thread[l]
  pos,         \* pos[l]: the next line tail prints
  buffer,      \* records the producer has still to deliver
  delivered,   \* records in the topics
  awaited,     \* history: what was in the buffer when the signal came
  dropped,     \* history: what a stop in good order left in the buffer
  reads,       \* history: reads[l][n], how often line n was read
  hidden,      \* history: lines that some start of tail did not print
  shown        \* history: lines that tail printed because it started

vars == <<file, process, boots, sendErrors, lost, thread, pos, buffer,
          delivered, awaited, dropped, reads, hidden, shown>>

counters == <<boots, sendErrors, lost>>
history == <<awaited, dropped, reads, hidden, shown>>

Lines == 1..MaxLines
Topics == {"raw_traffic", "dead_letter_events"}
Records == [topic : Topics, log : Logs, n : Lines]
ThreadStates == {"none", "starting", "running", "finishing", "ended"}

Init ==
  /\ file = [l \in Logs |-> <<>>]
  /\ process = "down" /\ boots = 0 /\ sendErrors = 0 /\ lost = 0
  /\ thread = [l \in Logs |-> "none"]
  /\ pos = [l \in Logs |-> 1]
  /\ buffer = {} /\ delivered = {}
  /\ awaited = {} /\ dropped = {}
  /\ reads = [l \in Logs |-> [n \in Lines |-> 0]]
  /\ hidden = [l \in Logs |-> {}]
  /\ shown = [l \in Logs |-> {}]

-----------------------------------------------------------------------------
(* The world outside                                                       *)

Write(l, kind) ==
  /\ Len(file[l]) < MaxLines
  /\ file' = [file EXCEPT ![l] = Append(@, kind)]
  /\ UNCHANGED <<process, counters, thread, pos, buffer, delivered, history>>

Deliver(r) ==
  /\ r \in buffer
  /\ buffer' = buffer \ {r}
  /\ delivered' = delivered \cup {r}
  /\ UNCHANGED <<file, process, counters, thread, pos, history>>

\* Five retries are over; nobody looks at the future of the send.
GiveUp(r) ==
  /\ r \in buffer /\ lost < MaxLost
  /\ buffer' = buffer \ {r}
  /\ lost' = lost + 1
  /\ UNCHANGED <<file, process, boots, sendErrors, thread, pos, delivered,
                 history>>

-----------------------------------------------------------------------------
(* Start and stop                                                          *)

\* main
Boot ==
  /\ process = "down" /\ boots < MaxBoots
  /\ process' = "up"
  /\ boots' = boots + 1
  /\ thread' = [l \in Logs |-> "starting"]
  /\ awaited' = {} /\ dropped' = {}
  /\ UNCHANGED <<file, sendErrors, lost, pos, buffer, delivered, reads,
                 hidden, shown>>

LastLines(l) == {n \in 1..Len(file[l]) : n > Len(file[l]) - TailLines}

\* Fault: tail starts at the end of the file.
FirstNew(l) == Len(file[l]) + 1

\* Fault: a file shorter than that is not thought of.
FirstUnclamped(l) == Len(file[l]) + 1 - TailLines

FirstLine(l) == Len(file[l]) + 1 - Cardinality(LastLines(l))

\* tail opens the log: the last lines of it, then what comes
Open(l) ==
  /\ process = "up" /\ thread[l] = "starting"
  /\ thread' = [thread EXCEPT ![l] = "running"]
  /\ pos' = [pos EXCEPT ![l] = FirstLine(l)]
  /\ hidden' = [hidden EXCEPT ![l] = @ \cup (1..Len(file[l]) \ LastLines(l))]
  /\ shown' = [shown EXCEPT ![l] = @ \cup LastLines(l)]
  /\ UNCHANGED <<file, process, counters, buffer, delivered, awaited, dropped,
                 reads>>

\* handle_sigint: `running' is reset; a thread that waits for a line may
\* still take one.
Interrupt ==
  /\ process = "up"
  /\ process' = "stopping"
  /\ thread' = [l \in Logs |-> IF thread[l] = "running" THEN "finishing"
                               ELSE "ended"]
  /\ awaited' = buffer
  /\ UNCHANGED <<file, counters, pos, buffer, delivered, dropped, reads,
                 hidden, shown>>

\* Fault: the handler does not flush.
FlushedAnyway == TRUE

\* flush returns when what was in the buffer is done with
Flushed == awaited \cap buffer = {}

\* sys.exit: the threads are daemons, the buffer goes with the process
Exit ==
  /\ process = "stopping" /\ Flushed
  /\ process' = "down"
  /\ thread' = [l \in Logs |-> "none"]
  /\ buffer' = {}
  /\ dropped' = buffer
  /\ UNCHANGED <<file, counters, pos, delivered, awaited, reads, hidden,
                 shown>>

\* A kill, or a flush that raises after five seconds
Die ==
  /\ process # "down"
  /\ process' = "down"
  /\ thread' = [l \in Logs |-> "none"]
  /\ buffer' = {}
  /\ UNCHANGED <<file, counters, pos, delivered, history>>

-----------------------------------------------------------------------------
(* process_log                                                             *)

Kind(l) == file[l][pos[l]]

Reading(l) == thread[l] \in {"running", "finishing"} /\ pos[l] <= Len(file[l])

\* A thread goes round its loop again while `running'.
Onward(l) == IF thread[l] = "running" THEN "running" ELSE "ended"

Consume(l, state) ==
  /\ thread' = [thread EXCEPT ![l] = state]
  /\ pos' = [pos EXCEPT ![l] = @ + 1]
  /\ reads' = [reads EXCEPT ![l][pos[l]] = @ + 1]
  /\ UNCHANGED <<file, process, boots, lost, delivered, awaited, dropped,
                 hidden, shown>>

Send(l, topic) ==
  /\ buffer' = buffer \cup {[topic |-> topic, log |-> l, n |-> pos[l]]}
  /\ UNCHANGED sendErrors

\* producer.send raises: the record is too large, or no room came in time
SendRaises(large) ==
  /\ IF large THEN UNCHANGED sendErrors
     ELSE sendErrors < MaxSendErrors /\ sendErrors' = sendErrors + 1
  /\ UNCHANGED buffer

SkipBlank(l) ==
  /\ Reading(l) /\ Kind(l) = "blank"
  /\ Consume(l, Onward(l))
  /\ UNCHANGED <<buffer, sendErrors>>

Publish(l) ==
  /\ Reading(l) /\ Kind(l) = "event"
  /\ Consume(l, Onward(l))
  /\ Send(l, "raw_traffic")

\* Fault: a send that raises ends the loop over the log.
AfterReject(l) == "ended"

AfterError(l) == Onward(l)

\* "must not escape the loop"
Reject(l) ==
  /\ Reading(l) /\ Kind(l) \in {"event", "large event"}
  /\ Consume(l, AfterError(l))
  /\ SendRaises(Kind(l) = "large event")

DeadLetter(l) ==
  /\ Reading(l) /\ Kind(l) = "garbage"
  /\ Consume(l, Onward(l))
  /\ Send(l, "dead_letter_events")

\* The handler of the bad line raises itself: the loop is left.
DeadLetterRaises(l) ==
  /\ Reading(l) /\ Kind(l) \in {"garbage", "large garbage"}
  /\ Consume(l, "ended")
  /\ SendRaises(Kind(l) = "large garbage")

\* readline decodes a chunk at a time, so it may raise before the line is due.
DecodingRaises(l) ==
  /\ Reading(l)
  /\ \E n \in pos[l]..Len(file[l]) : file[l][n] = "undecodable"
  /\ thread' = [thread EXCEPT ![l] = "ended"]
  /\ UNCHANGED <<file, process, counters, pos, buffer, delivered, history>>

ProcessLog(l) ==
  \/ SkipBlank(l)
  \/ Publish(l)
  \/ Reject(l)
  \/ DeadLetter(l)
  \/ DeadLetterRaises(l)
  \/ DecodingRaises(l)

Next ==
  \/ \E l \in Logs :
       \/ \E kind \in Kinds : Write(l, kind)
       \/ Open(l)
       \/ ProcessLog(l)
  \/ \E r \in buffer : Deliver(r) \/ GiveUp(r)
  \/ Boot
  \/ Interrupt
  \/ Exit
  \/ Die

Fairness == \A l \in Logs : WF_vars(Open(l)) /\ WF_vars(ProcessLog(l))

Spec == Init /\ [][Next]_vars /\ Fairness

-----------------------------------------------------------------------------
\* Every variable has the values its comment gives it.
TypeOK ==
  /\ file \in [Logs -> UNION {[1..n -> Kinds] : n \in 0..MaxLines}]
  /\ process \in {"up", "stopping", "down"}
  /\ boots \in 0..MaxBoots /\ sendErrors \in 0..MaxSendErrors
  /\ lost \in 0..MaxLost
  /\ thread \in [Logs -> ThreadStates]
  /\ pos \in [Logs -> 1..MaxLines + 1]
  /\ buffer \subseteq Records /\ delivered \subseteq Records
  /\ awaited \subseteq Records /\ dropped \subseteq Records
  /\ reads \in [Logs -> [Lines -> 0..MaxBoots]]
  /\ hidden \in [Logs -> SUBSET Lines] /\ shown \in [Logs -> SUBSET Lines]

\* A restart overlooks lines, and repeats lines, only as far as tail makes
\* it: what a running thread has passed without reading it was further from
\* the end than TailLines when a tail started, and what was read twice was
\* among the last TailLines then.
RestartsBounded ==
  \A l \in Logs :
    /\ thread[l] = "running" =>
         \A n \in 1..pos[l] - 1 : reads[l][n] = 0 => n \in hidden[l]
    /\ \A n \in Lines : reads[l][n] > 1 => n \in shown[l]

\* A stop by SIGINT whose flush ended in time leaves only records behind that
\* a thread handed over after the signal.
StopKeepsWhatWasSent ==
  process = "down" => dropped \cap awaited = {}

\* Only what the sensor cannot read ends the reading of a log
Spoilt(l) ==
  \E n \in 1..Len(file[l]) :
    file[l][n] \in {"garbage", "large garbage", "undecodable"}

\* The thread of a log reads on to its end, whatever events the producer
\* refuses, while the process is up and unless a line was not an event.
BacklogRead ==
  \A l \in Logs :
    (process = "up" /\ ~Spoilt(l)) ~>
      (process # "up" \/ Spoilt(l) \/ pos[l] = Len(file[l]) + 1)
=============================================================================
