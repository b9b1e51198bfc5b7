---------------------------- MODULE SensorsProofs -----------------------------
(***************************************************************************)
(* Proofs about Sensors: what a restart of the tailer overlooks and        *)
(* repeats, that the flows of a capture add up to it and keep their        *)
(* direction, and that the verdicts of the rules fit the labels of the     *)
(* simulator and do not get better by what is missing.                     *)
(***************************************************************************)
EXTENDS Sensors, FiniteSetTheorems, SequenceTheorems, TLAPS

-----------------------------------------------------------------------------
(* Each instance has finite sets of its own: they are the same             *)

LEMMA SameFinite ==
  \A set : /\ T!IsFiniteSet(set) <=> IsFiniteSet(set)
           /\ P!IsFiniteSet(set) <=> IsFiniteSet(set)
BY DEF T!IsFiniteSet, P!IsFiniteSet, IsFiniteSet

LEMMA SameCardinality ==
  \A set : /\ T!Cardinality(set) = Cardinality(set)
           /\ P!Cardinality(set) = Cardinality(set)
BY DEF T!Cardinality, P!Cardinality, Cardinality

-----------------------------------------------------------------------------
(* The tailer                                                              *)

\* A line is read at most once for each start of the process, and not beyond
\* the end of its log; who is about to open a log has not read of it yet.
ReadsOK ==
  \A l \in Logs : \A n \in T!Lines :
    /\ reads[l][n] <= boots
    /\ reads[l][n] > 0 => n <= Len(file[l])
    /\ thread[l] = "starting" => reads[l][n] < boots

\* A thread has not read what is ahead of it since it was started; what it has
\* read of that before was shown to it again.
AheadOK ==
  \A l \in Logs : thread[l] \in {"running", "finishing"} =>
    \A n \in T!Lines : n >= pos[l] =>
      reads[l][n] < boots /\ (reads[l][n] > 0 => n \in shown[l])

TailerInv ==
  /\ T!TypeOK /\ ReadsOK /\ AheadOK
  /\ T!RestartsBounded /\ T!StopKeepsWhatWasSent
  /\ process # "down" => dropped = {}

\* The assumption, for the provers
LEMMA TailerConstants ==
  /\ TailLines \in Nat /\ MaxLines \in Nat /\ MaxBoots \in Nat
  /\ MaxSendErrors \in Nat /\ MaxLost \in Nat
<1>1. T!TailerAssumption
  BY SensorsAssumption
<1> QED BY <1>1 DEF T!TailerAssumption

\* A log is a sequence of lines.
LEMMA FileFacts ==
  ASSUME T!TypeOK, NEW l \in Logs
  PROVE  /\ file[l] \in Seq(T!Kinds) /\ Len(file[l]) \in 0..MaxLines
         /\ DOMAIN file[l] = 1..Len(file[l])
<1>0. file[l] \in UNION {[1..m -> T!Kinds] : m \in 0..MaxLines}
  BY DEF T!TypeOK
<1>1. PICK m \in 0..MaxLines : file[l] \in [1..m -> T!Kinds]
  BY <1>0
<1>2. file[l] \in Seq(T!Kinds) /\ Len(file[l]) = m
  BY <1>1, TailerConstants
<1> QED BY <1>1, <1>2

\* What tail prints of a log it opens are its last lines, from FirstLine on.
LEMMA LastLinesFacts ==
  ASSUME T!TypeOK, NEW l \in Logs
  PROVE  /\ T!FirstLine(l) \in 1..Len(file[l]) + 1
         /\ T!LastLines(l) = T!FirstLine(l)..Len(file[l])
<1>1. Len(file[l]) \in Nat /\ TailLines \in Nat
  BY FileFacts, TailerConstants
<1> DEFINE len == Len(file[l])
           first == IF len > TailLines THEN len - TailLines + 1 ELSE 1
<1>2. first \in 1..len + 1 /\ T!LastLines(l) = first..len
  BY <1>1 DEF T!LastLines
<1> HIDE DEF first
<1>3. Cardinality(first..len) = len - first + 1
  <2>1. first \in Int /\ len \in Int /\ first <= len + 1
    BY <1>1, <1>2
  <2>2. Cardinality(first..len) = IF first > len THEN 0 ELSE len - first + 1
    BY <2>1, FS_Interval
  <2> QED BY <2>1, <2>2
<1>4. T!Cardinality(T!LastLines(l)) = len - first + 1
  BY <1>2, <1>3, SameCardinality
<1>5. T!FirstLine(l) = first
  BY <1>1, <1>2, <1>4 DEF T!FirstLine
<1> QED BY <1>2, <1>5

LEMMA TailerInit == T!Init => TailerInv
<1> SUFFICES ASSUME T!Init PROVE TailerInv
  OBVIOUS
<1> USE TailerConstants DEF T!Init
<1>1. file \in [Logs -> UNION {[1..n -> T!Kinds] : n \in 0..MaxLines}]
  <2>1. <<>> \in [1..0 -> T!Kinds] /\ 0 \in 0..MaxLines
    <3>1. <<>> \in Seq(T!Kinds) /\ Len(<<>>) = 0
      BY EmptySeq
    <3>2. <<>> \in [1..Len(<<>>) -> T!Kinds]
      BY <3>1, LenProperties
    <3> QED BY <3>1, <3>2
  <2>2. <<>> \in UNION {[1..n -> T!Kinds] : n \in 0..MaxLines}
    BY <2>1
  <2> QED BY <2>2
<1>2. T!TypeOK
  <2>1. 1 \in 1..MaxLines + 1 /\ 0 \in 0..MaxBoots
    OBVIOUS
  <2>2. pos \in [Logs -> 1..MaxLines + 1]
    BY <2>1
  <2>3. reads \in [Logs -> [T!Lines -> 0..MaxBoots]]
    BY <2>1
  <2>4. thread \in [Logs -> T!ThreadStates]
    BY DEF T!ThreadStates
  <2>5. hidden \in [Logs -> SUBSET T!Lines] /\ shown \in [Logs -> SUBSET T!Lines]
    OBVIOUS
  <2>6. /\ process \in {"up", "stopping", "down"}
        /\ boots \in 0..MaxBoots /\ sendErrors \in 0..MaxSendErrors
        /\ lost \in 0..MaxLost
        /\ buffer \subseteq T!Records /\ delivered \subseteq T!Records
        /\ awaited \subseteq T!Records /\ dropped \subseteq T!Records
    OBVIOUS
  <2> HIDE DEF T!Init
  <2> QED BY <1>1, <2>2, <2>3, <2>4, <2>5, <2>6 DEF T!TypeOK
<1>3. ReadsOK /\ AheadOK
  BY DEF ReadsOK, AheadOK
<1>4. T!RestartsBounded /\ T!StopKeepsWhatWasSent
  BY DEF T!RestartsBounded, T!StopKeepsWhatWasSent
<1> QED BY <1>2, <1>3, <1>4 DEF TailerInv

\* What happens outside of the process, or to its buffer, changes nothing of
\* what was read.
LEMMA WriteKeeps ==
  ASSUME TailerInv, NEW l \in Logs, NEW kind \in T!Kinds, T!Write(l, kind)
  PROVE  TailerInv'
<1> USE TailerConstants DEF TailerInv
<1>1. /\ file[l] \in Seq(T!Kinds) /\ Len(file[l]) \in Nat
      /\ Len(file[l]) + 1 \in 0..MaxLines
  BY FileFacts DEF T!Write
<1>2. PICK longer : longer = Append(file[l], kind)
  OBVIOUS
<1>3. longer \in [1..Len(file[l]) + 1 -> T!Kinds] /\ Len(longer) = Len(file[l]) + 1
  <2>1. longer \in Seq(T!Kinds) /\ Len(longer) = Len(file[l]) + 1
    BY <1>1, <1>2, AppendProperties
  <2> QED BY <2>1, LenProperties
<1>4. file' = [file EXCEPT ![l] = longer]
  BY <1>2 DEF T!Write
<1>5. UNCHANGED <<process, boots, sendErrors, lost, thread, pos, buffer, delivered,
                  awaited, dropped, reads, hidden, shown>>
  BY DEF T!Write, T!counters, T!history
<1>6. T!TypeOK'
  <2>1. longer \in UNION {[1..n -> T!Kinds] : n \in 0..MaxLines}
    BY <1>1, <1>3
  <2>2. file' \in [Logs -> UNION {[1..n -> T!Kinds] : n \in 0..MaxLines}]
    BY <2>1, <1>4 DEF T!TypeOK
  <2> QED BY <2>2, <1>5 DEF T!TypeOK, T!Lines
<1>7. \A m \in Logs : Len(file[m]) \in Nat /\ Len(file'[m]) \in Nat
                      /\ Len(file'[m]) >= Len(file[m])
  <2> TAKE m \in Logs
  <2>1. Len(file[m]) \in Nat
    BY FileFacts
  <2>2. file'[m] = IF m = l THEN longer ELSE file[m]
    BY <1>4 DEF T!TypeOK
  <2> QED BY <2>1, <2>2, <1>1, <1>3
<1>8. ReadsOK'
  BY <1>5, <1>7 DEF ReadsOK, T!Lines
<1>9. AheadOK' /\ T!RestartsBounded' /\ T!StopKeepsWhatWasSent'
  BY <1>5 DEF AheadOK, T!RestartsBounded, T!StopKeepsWhatWasSent
<1> QED BY <1>5, <1>6, <1>8, <1>9

\* Steps that leave the logs and what was read of them alone
LEMMA BufferKeeps ==
  ASSUME TailerInv, T!TypeOK',
         UNCHANGED <<file, boots, thread, pos, reads, hidden, shown>>,
         T!StopKeepsWhatWasSent', process' # "down" => dropped' = {}
  PROVE  TailerInv'
BY DEF TailerInv, ReadsOK, AheadOK, T!RestartsBounded, T!Lines

LEMMA DeliverKeeps ==
  ASSUME TailerInv, NEW r \in buffer, T!Deliver(r) \/ T!GiveUp(r)
  PROVE  TailerInv'
<1>1. UNCHANGED <<file, process, boots, sendErrors, thread, pos, awaited, dropped,
                  reads, hidden, shown>>
  BY DEF T!Deliver, T!GiveUp, T!counters, T!history
<1>2. T!TypeOK'
  <2>1. lost' \in 0..MaxLost /\ buffer' \subseteq T!Records
        /\ delivered' \subseteq T!Records
    BY TailerConstants DEF TailerInv, T!TypeOK, T!Deliver, T!GiveUp, T!counters
  <2> QED BY <1>1, <2>1 DEF TailerInv, T!TypeOK
<1>3. T!StopKeepsWhatWasSent' /\ (process' # "down" => dropped' = {})
  BY <1>1 DEF TailerInv, T!StopKeepsWhatWasSent
<1> QED BY <1>1, <1>2, <1>3, BufferKeeps

LEMMA BootKeeps ==
  ASSUME TailerInv, T!Boot
  PROVE  TailerInv'
<1> USE TailerConstants DEF TailerInv, T!Boot
<1>1. boots \in 0..MaxBoots /\ boots' \in 0..MaxBoots /\ boots' = boots + 1
  BY DEF T!TypeOK
<1>2. T!TypeOK'
  <2>1. thread' \in [Logs -> T!ThreadStates]
    BY DEF T!ThreadStates
  <2> QED BY <1>1, <2>1 DEF T!TypeOK, T!Lines
<1>3. ReadsOK'
  BY <1>1 DEF ReadsOK, T!TypeOK, T!Lines
<1>4. AheadOK' /\ T!RestartsBounded' /\ T!StopKeepsWhatWasSent'
  BY DEF AheadOK, T!RestartsBounded, T!StopKeepsWhatWasSent
<1> QED BY <1>2, <1>3, <1>4

\* A log that is opened: what is not printed is hidden, what was read before
\* and is printed once more is shown.
LEMMA OpenKeeps ==
  ASSUME TailerInv, NEW l \in Logs, T!Open(l)
  PROVE  TailerInv'
<1> USE TailerConstants
<1>1. PICK first : first = T!FirstLine(l)
  OBVIOUS
<1>2. PICK len : len = Len(file[l])
  OBVIOUS
<1>3. len \in 0..MaxLines /\ first \in 1..len + 1 /\ T!LastLines(l) = first..len
  BY <1>1, <1>2, LastLinesFacts, FileFacts DEF TailerInv
<1>4. /\ thread[l] = "starting" /\ thread' = [thread EXCEPT ![l] = "running"]
      /\ pos' = [pos EXCEPT ![l] = first]
      /\ hidden' = [hidden EXCEPT ![l] = @ \cup (1..len \ (first..len))]
      /\ shown' = [shown EXCEPT ![l] = @ \cup (first..len)]
      /\ UNCHANGED <<file, process, boots, sendErrors, lost, buffer, delivered,
                     awaited, dropped, reads>>
  BY <1>1, <1>2, <1>3 DEF T!Open, T!counters
<1>5. T!TypeOK /\ ReadsOK /\ AheadOK /\ T!RestartsBounded
  BY DEF TailerInv
<1>6. T!TypeOK'
  <2>1. thread' \in [Logs -> T!ThreadStates] /\ pos' \in [Logs -> 1..MaxLines + 1]
    BY <1>3, <1>4, <1>5 DEF T!TypeOK, T!ThreadStates
  <2>2. hidden' \in [Logs -> SUBSET T!Lines] /\ shown' \in [Logs -> SUBSET T!Lines]
    <3>1. first..len \subseteq T!Lines /\ 1..len \ (first..len) \subseteq T!Lines
      BY <1>3 DEF T!Lines
    <3> QED BY <3>1, <1>4, <1>5 DEF T!TypeOK
  <2> QED BY <1>4, <1>5, <2>1, <2>2 DEF T!TypeOK, T!Lines
<1>7. \A m \in Logs :
        /\ thread'[m] = IF m = l THEN "running" ELSE thread[m]
        /\ pos'[m] = IF m = l THEN first ELSE pos[m]
        /\ hidden'[m] = IF m = l THEN hidden[m] \cup (1..len \ (first..len)) ELSE hidden[m]
        /\ shown'[m] = IF m = l THEN shown[m] \cup (first..len) ELSE shown[m]
  BY <1>4, <1>5 DEF T!TypeOK
<1>8. ReadsOK'
  BY <1>4, <1>5, <1>7 DEF ReadsOK, T!Lines
<1>9. AheadOK'
  <2> SUFFICES ASSUME NEW m \in Logs, thread'[m] \in {"running", "finishing"},
                      NEW n \in T!Lines, n >= pos'[m]
               PROVE  reads[m][n] < boots /\ (reads[m][n] > 0 => n \in shown'[m])
    BY <1>4 DEF AheadOK, T!Lines
  <2>1. CASE m # l
    BY <2>1, <1>5, <1>7 DEF AheadOK
  <2>2. CASE m = l
    <3>1. reads[m][n] < boots
      BY <2>2, <1>4, <1>5 DEF ReadsOK
    <3>2. n >= first /\ n \in Int /\ (reads[m][n] > 0 => n <= len)
      <4>1. pos'[m] = first
        BY <2>2, <1>7
      <4>2. reads[m][n] > 0 => n <= Len(file[m])
        BY <1>5 DEF ReadsOK
      <4> QED BY <2>2, <4>1, <4>2, <1>2 DEF T!Lines
    <3>3. reads[m][n] > 0 => n \in first..len
      BY <3>2, <1>3
    <3> QED BY <2>2, <3>1, <3>3, <1>7
  <2> QED BY <2>1, <2>2
<1>10. T!RestartsBounded'
  <2>1. ASSUME NEW m \in Logs, thread'[m] = "running", NEW n \in 1..pos'[m] - 1,
               reads[m][n] = 0
        PROVE  n \in hidden'[m]
    <3>1. CASE m # l
      BY <2>1, <3>1, <1>5, <1>7 DEF T!RestartsBounded
    <3>2. CASE m = l
      <4>1. pos'[m] = first /\ hidden'[m] = hidden[m] \cup (1..len \ (first..len))
        BY <3>2, <1>7
      <4>2. n \in 1..len \ (first..len)
        BY <2>1, <4>1, <1>3
      <4> QED BY <4>1, <4>2
    <3> QED BY <3>1, <3>2
  <2>2. ASSUME NEW m \in Logs, NEW n \in T!Lines, reads[m][n] > 1
        PROVE  n \in shown'[m]
    BY <2>2, <1>5, <1>7 DEF T!RestartsBounded
  <2> QED BY <1>4, <2>1, <2>2 DEF T!RestartsBounded, T!Lines
<1>11. T!StopKeepsWhatWasSent' /\ (process' # "down" => dropped' = {})
  BY <1>4 DEF TailerInv, T!StopKeepsWhatWasSent
<1> QED BY <1>6, <1>8, <1>9, <1>10, <1>11 DEF TailerInv

\* A step that ends threads, or lets them finish, and reads nothing
LEMMA EndingKeeps ==
  ASSUME TailerInv, T!TypeOK',
         UNCHANGED <<file, boots, pos, reads, hidden, shown>>,
         \A l \in Logs : thread'[l] \in {"none", "ended"} \/ thread'[l] = thread[l]
                         \/ (thread[l] = "running" /\ thread'[l] = "finishing"),
         T!StopKeepsWhatWasSent', process' # "down" => dropped' = {}
  PROVE  TailerInv'
<1>1. ReadsOK'
  BY DEF TailerInv, ReadsOK, T!Lines
<1>2. AheadOK'
  BY DEF TailerInv, AheadOK, T!Lines
<1>3. T!RestartsBounded'
  BY DEF TailerInv, T!RestartsBounded, T!Lines
<1> QED BY <1>1, <1>2, <1>3 DEF TailerInv

LEMMA InterruptKeeps ==
  ASSUME TailerInv, T!Interrupt
  PROVE  TailerInv'
<1> USE DEF TailerInv, T!Interrupt, T!counters
<1>1. T!TypeOK'
  <2>1. thread' \in [Logs -> T!ThreadStates]
    BY DEF T!ThreadStates
  <2> QED BY <2>1 DEF T!TypeOK, T!Lines
<1>2. \A l \in Logs : thread'[l] = "ended"
                      \/ (thread[l] = "running" /\ thread'[l] = "finishing")
  OBVIOUS
<1>3. T!StopKeepsWhatWasSent' /\ (process' # "down" => dropped' = {})
  BY DEF T!StopKeepsWhatWasSent
<1> QED BY <1>1, <1>2, <1>3, EndingKeeps

\* The stop in good order: what the flush waited for is not in what it left.
LEMMA ExitKeeps ==
  ASSUME TailerInv, T!Exit \/ T!Die
  PROVE  TailerInv'
<1>1. /\ process' = "down" /\ thread' = [l \in Logs |-> "none"] /\ buffer' = {}
      /\ UNCHANGED <<file, boots, sendErrors, lost, pos, delivered, awaited, reads,
                     hidden, shown>>
  BY DEF T!Exit, T!Die, T!counters, T!history
<1>2. dropped' \subseteq T!Records /\ dropped' \cap awaited = {}
  BY DEF T!Exit, T!Die, T!Flushed, T!history, TailerInv, T!TypeOK
<1>3. T!TypeOK'
  <2>1. thread' \in [Logs -> T!ThreadStates]
    BY <1>1 DEF T!ThreadStates
  <2> QED BY <1>1, <1>2, <2>1 DEF TailerInv, T!TypeOK, T!Lines
<1>4. T!StopKeepsWhatWasSent' /\ (process' # "down" => dropped' = {})
  BY <1>1, <1>2 DEF T!StopKeepsWhatWasSent
<1> QED BY <1>1, <1>3, <1>4, EndingKeeps

\* A line is read, whatever becomes of its record.
LEMMA ConsumeKeeps ==
  ASSUME TailerInv, NEW l \in Logs, NEW next \in {"running", "ended"},
         T!Reading(l), T!Consume(l, next),
         next = "running" => thread[l] = "running",
         buffer' \subseteq T!Records, sendErrors' \in 0..MaxSendErrors
  PROVE  TailerInv'
<1> USE TailerConstants
<1>1. T!TypeOK /\ ReadsOK /\ AheadOK /\ T!RestartsBounded
  BY DEF TailerInv
<1>2. PICK p : p = pos[l]
  OBVIOUS
<1>3. p \in T!Lines /\ p <= Len(file[l]) /\ thread[l] \in {"running", "finishing"}
  BY <1>1, <1>2, FileFacts DEF T!Reading, T!TypeOK, T!Lines
<1>4. /\ thread' = [thread EXCEPT ![l] = next]
      /\ pos' = [pos EXCEPT ![l] = p + 1]
      /\ reads' = [reads EXCEPT ![l][p] = @ + 1]
      /\ UNCHANGED <<file, process, boots, lost, delivered, awaited, dropped,
                     hidden, shown>>
  BY <1>1, <1>2 DEF T!Consume, T!TypeOK
<1>5. boots \in 0..MaxBoots /\ reads[l][p] \in Nat /\ reads[l][p] < boots
      /\ (reads[l][p] > 0 => p \in shown[l])
  BY <1>1, <1>2, <1>3 DEF AheadOK, T!TypeOK, T!Lines
<1>6. \A m \in Logs :
        /\ thread'[m] = IF m = l THEN next ELSE thread[m]
        /\ pos'[m] = IF m = l THEN p + 1 ELSE pos[m]
        /\ \A n \in T!Lines :
             reads'[m][n] = IF m = l /\ n = p THEN reads[m][n] + 1 ELSE reads[m][n]
  BY <1>1, <1>3, <1>4 DEF T!TypeOK
<1>7. T!TypeOK'
  <2>1. thread' \in [Logs -> T!ThreadStates]
    BY <1>1, <1>4 DEF T!TypeOK, T!ThreadStates
  <2>2. p + 1 \in 1..MaxLines + 1
    BY <1>3 DEF T!Lines
  <2>3. pos' \in [Logs -> 1..MaxLines + 1]
    BY <1>1, <1>4, <2>2 DEF T!TypeOK
  <2>4. reads' \in [Logs -> [T!Lines -> 0..MaxBoots]]
    <3>1. reads[l][p] + 1 \in 0..MaxBoots
      BY <1>5
    <3>2. [reads[l] EXCEPT ![p] = reads[l][p] + 1] \in [T!Lines -> 0..MaxBoots]
      BY <1>1, <3>1 DEF T!TypeOK
    <3>3. reads' = [reads EXCEPT ![l] = [reads[l] EXCEPT ![p] = reads[l][p] + 1]]
      BY <1>4
    <3> QED BY <1>1, <3>2, <3>3 DEF T!TypeOK
  <2> QED BY <1>1, <1>4, <2>1, <2>3, <2>4 DEF T!TypeOK
<1>8. ReadsOK'
  <2> SUFFICES ASSUME NEW m \in Logs, NEW n \in T!Lines
               PROVE  /\ reads'[m][n] <= boots
                      /\ reads'[m][n] > 0 => n <= Len(file[m])
                      /\ thread'[m] = "starting" => reads'[m][n] < boots
    BY <1>4 DEF ReadsOK, T!Lines
  <2>1. CASE m = l /\ n = p
    BY <2>1, <1>3, <1>5, <1>6
  <2>2. CASE ~(m = l /\ n = p)
    BY <2>2, <1>1, <1>6 DEF ReadsOK
  <2> QED BY <2>1, <2>2
<1>9. AheadOK'
  <2> SUFFICES ASSUME NEW m \in Logs, thread'[m] \in {"running", "finishing"},
                      NEW n \in T!Lines, n >= pos'[m]
               PROVE  reads'[m][n] < boots /\ (reads'[m][n] > 0 => n \in shown[m])
    BY <1>4 DEF AheadOK, T!Lines
  <2>1. n \in Nat /\ p \in Nat
    BY <1>3 DEF T!Lines
  <2>2. CASE m = l
    BY <2>1, <2>2, <1>1, <1>2, <1>3, <1>6 DEF AheadOK
  <2>3. CASE m # l
    BY <2>3, <1>1, <1>6 DEF AheadOK
  <2> QED BY <2>2, <2>3
<1>10. T!RestartsBounded'
  <2>1. ASSUME NEW m \in Logs, thread'[m] = "running", NEW n \in 1..pos'[m] - 1,
               reads'[m][n] = 0
        PROVE  n \in hidden[m]
    <3>1. CASE m # l
      <4>1. n \in 1..pos[m] - 1 /\ thread[m] = "running" /\ n \in T!Lines
        <5>1. pos[m] \in 1..MaxLines + 1 /\ MaxLines \in Nat
          BY <1>1 DEF T!TypeOK
        <5>2. n \in 1..pos[m] - 1 /\ thread[m] = "running"
          BY <2>1, <3>1, <1>6
        <5>. QED BY <5>1, <5>2 DEF T!Lines
      <4> QED BY <2>1, <3>1, <4>1, <1>1, <1>6 DEF T!RestartsBounded
    <3>2. CASE m = l
      <4>1. n \in 1..p /\ thread[m] = "running" /\ n \in T!Lines
        BY <2>1, <3>2, <1>3, <1>6 DEF T!Lines
      <4>2. n # p
        BY <2>1, <3>2, <1>5, <1>6, <4>1
      <4>3. n \in 1..pos[m] - 1 /\ reads[m][n] = 0
        BY <2>1, <3>2, <4>1, <4>2, <1>2, <1>3, <1>6 DEF T!Lines
      <4> QED BY <4>1, <4>3, <1>1 DEF T!RestartsBounded
    <3> QED BY <3>1, <3>2
  <2>2. ASSUME NEW m \in Logs, NEW n \in T!Lines, reads'[m][n] > 1
        PROVE  n \in shown[m]
    <3>1. CASE m = l /\ n = p
      BY <2>2, <3>1, <1>5, <1>6
    <3>2. CASE ~(m = l /\ n = p)
      BY <2>2, <3>2, <1>1, <1>6 DEF T!RestartsBounded
    <3> QED BY <3>1, <3>2
  <2> QED BY <1>4, <2>1, <2>2 DEF T!RestartsBounded, T!Lines
<1>11. T!StopKeepsWhatWasSent' /\ (process' # "down" => dropped' = {})
  BY <1>4 DEF TailerInv, T!StopKeepsWhatWasSent
<1> QED BY <1>7, <1>8, <1>9, <1>10, <1>11 DEF TailerInv

LEMMA ProcessLogKeeps ==
  ASSUME TailerInv, NEW l \in Logs, T!ProcessLog(l)
  PROVE  TailerInv'
<1> USE TailerConstants
<1>1. pos[l] \in Nat /\ sendErrors \in 0..MaxSendErrors /\ buffer \subseteq T!Records
  BY DEF TailerInv, T!TypeOK
<1>2. CASE T!DecodingRaises(l)
  <2>1. /\ thread' = [thread EXCEPT ![l] = "ended"]
        /\ UNCHANGED <<file, process, boots, sendErrors, lost, pos, buffer, delivered,
                       awaited, dropped, reads, hidden, shown>>
    BY <1>2 DEF T!DecodingRaises, T!counters, T!history
  <2>2. T!TypeOK'
    <3>1. thread' \in [Logs -> T!ThreadStates]
      BY <2>1 DEF TailerInv, T!TypeOK, T!ThreadStates
    <3> QED BY <2>1, <3>1 DEF TailerInv, T!TypeOK, T!Lines
  <2>3. \A m \in Logs : thread'[m] = "ended" \/ thread'[m] = thread[m]
    BY <2>1 DEF TailerInv, T!TypeOK
  <2>4. T!StopKeepsWhatWasSent' /\ (process' # "down" => dropped' = {})
    BY <2>1 DEF TailerInv, T!StopKeepsWhatWasSent
  <2> QED BY <2>1, <2>2, <2>3, <2>4, EndingKeeps
<1>3. CASE ~T!DecodingRaises(l)
  <2>1. T!Reading(l)
    BY <1>3 DEF T!ProcessLog, T!SkipBlank, T!Publish, T!Reject, T!DeadLetter,
                T!DeadLetterRaises
  <2>2. PICK next \in {"running", "ended"} :
          T!Consume(l, next) /\ (next = "running" => thread[l] = "running")
    BY <1>3 DEF T!ProcessLog, T!SkipBlank, T!Publish, T!Reject, T!DeadLetter,
                T!DeadLetterRaises, T!Onward, T!AfterError
  <2>3. pos[l] \in T!Lines
    BY <1>1, <2>1, FileFacts DEF T!Reading, TailerInv, T!TypeOK, T!Lines
  <2>4. \/ buffer' = buffer
        \/ \E topic \in T!Topics :
             buffer' = buffer \cup {[topic |-> topic, log |-> l, n |-> pos[l]]}
    BY <1>3 DEF T!ProcessLog, T!SkipBlank, T!Publish, T!Reject, T!DeadLetter,
                T!DeadLetterRaises, T!Send, T!SendRaises, T!Topics
  <2>5. buffer' \subseteq T!Records
    BY <1>1, <2>3, <2>4 DEF T!Records
  <2>6. sendErrors' \in 0..MaxSendErrors
    <3>1. sendErrors' = sendErrors
          \/ (sendErrors < MaxSendErrors /\ sendErrors' = sendErrors + 1)
      BY <1>3 DEF T!ProcessLog, T!SkipBlank, T!Publish, T!Reject, T!DeadLetter,
                  T!DeadLetterRaises, T!Send, T!SendRaises
    <3> QED BY <1>1, <3>1
  <2> QED BY <2>1, <2>2, <2>5, <2>6, ConsumeKeeps
<1> QED BY <1>2, <1>3

LEMMA TailerStutters ==
  ASSUME TailerInv, UNCHANGED tailer
  PROVE  TailerInv'
<1>1. UNCHANGED <<file, process, boots, sendErrors, lost, thread, pos, buffer, delivered,
                  awaited, dropped, reads, hidden, shown>>
  BY DEF tailer
<1>2. T!TypeOK' /\ T!StopKeepsWhatWasSent' /\ (process' # "down" => dropped' = {})
  BY <1>1 DEF TailerInv, T!TypeOK, T!Lines, T!StopKeepsWhatWasSent
<1> QED BY <1>1, <1>2, BufferKeeps

LEMMA TailerStep ==
  ASSUME TailerInv, T!Next
  PROVE  TailerInv'
<1>1. ASSUME NEW l \in Logs, NEW kind \in T!Kinds, T!Write(l, kind)
      PROVE  TailerInv'
  BY <1>1, WriteKeeps
<1>2. ASSUME NEW l \in Logs, T!Open(l) PROVE TailerInv'
  BY <1>2, OpenKeeps
<1>3. ASSUME NEW l \in Logs, T!ProcessLog(l) PROVE TailerInv'
  BY <1>3, ProcessLogKeeps
<1>4. ASSUME NEW r \in buffer, T!Deliver(r) \/ T!GiveUp(r) PROVE TailerInv'
  BY <1>4, DeliverKeeps
<1>5. CASE T!Boot
  BY <1>5, BootKeeps
<1>6. CASE T!Interrupt
  BY <1>6, InterruptKeeps
<1>7. CASE T!Exit \/ T!Die
  BY <1>7, ExitKeeps
<1> QED BY <1>1, <1>2, <1>3, <1>4, <1>5, <1>6, <1>7 DEF T!Next

-----------------------------------------------------------------------------
(* The captures                                                            *)

\* What is counted of q in a table of flows
Counted(f, q) == IF q \in DOMAIN f THEN P!Total(f[q]) ELSE 0

\* Packets of a flow, and packets with a direction, are packets.
CountsBounded ==
  /\ \A q \in DOMAIN flows : P!Total(flows[q]) <= count
  /\ \A q \in P!Keys : seen[q] <= count

\* The payloads of a flow grow, but for those that follow its last words
Grows(s) ==
  \A n \in DOMAIN s : (n > 1 /\ ~s[n - 1].last) =>
    s[n].orig >= s[n - 1].orig /\ s[n].resp >= s[n - 1].resp

\* What was said of q that were not its last words is not more than is counted.
Within(s, f, q) ==
  (s # <<>> /\ ~s[Len(s)].last) =>
    q \in DOMAIN f /\ f[q].orig >= s[Len(s)].orig /\ f[q].resp >= s[Len(s)].resp

\* The flows of a conversation, and those that are gone, are told of by
\* payloads that grow.
WordsOK ==
  errors = 0 => \A q \in P!Keys : Grows(sent[q]) /\ Within(sent[q], flows, q)

\* What is counted of a conversation, and what last words told of it, is what
\* was captured of it.
Conserved ==
  (state = "reading" /\ errors = 0) =>
    \A q \in P!Keys :
      IF q = P!Reverse(q) THEN said[q] + Counted(flows, q) = seen[q]
      ELSE said[q] + Counted(flows, q)
             + (said[P!Reverse(q)] + Counted(flows, P!Reverse(q)))
           = seen[q] + seen[P!Reverse(q)]

\* Who is spoken of is open, unless a flow of the conversation was given up.
SpokenIsOpen ==
  \A q \in P!Keys :
    (q.from # q.to /\ {q, P!Reverse(q)} \cap gone = {} /\ sent[q] # <<>>) =>
      q \in DOMAIN flows

PcapInv ==
  /\ P!TypeOK /\ IsFiniteSet(DOMAIN flows) /\ CountsBounded
  /\ P!OneEntryEach /\ WordsOK /\ Conserved /\ SpokenIsOpen /\ P!CaptureAccounted

\* The assumption, for the provers
LEMMA PcapConstants ==
  /\ EmitEvery \in Nat \ {0} /\ MaxFlows \in Nat \ {0} /\ MaxTime \in Nat
  /\ MaxPackets \in Nat /\ MaxSendErrors \in Nat
<1>1. P!PcapAssumption
  BY SensorsAssumption
<1> QED BY <1>1 DEF P!PcapAssumption

LEMMA ReverseFacts ==
  ASSUME NEW q \in P!Keys
  PROVE  /\ P!Reverse(q) \in P!Keys /\ P!Reverse(P!Reverse(q)) = q
         /\ q = P!Reverse(q) <=> q.from = q.to
BY DEF P!Keys, P!Reverse

LEMMA PcapInit == P!Init => PcapInv
<1> SUFFICES ASSUME P!Init PROVE PcapInv
  OBVIOUS
<1> USE PcapConstants DEF P!Init, P!Empty
<1>1. DOMAIN flows = {} /\ \A q \in P!Keys : Counted(flows, q) = 0
  BY DEF Counted
<1>2. sent \in [P!Keys -> Seq(P!Payloads)]
  BY EmptySeq
<1>3. P!TypeOK
  BY <1>1, <1>2 DEF P!TypeOK
<1>4. IsFiniteSet(DOMAIN flows) /\ P!OneEntryEach
  <2>1. Cardinality(DOMAIN flows) = 0
    BY <1>1, FS_EmptySet
  <2> QED BY <1>1, <2>1, FS_EmptySet, SameCardinality DEF P!OneEntryEach
<1>5. CountsBounded /\ SpokenIsOpen /\ P!CaptureAccounted
  BY <1>1 DEF CountsBounded, SpokenIsOpen, P!CaptureAccounted
<1>6. WordsOK
  <2>1. \A q \in P!Keys : sent[q] = <<>> /\ DOMAIN sent[q] = {}
    OBVIOUS
  <2> QED BY <2>1 DEF WordsOK, Grows, Within
<1>7. Conserved
  BY <1>1, ReverseFacts DEF Conserved
<1> QED BY <1>3, <1>4, <1>5, <1>6, <1>7 DEF PcapInv

\* A packet that is folded in is counted once, in the one entry of its
\* conversation.
LEMMA FoldedFacts ==
  ASSUME PcapInv, NEW k \in P!Keys, NEW time \in 0..MaxTime, count < MaxPackets,
         NEW f, f = P!Folded(k, time), NEW key, key = P!KeyOf(k)
  PROVE  /\ key \in P!Keys /\ key \in {k, P!Reverse(k)}
         /\ DOMAIN f = DOMAIN flows \cup {key}
         /\ \A q \in DOMAIN f : f[q] \in P!Flow /\ P!Total(f[q]) <= count + 1
         /\ \A q \in DOMAIN flows : f[q].orig >= flows[q].orig
                                    /\ f[q].resp >= flows[q].resp
         /\ \A q \in P!Keys :
              Counted(f, q) = Counted(flows, q) + (IF q = key THEN 1 ELSE 0)
         /\ \A q \in DOMAIN f : q.from # q.to => P!Reverse(q) \notin DOMAIN f
         /\ IsFiniteSet(DOMAIN f)
<1> USE PcapConstants
<1>1. key \in P!Keys /\ key \in {k, P!Reverse(k)}
  BY ReverseFacts DEF P!KeyOf
<1>2. PICK flow : flow = IF key \in DOMAIN flows THEN flows[key] ELSE P!New(time)
  OBVIOUS
<1>3. /\ flow \in P!Flow /\ P!Total(flow) <= count
      /\ P!Total(flow) = Counted(flows, key) /\ count \in 0..MaxPackets
  <2>1. count \in 0..MaxPackets
    BY DEF PcapInv, P!TypeOK
  <2>2. CASE key \in DOMAIN flows
    BY <1>2, <2>1, <2>2 DEF PcapInv, P!TypeOK, CountsBounded, Counted
  <2>3. CASE key \notin DOMAIN flows
    <3>1. flow = [start |-> time, orig |-> 0, resp |-> 0]
      BY <1>2, <2>3 DEF P!New
    <3> QED BY <3>1, <2>1, <2>3 DEF P!Flow, P!Total, Counted
  <2> QED BY <2>2, <2>3
<1>4. PICK folded : folded = IF P!Reverse(k) \in DOMAIN flows
                             THEN [flow EXCEPT !.resp = @ + 1]
                             ELSE [flow EXCEPT !.orig = @ + 1]
  OBVIOUS
<1>5. /\ folded \in P!Flow /\ P!Total(folded) = P!Total(flow) + 1
      /\ folded.orig >= flow.orig /\ folded.resp >= flow.resp
  <2>1. /\ flow.start \in 0..MaxTime /\ flow.orig \in Nat /\ flow.resp \in Nat
        /\ flow.orig + flow.resp + 1 <= MaxPackets
    BY <1>3 DEF P!Flow, P!Total
  <2>2. CASE P!Reverse(k) \in DOMAIN flows
    <3>1. folded = [flow EXCEPT !.resp = flow.resp + 1]
      BY <1>4, <2>2
    <3>2. folded.orig = flow.orig /\ folded.resp = flow.resp + 1
      BY <3>1, <1>3 DEF P!Flow
    <3>3. folded \in P!Flow
      BY <3>1, <2>1, <1>3 DEF P!Flow
    <3> QED BY <3>2, <3>3, <2>1 DEF P!Total
  <2>3. CASE P!Reverse(k) \notin DOMAIN flows
    <3>1. folded = [flow EXCEPT !.orig = flow.orig + 1]
      BY <1>4, <2>3
    <3>2. folded.resp = flow.resp /\ folded.orig = flow.orig + 1
      BY <3>1, <1>3 DEF P!Flow
    <3>3. folded \in P!Flow
      BY <3>1, <2>1, <1>3 DEF P!Flow
    <3> QED BY <3>2, <3>3, <2>1 DEF P!Total
  <2> QED BY <2>2, <2>3
<1>6. f = [q \in DOMAIN flows \cup {key} |-> IF q # key THEN flows[q] ELSE folded]
  BY <1>2, <1>4 DEF P!Folded
<1>7. DOMAIN f = DOMAIN flows \cup {key}
      /\ \A q \in DOMAIN f : f[q] = IF q # key THEN flows[q] ELSE folded
  BY <1>6
<1>8. \A q \in DOMAIN flows : /\ flows[q] \in P!Flow /\ flows[q].orig \in Nat
                              /\ flows[q].resp \in Nat /\ P!Total(flows[q]) \in Nat
                              /\ P!Total(flows[q]) <= count
  BY DEF PcapInv, P!TypeOK, CountsBounded, P!Flow, P!Total
<1>9. \A q \in DOMAIN f : f[q] \in P!Flow /\ P!Total(f[q]) <= count + 1
  <2>1. P!Total(flow) \in Nat
    BY <1>3 DEF P!Flow, P!Total
  <2> QED BY <2>1, <1>3, <1>5, <1>7, <1>8
<1>10. \A q \in DOMAIN flows : f[q].orig >= flows[q].orig /\ f[q].resp >= flows[q].resp
  <2> TAKE q \in DOMAIN flows
  <2>1. CASE q = key
    BY <2>1, <1>2, <1>5, <1>7
  <2>2. CASE q # key
    BY <2>2, <1>7, <1>8
  <2> QED BY <2>1, <2>2
<1>11. \A q \in P!Keys :
         Counted(f, q) = Counted(flows, q) + (IF q = key THEN 1 ELSE 0)
  <2> TAKE q \in P!Keys
  <2>1. CASE q = key
    BY <2>1, <1>3, <1>5, <1>7 DEF Counted
  <2>2. CASE q # key
    BY <2>2, <1>7, <1>8 DEF Counted
  <2> QED BY <2>1, <2>2
<1>12. \A q \in DOMAIN f : q.from # q.to => P!Reverse(q) \notin DOMAIN f
  <2>1. DOMAIN flows \subseteq P!Keys
        /\ \A q \in DOMAIN flows : q.from # q.to => P!Reverse(q) \notin DOMAIN flows
    BY DEF PcapInv, P!TypeOK, P!OneEntryEach
  <2> TAKE q \in DOMAIN f
  <2> HAVE q.from # q.to
  <2>2. q \in P!Keys /\ q # P!Reverse(q)
    BY <1>1, <1>7, <2>1, ReverseFacts
  <2>3. CASE P!Reverse(k) \in DOMAIN flows
    BY <2>1, <2>2, <2>3, <1>7 DEF P!KeyOf
  <2>4. CASE P!Reverse(k) \notin DOMAIN flows
    <3>1. key = k /\ DOMAIN f = DOMAIN flows \cup {k}
      BY <2>4, <1>7 DEF P!KeyOf
    <3>2. CASE q = k
      BY <2>2, <2>4, <3>1, <3>2
    <3>3. CASE q # k
      <4>1. q \in DOMAIN flows /\ P!Reverse(q) \notin DOMAIN flows
        BY <2>1, <3>1, <3>3
      <4>2. P!Reverse(q) # k
        BY <2>2, <2>4, <4>1, ReverseFacts
      <4> QED BY <3>1, <4>1, <4>2
    <3> QED BY <3>2, <3>3
  <2> QED BY <2>3, <2>4
<1>13. IsFiniteSet(DOMAIN f)
  BY <1>7, FS_AddElement DEF PcapInv
<1> QED BY <1>1, <1>7, <1>9, <1>10, <1>11, <1>12, <1>13

\* more is words and a payload with the counts of q.
Continues(more, words, f, q, last) == more = Append(words, P!Payload(f, q, last))

\* A payload with the counts of an open flow continues what was said of it.
LEMMA WordFacts ==
  ASSUME NEW words \in Seq(P!Payloads), NEW f, NEW q \in DOMAIN f, f[q] \in P!Flow,
         NEW last \in BOOLEAN,
         NEW more, Continues(more, words, f, q, last)
  PROVE  /\ more \in Seq(P!Payloads) /\ Len(more) = Len(words) + 1
         /\ more # <<>> /\ Len(words) \in Nat
         /\ more[Len(more)].last = last
         /\ P!Total(more[Len(more)]) = P!Total(f[q])
         /\ (Grows(words) /\ Within(words, f, q)) => Grows(more)
         /\ Within(more, f, q)
<1>1. PICK word : word = P!Payload(f, q, last)
  OBVIOUS
<1>2. /\ word \in P!Payloads /\ word.last = last
      /\ word.orig = f[q].orig /\ word.resp = f[q].resp
      /\ f[q].orig \in Nat /\ f[q].resp \in Nat
  BY <1>1 DEF P!Payload, P!Payloads, P!Flow
<1>3. /\ more \in Seq(P!Payloads) /\ Len(more) = Len(words) + 1 /\ Len(words) \in Nat
      /\ \A n \in 1..Len(words) : more[n] = words[n]
      /\ more[Len(words) + 1] = word
  BY <1>1, <1>2, AppendProperties, LenProperties DEF Continues
<1>4. more # <<>>
  BY <1>3, EmptySeq
<1>5. DOMAIN words = 1..Len(words) /\ DOMAIN more = 1..Len(words) + 1
  BY <1>3, LenProperties
<1>6. (Grows(words) /\ Within(words, f, q)) => Grows(more)
  <2> SUFFICES ASSUME Grows(words), Within(words, f, q),
                      NEW n \in 1..Len(words) + 1, n > 1, ~more[n - 1].last
               PROVE  more[n].orig >= more[n - 1].orig /\ more[n].resp >= more[n - 1].resp
    BY <1>5 DEF Grows
  <2>1. n - 1 \in 1..Len(words) /\ more[n - 1] = words[n - 1]
    BY <1>3
  <2>2. CASE n <= Len(words)
    <3>1. n \in 1..Len(words) /\ more[n] = words[n]
      BY <2>2, <1>3
    <3> QED BY <2>1, <3>1, <1>5 DEF Grows
  <2>3. CASE n = Len(words) + 1
    <3>1. words # <<>> /\ more[n - 1] = words[Len(words)] /\ more[n] = word
      BY <2>1, <2>3, <1>3, EmptySeq
    <3> QED BY <2>3, <3>1, <1>2 DEF Within
  <2> QED BY <2>2, <2>3, <1>3
<1>7. Within(more, f, q)
  BY <1>2, <1>3 DEF Within
<1>8. P!Total(more[Len(more)]) = P!Total(f[q]) /\ more[Len(more)].last = last
  BY <1>2, <1>3 DEF P!Total
<1> QED BY <1>3, <1>4, <1>6, <1>7, <1>8

\* Nothing need be open for what was said.
Final(words) == \A f, q : Within(words, f, q)

\* What was said of q after a round over A and the last words about B
Said(words, f, q, A, B, more) ==
  \E between :
    /\ IF q \in A THEN Continues(between, words, f, q, FALSE) ELSE between = words
    /\ IF q \in B THEN Continues(more, between, f, q, TRUE) ELSE more = between

LEMMA SaidFacts ==
  ASSUME NEW words \in Seq(P!Payloads), NEW f, NEW A, NEW B, NEW q,
         q \in A \cup B => q \in DOMAIN f /\ f[q] \in P!Flow,
         NEW more, Said(words, f, q, A, B, more)
  PROVE  /\ more \in Seq(P!Payloads)
         /\ more # <<>> => words # <<>> \/ q \in A \cup B
         /\ P!Told(words, more) = IF q \in B THEN P!Total(f[q]) ELSE 0
         /\ (Grows(words) /\ Within(words, f, q)) =>
              /\ Grows(more) /\ Within(more, f, q)
              /\ q \in B => Final(more)
<1>1. PICK between :
        /\ IF q \in A THEN Continues(between, words, f, q, FALSE) ELSE between = words
        /\ IF q \in B THEN Continues(more, between, f, q, TRUE) ELSE more = between
  BY DEF Said
<1>2. /\ between \in Seq(P!Payloads) /\ (between # <<>> => words # <<>> \/ q \in A)
      /\ Len(words) \in Nat
      /\ Len(between) = Len(words) \/ (Len(between) = Len(words) + 1
                                       /\ ~between[Len(between)].last)
      /\ (Grows(words) /\ Within(words, f, q)) => Grows(between) /\ Within(between, f, q)
  <2>1. CASE q \in A
    <3>0. PICK last \in BOOLEAN : last = FALSE
      OBVIOUS
    <3>1. q \in DOMAIN f /\ f[q] \in P!Flow
          /\ Continues(between, words, f, q, last)
      BY <1>1, <2>1, <3>0
    <3>2. /\ between \in Seq(P!Payloads) /\ Len(between) = Len(words) + 1
          /\ Len(words) \in Nat /\ between[Len(between)].last = last
          /\ (Grows(words) /\ Within(words, f, q)) => Grows(between)
          /\ Within(between, f, q)
      <4> HIDE <3>0
      <4> QED BY <3>1, WordFacts
    <3> QED BY <2>1, <3>0, <3>2
  <2>2. CASE q \notin A
    BY <1>1, <2>2, LenProperties
  <2> QED BY <2>1, <2>2
<1>3. CASE q \in B
  <2>a. PICK last \in BOOLEAN : last = TRUE
    OBVIOUS
  <2>1. q \in DOMAIN f /\ f[q] \in P!Flow
        /\ Continues(more, between, f, q, last)
    BY <1>1, <1>3, <2>a
  <2>0. between \in Seq(P!Payloads)
    BY <1>2
  <2>2. /\ more \in Seq(P!Payloads) /\ Len(more) = Len(between) + 1
        /\ more[Len(more)].last = last
        /\ P!Total(more[Len(more)]) = P!Total(f[q])
        /\ (Grows(between) /\ Within(between, f, q)) => Grows(more)
        /\ Within(more, f, q)
    BY <2>0, <2>1, WordFacts
  <2>3. P!Told(words, more) = P!Total(f[q])
    BY <2>a, <2>2, <1>2 DEF P!Told
  <2>4. Final(more)
    BY <2>a, <2>2 DEF Within, Final
  <2> QED BY <2>2, <2>3, <2>4, <1>2, <1>3
<1>4. CASE q \notin B
  <2>1. more = between
    BY <1>1, <1>4
  <2>2. P!Told(words, more) = 0
    BY <2>1, <1>2 DEF P!Told
  <2> QED BY <2>1, <2>2, <1>2, <1>4
<1> QED BY <1>3, <1>4

LEMMA ToldFacts ==
  ASSUME NEW words \in Seq(P!Payloads), NEW more \in Seq(P!Payloads)
  PROVE  P!Told(words, more) \in Nat
<1>1. CASE Len(more) > Len(words) /\ more[Len(more)].last
  <2>1. Len(more) \in 1..Len(more)
    BY <1>1, LenProperties
  <2>2. more[Len(more)] \in P!Payloads
    BY <2>1, ElementOfSeq
  <2> QED BY <1>1, <2>2, PcapConstants DEF P!Payloads, P!Total, P!Told
<1>2. CASE ~(Len(more) > Len(words) /\ more[Len(more)].last)
  BY <1>2 DEF P!Told
<1> QED BY <1>1, <1>2

\* A packet of a flow, with the round and the eviction that may follow it
LEMMA FoldInKeeps ==
  ASSUME PcapInv, state = "reading", count < MaxPackets,
         NEW k \in P!Keys, NEW time \in 0..MaxTime, P!FoldIn(k, time),
         state' = state, count' = count + 1,
         dns' \subseteq {"dns", "dns_response"} \X Ends \X Ends
  PROVE  PcapInv'
<1> USE PcapConstants
<1>1. PICK f, key : f = P!Folded(k, time) /\ key = P!KeyOf(k)
  OBVIOUS
<1>2. /\ key \in P!Keys /\ key \in {k, P!Reverse(k)}
      /\ DOMAIN f = DOMAIN flows \cup {key}
      /\ \A q \in DOMAIN f : f[q] \in P!Flow /\ P!Total(f[q]) <= count + 1
      /\ \A q \in DOMAIN flows : f[q].orig >= flows[q].orig
                                 /\ f[q].resp >= flows[q].resp
      /\ \A q \in P!Keys :
           Counted(f, q) = Counted(flows, q) + (IF q = key THEN 1 ELSE 0)
      /\ \A q \in DOMAIN f : q.from # q.to => P!Reverse(q) \notin DOMAIN f
      /\ IsFiniteSet(DOMAIN f)
  BY <1>1, FoldedFacts
<1>3. PICK round : round = IF (count + 1) % EmitEvery = 0 THEN DOMAIN f ELSE {}
  OBVIOUS
<1>a. PICK victims \in P!Victims(f) :
        \E r1 \in P!Raising(round) : \E r2 \in P!Raising(victims) :
          /\ P!Cardinality(r1) + P!Cardinality(r2) + errors <= MaxSendErrors
          /\ sent' = P!LastWords(P!Emitted(sent, f, round, r1, FALSE), f, victims, r2)
          /\ flows' = [q \in DOMAIN f \ victims |-> P!AfterRound(f, round)[q]]
          /\ errors' = errors + P!Cardinality(r1) + P!Cardinality(r2)
          /\ gone' = gone \cup victims
  BY <1>1, <1>3 DEF P!FoldIn
<1>4. PICK r1 \in P!Raising(round), r2 \in P!Raising(victims) :
        /\ P!Cardinality(r1) + P!Cardinality(r2) + errors <= MaxSendErrors
        /\ sent' = P!LastWords(P!Emitted(sent, f, round, r1, FALSE), f, victims, r2)
        /\ flows' = [q \in DOMAIN f \ victims |-> P!AfterRound(f, round)[q]]
        /\ errors' = errors + P!Cardinality(r1) + P!Cardinality(r2)
        /\ gone' = gone \cup victims
  BY <1>a
<1>5. /\ seen' = [seen EXCEPT ![k] = @ + 1]
      /\ said' = [q \in P!Keys |-> said[q] + P!Told(sent[q], sent'[q])]
  BY DEF P!FoldIn, P!Listen
<1>6. /\ DOMAIN flows \subseteq P!Keys /\ DOMAIN f \subseteq P!Keys
      /\ count \in 0..MaxPackets /\ count + 1 \in 0..MaxPackets
      /\ errors \in 0..MaxSendErrors /\ sent \in [P!Keys -> Seq(P!Payloads)]
      /\ seen \in [P!Keys -> 0..MaxPackets] /\ said \in [P!Keys -> Nat]
      /\ gone \subseteq P!Keys
  BY <1>2 DEF PcapInv, P!TypeOK
<1>7. /\ victims \subseteq DOMAIN f /\ Cardinality(victims) = P!Excess(f)
      /\ round \subseteq DOMAIN f /\ r1 \subseteq round /\ r2 \subseteq victims
  <2>1. victims \in P!kSubset(P!Excess(f), DOMAIN f)
    BY <1>4 DEF P!Victims
  <2>2. victims \in SUBSET DOMAIN f /\ P!Cardinality(victims) = P!Excess(f)
    BY <2>1 DEF P!kSubset
  <2> QED BY <2>2, <1>3, <1>4, SameCardinality DEF P!Raising
<1>8. /\ errors' \in 0..MaxSendErrors
      /\ errors' = 0 => errors = 0 /\ r1 = {} /\ r2 = {}
  <2>1. IsFiniteSet(r1) /\ IsFiniteSet(r2)
    BY <1>2, <1>7, FS_Subset
  <2>2. /\ Cardinality(r1) \in Nat /\ Cardinality(r2) \in Nat
        /\ (Cardinality(r1) = 0 => r1 = {}) /\ (Cardinality(r2) = 0 => r2 = {})
    BY <2>1, FS_CardinalityType, FS_EmptySet
  <2>3. Cardinality(r1) + Cardinality(r2) + errors <= MaxSendErrors
        /\ errors' = errors + Cardinality(r1) + Cardinality(r2)
    BY <1>4, SameCardinality
  <2> QED BY <2>2, <2>3, <1>6
<1>9. /\ DOMAIN flows' = DOMAIN f \ victims
      /\ \A q \in DOMAIN f \ victims : flows'[q] = f[q]
  BY <1>4 DEF P!AfterRound
<1>10. \A q \in P!Keys :
         Said(sent[q], f, q, round \ r1, victims \ r2, sent'[q])
  <2> TAKE q \in P!Keys
  <2>1. PICK between : between = P!Emitted(sent, f, round, r1, FALSE)
    OBVIOUS
  <2>2. between[q] = IF q \in round \ r1
                     THEN Append(sent[q], P!Payload(f, q, FALSE)) ELSE sent[q]
    BY <2>1 DEF P!Emitted
  <2>3. sent' = P!Emitted(between, f, victims, r2, TRUE)
    BY <2>1, <1>4 DEF P!LastWords
  <2>4. sent'[q] = IF q \in victims \ r2
                   THEN Append(between[q], P!Payload(f, q, TRUE)) ELSE between[q]
    BY <2>3 DEF P!Emitted
  <2> QED BY <2>2, <2>4 DEF Said, Continues
<1>11. \A q \in P!Keys :
         /\ sent'[q] \in Seq(P!Payloads)
         /\ sent'[q] # <<>> => sent[q] # <<>> \/ q \in (round \ r1) \cup (victims \ r2)
         /\ P!Told(sent[q], sent'[q]) = IF q \in victims \ r2 THEN P!Total(f[q]) ELSE 0
         /\ (Grows(sent[q]) /\ Within(sent[q], f, q)) =>
              /\ Grows(sent'[q]) /\ Within(sent'[q], f, q)
              /\ q \in victims \ r2 => Final(sent'[q])
  <2> TAKE q \in P!Keys
  <2>1. PICK words, more, A, B :
          words = sent[q] /\ more = sent'[q] /\ A = round \ r1 /\ B = victims \ r2
    OBVIOUS
  <2>2. words \in Seq(P!Payloads) /\ Said(words, f, q, A, B, more)
    BY <2>1, <1>6, <1>10
  <2>3. q \in A \cup B => q \in DOMAIN f /\ f[q] \in P!Flow
    BY <2>1, <1>2, <1>7
  <2>4. /\ more \in Seq(P!Payloads)
        /\ more # <<>> => words # <<>> \/ q \in A \cup B
        /\ P!Told(words, more) = IF q \in B THEN P!Total(f[q]) ELSE 0
        /\ (Grows(words) /\ Within(words, f, q)) =>
             /\ Grows(more) /\ Within(more, f, q)
             /\ q \in B => Final(more)
    BY <2>2, <2>3, SaidFacts
  <2> QED BY <2>1, <2>4
<1>12. P!TypeOK'
  <2>1. flows' = [q \in DOMAIN f \ victims |-> f[q]]
    BY <1>4 DEF P!AfterRound
  <2>2. sent' \in [P!Keys -> Seq(P!Payloads)]
    <3>1. sent' = [q \in P!Keys |-> sent'[q]]
      BY <1>4 DEF P!LastWords, P!Emitted
    <3> QED BY <3>1, <1>11
  <2>3. said' \in [P!Keys -> Nat]
    <3>1. \A q \in P!Keys : P!Told(sent[q], sent'[q]) \in Nat
      BY <1>6, <1>11, ToldFacts
    <3> QED BY <3>1, <1>5, <1>6
  <2>4. seen' \in [P!Keys -> 0..MaxPackets]
    <3>1. seen[k] + 1 \in 0..MaxPackets
      BY <1>6 DEF PcapInv, CountsBounded
    <3> QED BY <3>1, <1>5, <1>6
  <2>5. \A q \in DOMAIN flows' : flows'[q] \in P!Flow
    BY <1>2, <1>9
  <2>6. gone' \subseteq P!Keys /\ DOMAIN flows' \subseteq P!Keys
    BY <1>4, <1>6, <1>7, <1>9
  <2>7. state' \in {"reading", "done", "failed"} /\ count' \in 0..MaxPackets
    BY <1>6
  <2> QED BY <2>2, <2>3, <2>4, <2>5, <2>6, <2>7, <1>8
          DEF P!TypeOK, P!Flow, P!Payloads, P!Keys
<1>13. IsFiniteSet(DOMAIN flows') /\ P!OneEntryEach'
  <2>1. IsFiniteSet(DOMAIN f \ victims) /\ IsFiniteSet(victims)
    BY <1>2, <1>7, FS_Subset
  <2>2. Cardinality(DOMAIN f \ victims) = Cardinality(DOMAIN f) - Cardinality(victims)
    <3>1. DOMAIN f \cap victims = victims
      BY <1>7
    <3>2. Cardinality(DOMAIN f \ victims)
            = Cardinality(DOMAIN f) - Cardinality(DOMAIN f \cap victims)
      BY <1>2, FS_Difference
    <3> QED BY <3>1, <3>2
  <2>3. Cardinality(DOMAIN f) \in Nat
    BY <1>2, FS_CardinalityType
  <2>4. Cardinality(victims) = IF Cardinality(DOMAIN f) > MaxFlows
                               THEN Cardinality(DOMAIN f) - MaxFlows ELSE 0
    BY <1>7, SameCardinality DEF P!Excess
  <2>5. Cardinality(DOMAIN flows') <= MaxFlows
    BY <2>2, <2>3, <2>4, <1>9
  <2>6. P!Cardinality(DOMAIN flows') <= MaxFlows
    BY <2>5, SameCardinality
  <2>7. \A q \in DOMAIN flows' : q.from # q.to => P!Reverse(q) \notin DOMAIN flows'
    BY <1>2, <1>9
  <2> QED BY <2>1, <2>6, <2>7, <1>9 DEF P!OneEntryEach, P!Reverse
<1>14. CountsBounded'
  <2>1. \A q \in DOMAIN flows' : P!Total(flows'[q]) <= count'
    BY <1>2, <1>9
  <2>2. \A q \in P!Keys : seen'[q] <= count'
    BY <1>5, <1>6 DEF PcapInv, CountsBounded
  <2> QED BY <2>1, <2>2 DEF CountsBounded, P!Total, P!Keys
<1>15. WordsOK'
  <2> SUFFICES ASSUME errors' = 0, NEW q \in P!Keys
               PROVE  Grows(sent'[q]) /\ Within(sent'[q], flows', q)
    BY DEF WordsOK, P!Keys, Grows, Within
  <2>1. Grows(sent[q]) /\ Within(sent[q], flows, q) /\ r2 = {}
    BY <1>8 DEF PcapInv, WordsOK
  <2>2. Within(sent[q], f, q)
    <3> SUFFICES ASSUME sent[q] # <<>>, ~sent[q][Len(sent[q])].last
                 PROVE  /\ q \in DOMAIN f /\ f[q].orig >= sent[q][Len(sent[q])].orig
                        /\ f[q].resp >= sent[q][Len(sent[q])].resp
      BY DEF Within
    <3>1. PICK word : word = sent[q][Len(sent[q])]
      OBVIOUS
    <3>2. word \in P!Payloads
      <4>1. sent[q] \in Seq(P!Payloads)
        BY <1>6
      <4>2. Len(sent[q]) \in 1..Len(sent[q])
        BY <4>1, EmptySeq
      <4> QED BY <3>1, <4>1, <4>2, ElementOfSeq
    <3>3. q \in DOMAIN flows /\ flows[q].orig >= word.orig /\ flows[q].resp >= word.resp
      BY <2>1, <3>1 DEF Within
    <3>4. flows[q] \in P!Flow /\ f[q] \in P!Flow
      BY <3>3, <1>2 DEF PcapInv, P!TypeOK
    <3> QED BY <3>1, <3>2, <3>3, <3>4, <1>2 DEF P!Flow, P!Payloads
  <2>3. CASE q \in victims
    BY <2>1, <2>2, <2>3, <1>11 DEF Final
  <2>4. CASE q \notin victims
    <3>1. Grows(sent'[q]) /\ Within(sent'[q], f, q)
      BY <2>1, <2>2, <1>11
    <3>2. q \in DOMAIN f => q \in DOMAIN flows' /\ flows'[q] = f[q]
      BY <2>4, <1>9
    <3> QED BY <3>1, <3>2 DEF Within
  <2> QED BY <2>3, <2>4
<1>16. Conserved'
  <2> SUFFICES ASSUME errors' = 0, NEW q \in P!Keys
               PROVE  IF q = P!Reverse(q)
                      THEN said'[q] + Counted(flows', q) = seen'[q]
                      ELSE said'[q] + Counted(flows', q)
                             + (said'[P!Reverse(q)] + Counted(flows', P!Reverse(q)))
                           = seen'[q] + seen'[P!Reverse(q)]
    BY DEF Conserved, Counted, P!Keys, P!Reverse, P!Total
  <2>1. r2 = {} /\ errors = 0
    BY <1>8
  <2>2. \A o \in P!Keys : Counted(flows, o) \in Nat /\ Counted(f, o) \in Nat
    <3>1. \A o \in DOMAIN flows : flows[o] \in P!Flow
      BY DEF PcapInv, P!TypeOK
    <3> QED BY <3>1, <1>2 DEF Counted, P!Flow, P!Total
  <2>3. \A o \in P!Keys :
          said'[o] + Counted(flows', o) = said[o] + Counted(flows, o)
                                            + (IF o = key THEN 1 ELSE 0)
    <3> TAKE o \in P!Keys
    <3>1. said'[o] = said[o] + (IF o \in victims THEN P!Total(f[o]) ELSE 0)
      BY <2>1, <1>5, <1>11
    <3>2. Counted(flows', o) = IF o \in victims THEN 0 ELSE Counted(f, o)
      BY <1>9 DEF Counted
    <3>3. o \in victims => P!Total(f[o]) = Counted(f, o)
      BY <1>7 DEF Counted
    <3>4. Counted(f, o) = Counted(flows, o) + (IF o = key THEN 1 ELSE 0)
      BY <1>2
    <3>5. said[o] \in Nat /\ Counted(f, o) \in Nat /\ Counted(flows, o) \in Nat
      BY <2>2, <1>6
    <3>6. CASE o \in victims
      <4>1. said'[o] = said[o] + Counted(f, o) /\ Counted(flows', o) = 0
        BY <3>1, <3>2, <3>3, <3>6
      <4>2. said'[o] + Counted(flows', o) = said[o] + Counted(f, o)
        BY <4>1, <3>5
      <4> QED BY <4>2, <3>4, <3>5
    <3>7. CASE o \notin victims
      <4>1. said'[o] = said[o] /\ Counted(flows', o) = Counted(f, o)
        BY <3>1, <3>2, <3>5, <3>7
      <4> QED BY <4>1, <3>4, <3>5
    <3> QED BY <3>6, <3>7
  <2>4. \A o \in P!Keys : seen'[o] = seen[o] + (IF o = k THEN 1 ELSE 0)
    BY <1>5, <1>6
  <2>5. IF q = P!Reverse(q) THEN said[q] + Counted(flows, q) = seen[q]
        ELSE said[q] + Counted(flows, q)
               + (said[P!Reverse(q)] + Counted(flows, P!Reverse(q)))
             = seen[q] + seen[P!Reverse(q)]
    BY <2>1 DEF PcapInv, Conserved
  <2>6. PICK o : o = P!Reverse(q)
    OBVIOUS
  <2>7. /\ o \in P!Keys /\ P!Reverse(o) = q
        /\ Counted(flows, q) \in Nat /\ Counted(flows, o) \in Nat
        /\ said[q] \in Nat /\ said[o] \in Nat /\ seen[q] \in Nat /\ seen[o] \in Nat
    BY <2>2, <2>6, <1>6, ReverseFacts
  <2>8. CASE q = o
    <3>1. q = key <=> q = k
      BY <2>6, <2>8, <1>2, ReverseFacts
    <3> QED BY <3>1, <2>3, <2>4, <2>5, <2>6, <2>7, <2>8
  <2>9. CASE q # o
    <3>1. (IF q = key THEN 1 ELSE 0) + (IF o = key THEN 1 ELSE 0)
            = (IF q = k THEN 1 ELSE 0) + (IF o = k THEN 1 ELSE 0)
      BY <2>6, <2>7, <2>9, <1>2, ReverseFacts
    <3>2. said'[q] + Counted(flows', q)
            = said[q] + Counted(flows, q) + (IF q = key THEN 1 ELSE 0)
          /\ said'[o] + Counted(flows', o)
            = said[o] + Counted(flows, o) + (IF o = key THEN 1 ELSE 0)
      BY <2>3, <2>7
    <3>3. seen'[q] = seen[q] + (IF q = k THEN 1 ELSE 0)
          /\ seen'[o] = seen[o] + (IF o = k THEN 1 ELSE 0)
      BY <2>4, <2>7
    <3>4. said[q] + Counted(flows, q) + (said[o] + Counted(flows, o)) = seen[q] + seen[o]
      BY <2>5, <2>6, <2>9
    <3>5. said'[q] + Counted(flows', q) + (said'[o] + Counted(flows', o))
            = seen'[q] + seen'[o]
      BY <3>1, <3>2, <3>3, <3>4, <2>7
    <3> QED BY <3>5, <2>6, <2>9
  <2> QED BY <2>8, <2>9
<1>17. SpokenIsOpen'
  <2> SUFFICES ASSUME NEW q \in P!Keys, q.from # q.to,
                      {q, P!Reverse(q)} \cap gone' = {}, sent'[q] # <<>>
               PROVE  q \in DOMAIN flows'
    BY DEF SpokenIsOpen, P!Keys, P!Reverse
  <2>1. q \notin victims /\ {q, P!Reverse(q)} \cap gone = {}
    BY <1>4
  <2>2. sent[q] # <<>> \/ q \in DOMAIN f
    BY <1>7, <1>11
  <2>3. q \in DOMAIN f
    BY <2>1, <2>2, <1>2 DEF PcapInv, SpokenIsOpen
  <2> QED BY <2>1, <2>3, <1>9
<1>18. P!CaptureAccounted'
  BY DEF P!CaptureAccounted
<1> QED BY <1>12, <1>13, <1>14, <1>15, <1>16, <1>17, <1>18 DEF PcapInv

\* What skips a packet, or ends the reading without a word, changes no flow.
LEMMA FlowsKeep ==
  ASSUME PcapInv, UNCHANGED <<flows, sent, errors, seen, gone, said>>,
         dns' \subseteq {"dns", "dns_response"} \X Ends \X Ends,
         count' \in 0..MaxPackets, count' >= count,
         state' = state \/ state' = "failed"
  PROVE  PcapInv'
<1> USE PcapConstants DEF PcapInv
<1>1. P!TypeOK'
  BY DEF P!TypeOK, P!Flow, P!Payloads, P!Keys
<1>2. CountsBounded'
  <2>1. /\ count \in Nat /\ count' \in Nat
        /\ \A q \in P!Keys : seen[q] \in Nat /\ seen[q] <= count
        /\ \A q \in DOMAIN flows : P!Total(flows[q]) \in Nat
                                    /\ P!Total(flows[q]) <= count
    BY DEF P!TypeOK, P!Flow, P!Total, CountsBounded
  <2>2. \A q \in DOMAIN flows : P!Total(flows[q]) <= count'
    BY <2>1
  <2>3. \A q \in P!Keys : seen[q] <= count'
    BY <2>1
  <2> QED BY <2>2, <2>3 DEF CountsBounded, P!Total, P!Keys
<1>3. P!OneEntryEach' /\ WordsOK'
  BY DEF P!OneEntryEach, P!Reverse, WordsOK, Grows, Within, P!Keys
<1>4. Conserved' /\ P!CaptureAccounted'
  BY DEF Conserved, Counted, P!Total, P!CaptureAccounted, P!Keys, P!Reverse
<1>5. SpokenIsOpen'
  BY DEF SpokenIsOpen, P!Keys, P!Reverse
<1> QED BY <1>1, <1>2, <1>3, <1>4, <1>5

LEMMA PacketKeeps ==
  ASSUME PcapInv, NEW kind \in P!Packets, NEW k \in P!Keys, NEW time \in 0..MaxTime,
         P!Packet(kind, k, time)
  PROVE  PcapInv'
<1>1. /\ state = "reading" /\ count < MaxPackets /\ count' = count + 1 /\ state' = state
      /\ count \in 0..MaxPackets
  BY DEF P!Packet, PcapInv, P!TypeOK
<1>2. dns' \subseteq {"dns", "dns_response"} \X Ends \X Ends
  <2>1. \A t : P!DnsEvent(t, k) \in {"dns", "dns_response"} \X Ends \X Ends
    BY DEF P!DnsEvent, P!Keys
  <2>2. dns \subseteq {"dns", "dns_response"} \X Ends \X Ends
    BY DEF PcapInv, P!TypeOK
  <2>3. \/ dns' = dns
        \/ \E t \in {kind} \ {"flow", "other"} : dns' = dns \cup {P!DnsEvent(t, k)}
    BY DEF P!Packet
  <2> QED BY <2>1, <2>2, <2>3
<1>3. CASE kind = "other"
  <2>1. UNCHANGED <<flows, sent, errors, seen, gone, said>>
    BY <1>3 DEF P!Packet
  <2>2. count' \in 0..MaxPackets /\ count' >= count
    BY <1>1, PcapConstants
  <2> QED BY <1>1, <1>2, <2>1, <2>2, FlowsKeep
<1>4. CASE kind # "other"
  <2>1. P!FoldIn(k, time)
    BY <1>4 DEF P!Packet
  <2> QED BY <1>1, <1>2, <2>1, FoldInKeeps
<1> QED BY <1>3, <1>4

\* The last round: what was counted is told.
LEMMA FinishKeeps ==
  ASSUME PcapInv, P!Finish
  PROVE  PcapInv'
<1> USE PcapConstants
<1>1. PICK r \in P!Raising(P!Rest) :
        /\ sent' = P!Emitted(sent, flows, P!Rest, r, TRUE)
        /\ errors' = errors + P!Cardinality(r)
  BY DEF P!Finish
<1>2. /\ state = "reading" /\ state' = "done"
      /\ said' = [q \in P!Keys |-> said[q] + P!Told(sent[q], sent'[q])]
      /\ UNCHANGED <<count, flows, dns, seen, gone>>
  BY DEF P!Finish, P!Listen
<1>3. /\ DOMAIN flows \subseteq P!Keys /\ \A q \in DOMAIN flows : flows[q] \in P!Flow
      /\ errors \in 0..MaxSendErrors /\ sent \in [P!Keys -> Seq(P!Payloads)]
      /\ seen \in [P!Keys -> 0..MaxPackets] /\ said \in [P!Keys -> Nat]
      /\ IsFiniteSet(DOMAIN flows)
  BY DEF PcapInv, P!TypeOK
<1>4. /\ r \subseteq DOMAIN flows /\ errors' \in 0..MaxSendErrors
      /\ errors' = 0 => errors = 0 /\ r = {}
  <2>1. r \subseteq DOMAIN flows /\ P!Cardinality(r) + errors <= MaxSendErrors
    BY <1>1 DEF P!Raising, P!Rest
  <2>2. Cardinality(r) \in Nat /\ (Cardinality(r) = 0 => r = {})
    BY <2>1, <1>3, FS_Subset, FS_CardinalityType, FS_EmptySet
  <2>3. Cardinality(r) + errors <= MaxSendErrors /\ errors' = errors + Cardinality(r)
    BY <1>1, <2>1, SameCardinality
  <2> QED BY <2>1, <2>2, <2>3, <1>3
<1>5. \A q \in P!Keys : Said(sent[q], flows, q, {}, DOMAIN flows \ r, sent'[q])
  <2> TAKE q \in P!Keys
  <2>1. sent'[q] = IF q \in DOMAIN flows \ r
                   THEN Append(sent[q], P!Payload(flows, q, TRUE)) ELSE sent[q]
    BY <1>1 DEF P!Emitted, P!Rest
  <2> QED BY <2>1 DEF Said, Continues
<1>6. \A q \in P!Keys :
        /\ sent'[q] \in Seq(P!Payloads)
        /\ sent'[q] # <<>> => sent[q] # <<>> \/ q \in DOMAIN flows
        /\ P!Told(sent[q], sent'[q])
             = IF q \in DOMAIN flows \ r THEN P!Total(flows[q]) ELSE 0
        /\ (Grows(sent[q]) /\ Within(sent[q], flows, q)) =>
             Grows(sent'[q]) /\ Within(sent'[q], flows, q)
  <2> TAKE q \in P!Keys
  <2>1. PICK words, more, f, A, B :
          words = sent[q] /\ more = sent'[q] /\ f = flows /\ A = {} /\ B = DOMAIN flows \ r
    OBVIOUS
  <2>2. words \in Seq(P!Payloads) /\ Said(words, f, q, A, B, more)
    BY <2>1, <1>3, <1>5
  <2>3. q \in A \cup B => q \in DOMAIN f /\ f[q] \in P!Flow
    BY <2>1, <1>3
  <2>4. /\ more \in Seq(P!Payloads)
        /\ more # <<>> => words # <<>> \/ q \in A \cup B
        /\ P!Told(words, more) = IF q \in B THEN P!Total(f[q]) ELSE 0
        /\ (Grows(words) /\ Within(words, f, q)) =>
             /\ Grows(more) /\ Within(more, f, q)
             /\ q \in B => Final(more)
    BY <2>2, <2>3, SaidFacts
  <2> QED BY <2>1, <2>4
<1>7. P!TypeOK'
  <2>1. sent' \in [P!Keys -> Seq(P!Payloads)]
    <3>1. sent' = [q \in P!Keys |-> sent'[q]]
      BY <1>1 DEF P!Emitted
    <3> QED BY <3>1, <1>6
  <2>2. said' \in [P!Keys -> Nat]
    <3>1. \A q \in P!Keys : P!Told(sent[q], sent'[q]) \in Nat
      BY <1>3, <1>6, ToldFacts
    <3> QED BY <3>1, <1>2, <1>3
  <2> QED BY <2>1, <2>2, <1>2, <1>4 DEF PcapInv, P!TypeOK, P!Flow, P!Payloads, P!Keys
<1>8. IsFiniteSet(DOMAIN flows') /\ P!OneEntryEach' /\ CountsBounded'
  BY <1>2 DEF PcapInv, P!OneEntryEach, CountsBounded, P!Total, P!Keys, P!Reverse
<1>9. WordsOK'
  <2>1. ASSUME errors' = 0, NEW q \in P!Keys
        PROVE  Grows(sent'[q]) /\ Within(sent'[q], flows, q)
    BY <2>1, <1>4, <1>6 DEF PcapInv, WordsOK
  <2> QED BY <2>1, <1>2 DEF WordsOK, P!Keys, Grows, Within
<1>10. Conserved'
  BY <1>2 DEF Conserved
<1>11. SpokenIsOpen'
  <2> SUFFICES ASSUME NEW q \in P!Keys, q.from # q.to,
                      {q, P!Reverse(q)} \cap gone = {}, sent'[q] # <<>>
               PROVE  q \in DOMAIN flows
    BY <1>2 DEF SpokenIsOpen, P!Keys, P!Reverse
  <2> QED BY <1>6 DEF PcapInv, SpokenIsOpen
<1>12. P!CaptureAccounted'
  <2> SUFFICES ASSUME errors' = 0, NEW q \in P!Keys
               PROVE  IF q = P!Reverse(q) THEN said'[q] = seen[q]
                      ELSE said'[q] + said'[P!Reverse(q)] = seen[q] + seen[P!Reverse(q)]
    BY <1>2 DEF P!CaptureAccounted, P!Keys, P!Reverse
  <2>1. \A o \in P!Keys : said'[o] = said[o] + Counted(flows, o)
    BY <1>2, <1>4, <1>6 DEF Counted
  <2>2. IF q = P!Reverse(q) THEN said[q] + Counted(flows, q) = seen[q]
        ELSE said[q] + Counted(flows, q)
               + (said[P!Reverse(q)] + Counted(flows, P!Reverse(q)))
             = seen[q] + seen[P!Reverse(q)]
    BY <1>2, <1>4 DEF PcapInv, Conserved
  <2> QED BY <2>1, <2>2, ReverseFacts
<1> QED BY <1>7, <1>8, <1>9, <1>10, <1>11, <1>12 DEF PcapInv

LEMMA PcapStep ==
  ASSUME PcapInv, P!Next
  PROVE  PcapInv'
<1>1. CASE P!Finish
  BY <1>1, FinishKeeps
<1>2. CASE P!Abort
  <2>1. /\ UNCHANGED <<flows, sent, errors, seen, gone, said>> /\ dns' = dns
        /\ count' = count /\ state' = "failed"
    BY <1>2 DEF P!Abort
  <2>2. /\ dns \subseteq {"dns", "dns_response"} \X Ends \X Ends
        /\ count \in 0..MaxPackets /\ count >= count
    BY DEF PcapInv, P!TypeOK
  <2> QED BY <2>1, <2>2, FlowsKeep
<1>3. ASSUME NEW kind \in P!Packets, NEW k \in P!Keys, NEW time \in 0..MaxTime,
             P!Packet(kind, k, time)
      PROVE  PcapInv'
  BY <1>3, PacketKeeps
<1> QED BY <1>1, <1>2, <1>3 DEF P!Next

LEMMA PcapStutters ==
  ASSUME PcapInv, UNCHANGED pcap
  PROVE  PcapInv'
<1>1. UNCHANGED <<state, count, flows, sent, dns, errors, seen, gone, said>>
  BY DEF pcap
<1>2. /\ dns \subseteq {"dns", "dns_response"} \X Ends \X Ends
      /\ count \in 0..MaxPackets /\ count >= count
  BY DEF PcapInv, P!TypeOK
<1> QED BY <1>1, <1>2, FlowsKeep

-----------------------------------------------------------------------------
(* The rules                                                               *)

\* What the rules find in a connection
LEMMA ConnRaised ==
  ASSUME NEW e, e.type = "conn", ~Raises(e)
  PROVE  /\ R!Raised(e) \subseteq {"DDoS", "C2 Beaconing", "Encrypted-Traffic Malware",
                                   "Reconnaissance", "Data Exfiltration"}
         /\ "DDoS" \in R!Raised(e) <=> R!Ddos(e) # "none"
         /\ "C2 Beaconing" \in R!Raised(e) <=> R!Heartbeat(e) # "none"
         /\ "Encrypted-Traffic Malware" \in R!Raised(e) <=> R!Malware(e) # "none"
         /\ "Reconnaissance" \in R!Raised(e) <=> R!PortScan(e) # "none"
         /\ "Data Exfiltration" \in R!Raised(e) <=> R!Exfil(e) # "none"
         /\ R!Verdicts(e)["DDoS"] = R!Ddos(e)
<1>1. /\ R!Verdicts(e)["DDoS"] = R!Ddos(e)
      /\ R!Verdicts(e)["C2 Beaconing"] = R!Heartbeat(e)
      /\ R!Verdicts(e)["Encrypted-Traffic Malware"] = R!Malware(e)
      /\ R!Verdicts(e)["Reconnaissance"] = R!PortScan(e)
      /\ R!Verdicts(e)["Data Exfiltration"] = R!Exfil(e)
      /\ R!Verdicts(e)["DNS Tunnelling"] = "none"
      /\ R!Verdicts(e)["DGA"] = "none"
  BY DEF R!Verdicts, R!Classes, Raises
<1> QED BY <1>1 DEF R!Raised, R!Classes

\* What the rules find in a query
LEMMA DnsRaised ==
  ASSUME NEW e, e.type = "dns", ~Raises(e)
  PROVE  /\ R!Raised(e) \subseteq {"DNS Tunnelling", "DGA"}
         /\ "DNS Tunnelling" \in R!Raised(e) <=> R!Tunnel(e) # "none"
         /\ "DGA" \in R!Raised(e) <=> R!DgaFallback(e) # "none"
<1>1. /\ R!Verdicts(e)["DDoS"] = "none"
      /\ R!Verdicts(e)["C2 Beaconing"] = "none"
      /\ R!Verdicts(e)["Encrypted-Traffic Malware"] = "none"
      /\ R!Verdicts(e)["Reconnaissance"] = "none"
      /\ R!Verdicts(e)["Data Exfiltration"] = "none"
      /\ R!Verdicts(e)["DNS Tunnelling"] = R!Tunnel(e)
      /\ R!Verdicts(e)["DGA"] = R!DgaFallback(e)
  BY DEF R!Verdicts, R!Classes, Raises
<1> QED BY <1>1 DEF R!Raised, R!Classes

\* The fields of a connection the simulator makes up are numbers.
LEMMA SimulatedConn ==
  ASSUME NEW a, NEW e \in S!ConnLogs(a)
  PROVE  /\ e.type = "conn" /\ e.label = a
         /\ e.origPkts \in S!Pkts(a) /\ e.origBytes \in S!OrigBytes(a)
         /\ e.respBytes \in S!RespBytes(a) /\ e.port \in S!Ports(a)
         /\ e.state = S!ConnState(a)
         /\ e.ja4 = IF a = "encrypted_malware" THEN Rare ELSE S!NoFingerprint
         /\ e.origPkts \in Nat /\ e.origBytes \in Nat /\ e.respBytes \in Nat
         /\ e.port \in Nat
         /\ ~Raises(e)
<1>1. /\ e.type = "conn" /\ e.label = a
      /\ e.origPkts \in S!Pkts(a) /\ e.origBytes \in S!OrigBytes(a)
      /\ e.respBytes \in S!RespBytes(a) /\ e.port \in S!Ports(a)
      /\ e.state = S!ConnState(a)
      /\ e.ja4 = IF a = "encrypted_malware" THEN Rare ELSE S!NoFingerprint
  BY DEF S!ConnLogs
<1>2. S!Pkts(a) \subseteq Nat
  BY DEF S!Pkts
<1>3. S!OrigBytes(a) \subseteq Nat
  BY DEF S!OrigBytes
<1>4. S!RespBytes(a) \subseteq Nat
  BY DEF S!RespBytes
<1>5. S!Ports(a) \subseteq Nat
  BY DEF S!Ports
<1>6. ~Raises(e)
  BY <1>1, <1>2, <1>3, <1>4, <1>5
     DEF Raises, R!FeaturesRaise, R!RulesRaise, R!Listed
<1> QED BY <1>1, <1>2, <1>3, <1>4, <1>5, <1>6

\* Every event the simulator makes up shows its label to the rules.
LEMMA SimulatedShows ==
  ASSUME NEW a, NEW e \in S!Zeek(a)
  PROVE  /\ e.label = a
         /\ a = "normal" => R!Raised(e) = {}
         /\ a \in S!Mixed => Shows(a) \in R!Raised(e)
<1>0. Rare # S!NoFingerprint
  BY SensorsAssumption DEF S!SimulatorAssumption
<1>1. CASE e \in S!DnsLogs(a) /\ a \in {"dga_dns_tunnelling", "normal"}
  <2>1. /\ e.type = "dns" /\ e.label = a /\ e.query \in S!Names(a)
        /\ e.qtype = IF a = "dga_dns_tunnelling" THEN "TXT" ELSE "A"
    BY <1>1 DEF S!DnsLogs
  <2>2. /\ a = "dga_dns_tunnelling" => e.query.len = 117
        /\ a = "normal" => e.query.len \in {9, 14} /\ ~e.query.random
    BY <1>1, <2>1 DEF S!Names
  <2>3. ~Raises(e)
    BY <1>1, <2>1, <2>2 DEF Raises, R!FeaturesRaise, R!RulesRaise, R!Listed
  <2>4. CASE a = "normal"
    <3>1. R!Tunnel(e) = "none" /\ R!DgaFallback(e) = "none"
      BY <2>1, <2>2, <2>4 DEF R!Tunnel, R!DgaFallback
    <3>2. R!Raised(e) = {}
      BY <2>1, <2>3, <3>1, DnsRaised
    <3> QED BY <2>1, <2>4, <3>2 DEF S!Mixed
  <2>5. CASE a = "dga_dns_tunnelling"
    <3>1. R!Tunnel(e) = "high"
      BY <2>1, <2>2, <2>5 DEF R!Tunnel
    <3>2. "DNS Tunnelling" \in R!Raised(e)
      BY <2>1, <2>3, <3>1, DnsRaised
    <3> QED BY <2>1, <2>5, <3>2 DEF Shows
  <2> QED BY <1>1, <2>4, <2>5
<1>2. CASE e \in S!ConnLogs(a) /\ a # "dga_dns_tunnelling"
  <2>1. /\ e.type = "conn" /\ e.label = a
        /\ e.origPkts \in S!Pkts(a) /\ e.origBytes \in S!OrigBytes(a)
        /\ e.respBytes \in S!RespBytes(a) /\ e.port \in S!Ports(a)
        /\ e.state = S!ConnState(a)
        /\ e.ja4 = IF a = "encrypted_malware" THEN Rare ELSE S!NoFingerprint
        /\ ~Raises(e)
    BY <1>2, SimulatedConn
  <2>2. /\ e.origPkts \in Nat /\ e.origBytes \in Nat /\ e.respBytes \in Nat
        /\ e.port \in Nat
    BY <1>2, SimulatedConn
  <2>3. /\ R!SafeInt(e.origPkts) = e.origPkts /\ R!SafeInt(e.origBytes) = e.origBytes
        /\ R!SafeInt(e.respBytes) = e.respBytes /\ R!SafeInt(e.port) = e.port
    BY <2>2 DEF R!SafeInt, R!Null, R!Word
  <2>4. CASE a = "normal"
    <3>1. /\ e.origPkts \in {5, 50} /\ e.origBytes \in {100, 5000} /\ e.state = "SF"
          /\ e.port \in {80, 443, 53} /\ e.ja4 = S!NoFingerprint
      BY <2>1, <2>4 DEF S!Pkts, S!OrigBytes, S!ConnState, S!Ports
    <3>2. R!Ddos(e) = "none"
      BY <2>3, <3>1 DEF R!Ddos
    <3>3. R!Heartbeat(e) = "none"
      BY <2>3, <3>1 DEF R!Heartbeat
    <3>4. R!Malware(e) = "none"
      BY <1>0, <3>1 DEF R!Malware
    <3>5. R!PortScan(e) = "none" /\ R!Exfil(e) = "none"
      BY <2>3, <3>1 DEF R!PortScan, R!Exfil
    <3>6. R!Raised(e) = {}
      BY <2>1, <3>2, <3>3, <3>4, <3>5, ConnRaised
    <3> QED BY <2>1, <2>4, <3>6 DEF S!Mixed
  <2>5. CASE a = "reconnaissance"
    <3>1. R!PortScan(e) = "low"
      BY <2>1, <2>3, <2>5 DEF R!PortScan, S!Pkts, S!ConnState
    <3> QED BY <2>1, <2>5, <3>1, ConnRaised DEF Shows
  <2>6. CASE a = "ddos"
    <3>1. R!Ddos(e) = "critical"
      BY <2>1, <2>3, <2>6 DEF R!Ddos, S!Pkts
    <3> QED BY <2>1, <2>6, <3>1, ConnRaised DEF Shows
  <2>7. CASE a = "data_exfiltration"
    <3>1. R!Exfil(e) = "high"
      BY <2>1, <2>3, <2>7 DEF R!Exfil, S!OrigBytes, S!RespBytes
    <3> QED BY <2>1, <2>7, <3>1, ConnRaised DEF Shows
  <2>8. CASE a = "encrypted_malware"
    <3>1. R!Malware(e) = "critical"
      BY <2>1, <2>8 DEF R!Malware
    <3> QED BY <2>1, <2>8, <3>1, ConnRaised DEF Shows
  <2>9. CASE a = "c2_beaconing"
    <3>1. R!Heartbeat(e) = "high"
      BY <2>1, <2>3, <2>9 DEF R!Heartbeat, R!Between, S!OrigBytes, S!RespBytes, S!Ports
    <3> QED BY <2>1, <2>9, <3>1, ConnRaised DEF Shows
  <2> QED BY <1>2, <2>1, <2>4, <2>5, <2>6, <2>7, <2>8, <2>9 DEF S!Mixed
<1> QED BY <1>1, <1>2 DEF S!Zeek

\* A foreign connection has numbers in its fields, or what stands for one.
LEMMA ForeignConn ==
  ASSUME NEW e \in Samples, e.type = "conn"
  PROVE  /\ e = [label |-> e.label, type |-> e.type, origPkts |-> e.origPkts,
                 origBytes |-> e.origBytes, respBytes |-> e.respBytes,
                 port |-> e.port, state |-> e.state, ja4 |-> e.ja4]
         /\ e.origPkts \in Amounts /\ e.origBytes \in Amounts
         /\ e.respBytes \in Amounts /\ e.port \in Amounts
<1>1. e \in ForeignEvents
  BY SensorsAssumption
<1>2. e \in [label : {"foreign"}, type : {"conn"}, origPkts : Amounts,
             origBytes : Amounts, respBytes : Amounts, port : Amounts,
             state : STRING, ja4 : STRING]
  BY <1>1 DEF ForeignEvents
<1> QED BY <1>2

\* What a field that is missing instead of given can add to the verdicts
LEMMA MissingField ==
  ASSUME NEW e \in Samples, e.type = "conn", ~Raises(e),
         NEW field \in {"origPkts", "origBytes", "respBytes", "port"}
  PROVE  R!Raised([e EXCEPT ![field] = R!Null]) \ R!Raised(e) \subseteq StandsOnLittle(field)
<1>1. PICK bare : bare = [e EXCEPT ![field] = R!Null]
  OBVIOUS
<1>2. /\ bare.type = "conn" /\ bare.state = e.state /\ bare.ja4 = e.ja4
      /\ bare.origPkts = IF field = "origPkts" THEN R!Null ELSE e.origPkts
      /\ bare.origBytes = IF field = "origBytes" THEN R!Null ELSE e.origBytes
      /\ bare.respBytes = IF field = "respBytes" THEN R!Null ELSE e.respBytes
      /\ bare.port = IF field = "port" THEN R!Null ELSE e.port
  BY <1>1, ForeignConn
<1>3. ~Raises(bare)
  BY <1>2 DEF Raises, R!FeaturesRaise, R!RulesRaise, R!Listed, R!Null
<1>4. R!SafeInt(R!Null) = 0
  BY DEF R!SafeInt
<1>5. R!Malware(bare) = R!Malware(e)
  BY <1>2 DEF R!Malware
<1>6. field # "origPkts" => R!Ddos(bare) = R!Ddos(e) /\ R!PortScan(bare) = R!PortScan(e)
  BY <1>2 DEF R!Ddos, R!PortScan
<1>7. field = "origPkts" => R!Ddos(bare) = "none"
  BY <1>2, <1>4 DEF R!Ddos
<1>8. field \in {"origBytes", "respBytes"} => R!Heartbeat(bare) = "none"
  BY <1>2, <1>4 DEF R!Heartbeat, R!Between
<1>9. field = "origPkts" => R!Heartbeat(bare) = R!Heartbeat(e)
  BY <1>2 DEF R!Heartbeat
<1>10. field = "origBytes" => R!Exfil(bare) = "none"
  BY <1>2, <1>4 DEF R!Exfil
<1>11. field \in {"origPkts", "port"} => R!Exfil(bare) = R!Exfil(e)
  BY <1>2 DEF R!Exfil
<1>12. R!Raised(bare) \subseteq {"DDoS", "C2 Beaconing", "Encrypted-Traffic Malware",
                                 "Reconnaissance", "Data Exfiltration"}
  BY <1>2, <1>3, ConnRaised
<1>13. /\ field # "port" /\ "C2 Beaconing" \in R!Raised(bare) =>
            "C2 Beaconing" \in R!Raised(e)
       /\ field # "origPkts" /\ "Reconnaissance" \in R!Raised(bare) =>
            "Reconnaissance" \in R!Raised(e)
       /\ field # "respBytes" /\ "Data Exfiltration" \in R!Raised(bare) =>
            "Data Exfiltration" \in R!Raised(e)
       /\ "DDoS" \in R!Raised(bare) => "DDoS" \in R!Raised(e)
       /\ "Encrypted-Traffic Malware" \in R!Raised(bare) =>
            "Encrypted-Traffic Malware" \in R!Raised(e)
  BY <1>2, <1>3, <1>5, <1>6, <1>7, <1>8, <1>9, <1>10, <1>11, ConnRaised
<1>14. R!Raised(bare) \ R!Raised(e) \subseteq StandsOnLittle(field)
  BY <1>12, <1>13 DEF StandsOnLittle
<1> QED BY <1>1, <1>14

\* More packets, or a rejection, never lower the verdict on a flood.
LEMMA FloodRank ==
  ASSUME NEW e \in Samples, e.type = "conn"
  PROVE  /\ DdosRank([e EXCEPT !.state = "REJ"]) >= DdosRank(e)
         /\ e.origPkts >= 0 => DdosRank([e EXCEPT !.origPkts = @ + 1]) >= DdosRank(e)
<1>1. e.origPkts \in Amounts
  BY ForeignConn
<1>2. ASSUME NEW o, o.type = "conn"
      PROVE  /\ Raises(o) => R!Verdicts(o)["DDoS"] = "none"
             /\ ~Raises(o) => R!Verdicts(o)["DDoS"] = R!Ddos(o)
             /\ R!Ddos(o) \in {"none", "high", "critical"}
  <2>1. Raises(o) => R!Verdicts(o)["DDoS"] = "none"
    BY DEF Raises, R!Verdicts, R!Classes
  <2>2. ~Raises(o) => R!Verdicts(o)["DDoS"] = R!Ddos(o)
    BY <1>2, ConnRaised
  <2>3. R!Ddos(o) \in {"none", "high", "critical"}
    BY DEF R!Ddos
  <2> QED BY <2>1, <2>2, <2>3
<1>3. Rank("none") = 0 /\ Rank("high") = 3 /\ Rank("critical") = 4
  BY DEF Rank
<1>4. PICK rejected : rejected = [e EXCEPT !.state = "REJ"]
  OBVIOUS
<1>5. /\ rejected.type = "conn" /\ rejected.state = "REJ"
      /\ rejected.origPkts = e.origPkts /\ rejected.origBytes = e.origBytes
      /\ rejected.respBytes = e.respBytes /\ rejected.port = e.port
  BY <1>4, ForeignConn
<1>6. DdosRank(rejected) >= DdosRank(e)
  <2>1. Raises(rejected) <=> Raises(e)
    BY <1>5 DEF Raises, R!FeaturesRaise, R!RulesRaise
  <2>2. \/ R!Ddos(e) = "none" \/ R!Ddos(rejected) = R!Ddos(e)
    BY <1>5 DEF R!Ddos
  <2> QED BY <2>1, <2>2, <1>2, <1>3, <1>5 DEF DdosRank
<1>7. ASSUME e.origPkts >= 0
      PROVE  DdosRank([e EXCEPT !.origPkts = @ + 1]) >= DdosRank(e)
  <2>1. PICK larger : larger = [e EXCEPT !.origPkts = @ + 1]
    OBVIOUS
  <2>2. e.origPkts \in Nat
    BY <1>1, <1>7 DEF Amounts, R!Odd, R!Null, R!Word, R!Listed
  <2>3. /\ larger.type = "conn" /\ larger.state = e.state
        /\ larger.origPkts = e.origPkts + 1 /\ larger.origBytes = e.origBytes
        /\ larger.respBytes = e.respBytes /\ larger.port = e.port
    BY <2>1, ForeignConn
  <2>4. Raises(larger) <=> Raises(e)
    BY <2>2, <2>3 DEF Raises, R!FeaturesRaise, R!RulesRaise, R!Listed
  <2>5. R!SafeInt(e.origPkts) = e.origPkts /\ R!SafeInt(larger.origPkts) = e.origPkts + 1
    BY <2>2, <2>3 DEF R!SafeInt, R!Null, R!Word
  <2>6. \/ R!Ddos(e) = "none" \/ R!Ddos(larger) = R!Ddos(e)
        \/ R!Ddos(larger) = "critical"
    BY <2>2, <2>3, <2>5 DEF R!Ddos
  <2>7. DdosRank(larger) >= DdosRank(e)
    BY <2>3, <2>4, <2>6, <1>2, <1>3 DEF DdosRank
  <2> QED BY <2>1, <2>7
<1> QED BY <1>4, <1>6, <1>7

-----------------------------------------------------------------------------
(* The composition                                                         *)

\* What the last event can be
EventOK ==
  /\ part \in {"tailer", "pcap", "simulator", "foreign"}
  /\ IF part = "foreign" THEN event = [label |-> "none"] \/ event \in Samples
     ELSE S!TypeOK

SensorsInv == TailerInv /\ PcapInv /\ EventOK

LEMMA SensorsInit == Init => SensorsInv
BY TailerInit, PcapInit DEF Init, SensorsInv, EventOK, S!Init, S!TypeOK

LEMMA SensorsStep == SensorsInv /\ [Next]_vars => SensorsInv'
<1> SUFFICES ASSUME SensorsInv, [Next]_vars PROVE SensorsInv'
  OBVIOUS
<1> USE DEF SensorsInv
<1>1. ASSUME UNCHANGED <<part, traffic>> PROVE EventOK'
  BY <1>1 DEF traffic, EventOK, S!TypeOK
<1>2. CASE part = "tailer" /\ T!Next /\ UNCHANGED <<part, pcap, traffic>>
  BY <1>1, <1>2, TailerStep, PcapStutters
<1>3. CASE part = "pcap" /\ P!Next /\ UNCHANGED <<part, tailer, traffic>>
  BY <1>1, <1>3, PcapStep, TailerStutters
<1>4. CASE part = "simulator" /\ S!Produce /\ UNCHANGED <<part, tailer, pcap>>
  <2>1. S!TypeOK'
    BY <1>4 DEF S!Produce, EventOK, S!TypeOK
  <2> QED BY <2>1, <1>4, TailerStutters, PcapStutters DEF EventOK
<1>5. CASE part = "foreign" /\ Receive /\ UNCHANGED <<part, tailer, pcap>>
  <2>1. EventOK'
    BY <1>5 DEF Receive, EventOK
  <2> QED BY <2>1, <1>5, TailerStutters, PcapStutters
<1>6. CASE UNCHANGED vars
  BY <1>1, <1>6, TailerStutters, PcapStutters DEF vars
<1> QED BY <1>2, <1>3, <1>4, <1>5, <1>6 DEF Next

\* A stop, a kill and a restart of the tailer at any moment overlook and repeat
\* no more than tail makes them, and a stop in good order leaves only what was
\* sent after it; the flows of a capture are one for each conversation, within
\* the cap, grow, keep their direction while none of the conversation was given
\* up, and add up to what was captured if no send raised (process_log,
\* handle_sigint and ingest_pcap).
THEOREM SensorsAreSound == Spec => []SensorsSound
<1>1. SensorsInv => SensorsSound
  <2> SUFFICES ASSUME SensorsInv PROVE SensorsSound
    OBVIOUS
  <2>1. TypeOK
    BY DEF SensorsInv, TailerInv, PcapInv, EventOK, TypeOK
  <2>2. T!RestartsBounded /\ T!StopKeepsWhatWasSent
    BY DEF SensorsInv, TailerInv
  <2>3. P!OneEntryEach /\ P!CaptureAccounted
    BY DEF SensorsInv, PcapInv
  <2>4. P!CountsGrow
    BY DEF SensorsInv, PcapInv, WordsOK, Grows, P!CountsGrow
  <2>5. P!DirectionKept
    <3> SUFFICES ASSUME NEW k \in P!Keys, k.from # k.to,
                        {k, P!Reverse(k)} \cap gone = {},
                        sent[k] # <<>>, sent[P!Reverse(k)] # <<>>
                 PROVE  FALSE
      BY DEF P!DirectionKept
    <3>1. PICK o : o = P!Reverse(k)
      OBVIOUS
    <3>2. o \in P!Keys /\ P!Reverse(o) = k /\ o.from # o.to
      BY <3>1, ReverseFacts
    <3>3. k \in DOMAIN flows /\ o \in DOMAIN flows
      BY <3>1, <3>2 DEF SensorsInv, PcapInv, SpokenIsOpen
    <3> QED BY <3>1, <3>3 DEF SensorsInv, PcapInv, P!OneEntryEach
  <2> QED BY <2>1, <2>2, <2>3, <2>4, <2>5 DEF SensorsSound
<1> QED BY <1>1, SensorsInit, SensorsStep, PTL DEF Spec

\* The rules find in every simulated event what its label promises and nothing
\* in a normal one; a number that is missing from a foreign connection adds no
\* verdict but those that stand on a small one; more packets or a rejection
\* never lower the verdict on a flood (evaluate_rules, safe_int, simulator.py).
THEOREM RulesAreSound == Spec => []RulesSound
<1>1. SensorsInv => RulesSound
  <2> SUFFICES ASSUME SensorsInv PROVE RulesSound
    OBVIOUS
  <2>1. DemoShowsItsLabels
    <3> SUFFICES ASSUME part = "simulator" PROVE
          /\ event.label = "normal" => R!Raised(event) = {}
          /\ event.label \in S!Mixed => Shows(event.label) \in R!Raised(event)
      BY DEF DemoShowsItsLabels
    <3>1. CASE event = [label |-> "none"]
      <4>1. event.label = "none"
        BY <3>1
      <4> QED BY <4>1 DEF S!Mixed
    <3>2. CASE event # [label |-> "none"]
      <4>1. PICK a : event \in S!Zeek(a)
        BY <3>2 DEF SensorsInv, EventOK, S!TypeOK
      <4>2. /\ event.label = a /\ (a = "normal" => R!Raised(event) = {})
            /\ a \in S!Mixed => Shows(a) \in R!Raised(event)
        BY <4>1, SimulatedShows
      <4> QED BY <4>2
    <3> QED BY <3>1, <3>2
  <2>2. Judged => event \in Samples /\ event.type = "conn"
    <3> SUFFICES ASSUME Judged PROVE event \in Samples /\ event.type = "conn"
      OBVIOUS
    <3>1. event # [label |-> "none"]
      BY DEF Judged
    <3> QED BY <3>1 DEF SensorsInv, EventOK, Judged
  <2>3. MissingAddsLittle
    BY <2>2, MissingField DEF MissingAddsLittle
  <2>4. FloodOrder
    BY <2>2, FloodRank DEF FloodOrder
  <2> QED BY <2>1, <2>3, <2>4 DEF RulesSound
<1> QED BY <1>1, SensorsInit, SensorsStep, PTL DEF Spec
=============================================================================
