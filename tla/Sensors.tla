------------------------------ MODULE Sensors -------------------------------
(***************************************************************************)
(* Where raw_traffic comes from, and what the rules say of it: the tailer  *)
(* of Zeek's logs (T), the reader of captures (P), the simulator (S), and  *)
(* events as any of them may deliver them to the rules (R).  The sensors   *)
(* are processes of their own; so a behaviour is about one of them.        *)
(***************************************************************************)
EXTENDS Integers, Sequences, FiniteSets

CONSTANTS
  Logs, TailLines, MaxLines, MaxBoots, MaxSendErrors, MaxLost,
  Ends, EmitEvery, MaxFlows, MaxTime, MaxPackets,
  Rare,            \* the fingerprint that is known as malicious
  Samples          \* events on either side of every threshold

VARIABLES
  part,      \* the sensor a behaviour is about
  file, process, boots, sendErrors, lost, thread, pos, buffer, delivered,
  awaited, dropped, reads, hidden, shown,
  state, count, flows, sent, dns, errors, seen, gone, said,
  scenario, event

R == INSTANCE Screening WITH Fingerprints <- {Rare}
T == INSTANCE Tailer
P == INSTANCE PcapFlows
S == INSTANCE Simulator

\* A field of a foreign event: a number, or what stands for one
Amounts == Nat \cup R!Odd

ForeignEvents ==
  [label : {"foreign"}, type : {"conn"}, origPkts : Amounts, origBytes : Amounts,
   respBytes : Amounts, port : Amounts, state : STRING, ja4 : STRING]
  \cup [label : {"foreign"}, type : {"dns"}, qtype : STRING,
        query : [len : Amounts, label : Nat, random : BOOLEAN, infra : BOOLEAN]]

ASSUME SensorsAssumption ==
  /\ T!TailerAssumption /\ P!PcapAssumption /\ S!SimulatorAssumption
  /\ Samples \subseteq ForeignEvents

tailer == <<file, process, boots, sendErrors, lost, thread, pos, buffer,
            delivered, awaited, dropped, reads, hidden, shown>>
pcap == <<state, count, flows, sent, dns, errors, seen, gone, said>>
traffic == <<scenario, event>>

vars == <<part, tailer, pcap, traffic>>

Init ==
  /\ T!Init /\ P!Init /\ S!Init
  /\ part \in {"tailer", "pcap", "simulator", "foreign"}
  /\ part # "simulator" => scenario = "normal"

\* An event of a foreign sensor: nobody has looked at its fields yet.
Receive ==
  /\ event = [label |-> "none"]
  /\ event' \in Samples
  /\ UNCHANGED scenario

Next ==
  /\ \/ part = "tailer" /\ T!Next /\ UNCHANGED <<pcap, traffic>>
     \/ part = "pcap" /\ P!Next /\ UNCHANGED <<tailer, traffic>>
     \/ part = "simulator" /\ S!Produce /\ UNCHANGED <<tailer, pcap>>
     \/ part = "foreign" /\ Receive /\ UNCHANGED <<tailer, pcap>>
  /\ UNCHANGED part

\* Threads that can read do read.
Fairness ==
  \A l \in Logs :
    /\ WF_vars(part = "tailer" /\ T!Open(l) /\ UNCHANGED <<part, pcap, traffic>>)
    /\ WF_vars(part = "tailer" /\ T!ProcessLog(l) /\ UNCHANGED <<part, pcap, traffic>>)

Spec == Init /\ [][Next]_vars /\ Fairness

-----------------------------------------------------------------------------
\* Every variable of a sensor has the values its comment gives it.
TypeOK ==
  /\ T!TypeOK /\ P!TypeOK
  /\ IF part = "foreign" THEN event = [label |-> "none"] \/ event \in Samples
     ELSE S!TypeOK

\* A restart of the tailer overlooks and repeats no more than tail makes it, a
\* stop loses what was sent after it only; the flows of a capture are one for
\* each conversation, go the way it was begun, only grow and add up.
SensorsSound ==
  /\ TypeOK
  /\ T!RestartsBounded /\ T!StopKeepsWhatWasSent
  /\ P!OneEntryEach /\ P!DirectionKept /\ P!CountsGrow /\ P!CaptureAccounted

\* What is written to a log is read, as long as it is events.
BacklogRead == T!BacklogRead

Shows(label) ==
  CASE label = "dga_dns_tunnelling" -> "DNS Tunnelling"
    [] label = "reconnaissance" -> "Reconnaissance"
    [] label = "ddos" -> "DDoS"
    [] label = "data_exfiltration" -> "Data Exfiltration"
    [] label = "encrypted_malware" -> "Encrypted-Traffic Malware"
    [] label = "c2_beaconing" -> "C2 Beaconing"

\* The demonstration shows what it says: the rules find in every attack of
\* the mixed scenario what its label promises, and nothing in normal traffic.
DemoShowsItsLabels ==
  part = "simulator" =>
    /\ event.label = "normal" => R!Raised(event) = {}
    /\ event.label \in S!Mixed => Shows(event.label) \in R!Raised(event)

Judged == part = "foreign" /\ event.label = "foreign" /\ event.type = "conn"

Raises(e) == R!FeaturesRaise(e) \/ R!RulesRaise(e)

\* The verdicts that stand on a small number, and so on a missing one
StandsOnLittle(field) ==
  CASE field = "origPkts" -> {"Reconnaissance"}
    [] field = "respBytes" -> {"Data Exfiltration"}
    [] field = "port" -> {"C2 Beaconing"}
    [] OTHER -> {}

\* A field that Zeek left empty instead of giving a number adds no verdict,
\* but for the three that take a small number for a sign.
MissingAddsLittle ==
  (Judged /\ ~Raises(event)) =>
    \A field \in {"origPkts", "origBytes", "respBytes", "port"} :
      R!Raised([event EXCEPT ![field] = R!Null]) \ R!Raised(event)
        \subseteq StandsOnLittle(field)

Rank(severity) ==
  CASE severity = "none" -> 0 [] severity = "low" -> 1 [] severity = "medium" -> 2
    [] severity = "high" -> 3 [] severity = "critical" -> 4

DdosRank(e) == Rank(R!Verdicts(e)["DDoS"])

\* The verdict on a flood never falls because there are more packets, or
\* because they were rejected as well.
FloodOrder ==
  Judged =>
    /\ DdosRank([event EXCEPT !.state = "REJ"]) >= DdosRank(event)
    /\ event.origPkts >= 0 =>
         DdosRank([event EXCEPT !.origPkts = @ + 1]) >= DdosRank(event)

\* Simulated or foreign, complete or not: what the rules say of an event fits
\* its label, and does not get better by what is missing or added.
RulesSound == DemoShowsItsLabels /\ MissingAddsLittle /\ FloodOrder
=============================================================================
