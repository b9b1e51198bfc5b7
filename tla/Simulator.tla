----------------------------- MODULE Simulator ------------------------------
(***************************************************************************)
(* The source of demonstration traffic, ingest/simulator.py: an endless    *)
(* loop that makes up a connection or a DNS query, labels it as normal or  *)
(* as an attack, and gives it to Kafka.  A random number is one of the two *)
(* ends of its range: every rule compares it with a constant.              *)
(***************************************************************************)
EXTENDS Integers, FiniteSets

CONSTANTS
  Rare     \* the JA4 fingerprint of the attack that has one

NoFingerprint == ""

\* An assumption; the module that instantiates this one makes it.
SimulatorAssumption == Rare # NoFingerprint

VARIABLES
  scenario,    \* --scenario
  event        \* the last event that was sent

vars == <<scenario, event>>

Scenarios == {"normal", "dga", "port_scan", "mixed"}

Mixed == {"dga_dns_tunnelling", "reconnaissance", "ddos", "data_exfiltration",
          "encrypted_malware", "c2_beaconing"}

\* is_attack and attack_type
Attacks(s) ==
  CASE s = "normal" -> {} [] s = "mixed" -> Mixed [] OTHER -> {s}

Pkts(attack) ==
  CASE attack = "reconnaissance" -> {1, 3}
    [] attack = "ddos" -> {15000, 50000}
    [] OTHER -> {5, 50}

OrigBytes(attack) ==
  CASE attack = "data_exfiltration" -> {6000000, 15000000}
    [] attack = "c2_beaconing" -> {60, 120}
    [] OTHER -> {100, 5000}

RespBytes(attack) ==
  CASE attack = "data_exfiltration" -> {100, 5000}
    [] attack = "c2_beaconing" -> {60, 120}
    [] OTHER -> {100, 50000}

\* Fault: a beacon talks to a port like any other.
PortsUsual(attack) == {80, 443, 53}

Ports(attack) ==
  CASE attack = "reconnaissance" -> {1, 53, 1024}
    [] attack = "ddos" -> {80, 443}
    [] attack = "c2_beaconing" -> {4444, 8080, 1337}
    [] OTHER -> {80, 443, 53}

ConnState(attack) ==
  CASE attack = "reconnaissance" -> "S0" [] attack = "ddos" -> "REJ"
    [] OTHER -> "SF"

ConnLogs(attack) ==
  [type : {"conn"}, origPkts : Pkts(attack), origBytes : OrigBytes(attack),
   respBytes : RespBytes(attack), port : Ports(attack),
   state : {ConnState(attack)},
   ja4 : {IF attack = "encrypted_malware" THEN Rare ELSE NoFingerprint},
   label : {attack}]

\* Three UUIDs in hexadecimal as one label, which looks random or just not;
\* names of large companies otherwise.
Names(attack) ==
  IF attack = "dga_dns_tunnelling"
  THEN [len : {117}, label : {96}, random : BOOLEAN, infra : {FALSE}]
  ELSE [len : {9}, label : {5}, random : {FALSE}, infra : {FALSE}]
         \cup [len : {14}, label : {10}, random : {FALSE}, infra : {TRUE}]

DnsLogs(attack) ==
  [type : {"dns"}, query : Names(attack),
   qtype : {IF attack = "dga_dns_tunnelling" THEN "TXT" ELSE "A"},
   label : {attack}]

\* Every attack but one is a connection; normal traffic is both.
Zeek(attack) ==
  CASE attack = "dga_dns_tunnelling" -> DnsLogs(attack)
    [] attack = "normal" -> DnsLogs(attack) \cup ConnLogs(attack)
    [] OTHER -> ConnLogs(attack)

Init ==
  /\ scenario \in Scenarios
  /\ event = [label |-> "none"]

\* main: how many events wait in the producer is left out.
Produce ==
  /\ \E attack \in Attacks(scenario) \cup {"normal"} : event' \in Zeek(attack)
  /\ UNCHANGED scenario

-----------------------------------------------------------------------------
TypeOK ==
  /\ scenario \in Scenarios
  /\ event = [label |-> "none"]
       \/ event \in UNION {Zeek(a) : a \in Attacks(scenario) \cup {"normal"}}
=============================================================================
