----------------------------- MODULE Screening ------------------------------
(***************************************************************************)
(* What the stream processor makes of one event before any model is asked: *)
(* inference/features.py and inference/rules.py.                           *)
(*                                                                         *)
(* A field holds a number or a string, or one of the values below, which   *)
(* Zeek's "-" and foreign JSON bring in.  A DNS name is given by what the  *)
(* features measure of it.                                                 *)
(***************************************************************************)
EXTENDS Integers, FiniteSets

CONSTANTS
  Fingerprints    \* JA4_MALICIOUS_FINGERPRINTS, read from the environment

Null == -1       \* "-", "", None or a field that is missing
Word == -2       \* a string that is no number
Listed == -3     \* a list or a mapping: int() raises TypeError

Odd == {Null, Word, Listed}

SafeInt(v) == IF v \in {Null, Word} THEN 0 ELSE v

-----------------------------------------------------------------------------
(* Features                                                                *)

\* int() of a list, and a query that is no string, raise: the event is skipped.
FeaturesRaise(e) ==
  CASE e.type = "conn" -> Listed \in {e.origBytes, e.respBytes}
    [] e.type = "dns" -> e.query.len = Listed
    [] OTHER -> FALSE

\* "" has no features, and so none of the thresholds below.
HasFeatures(e) == e.query.len > 0

-----------------------------------------------------------------------------
(* Rules: the severity each gives, none for a rule that does not fire       *)

Severities == {"none", "low", "medium", "high", "critical"}

\* Fault: a rejected connection is judged first.
DdosRejectFirst(e) ==
  IF e.state = "REJ" /\ SafeInt(e.origPkts) >= 100 THEN "high"
  ELSE IF SafeInt(e.origPkts) > 10000 THEN "critical" ELSE "none"

Ddos(e) ==
  IF SafeInt(e.origPkts) > 10000 THEN "critical"
  ELSE IF e.state = "REJ" /\ SafeInt(e.origPkts) >= 100 THEN "high" ELSE "none"

Between(v, low, high) == low < v /\ v < high

\* Fault: a payload has no lower bound.
HeartbeatAny(e) ==
  IF /\ SafeInt(e.origBytes) < 150 /\ SafeInt(e.respBytes) < 150
     /\ SafeInt(e.port) \notin {80, 443, 53}
  THEN "high" ELSE "none"

Heartbeat(e) ==
  IF /\ Between(SafeInt(e.origBytes), 50, 150)
     /\ Between(SafeInt(e.respBytes), 50, 150)
     /\ SafeInt(e.port) \notin {80, 443, 53}
  THEN "high" ELSE "none"

Tunnel(e) ==
  IF e.query.len > 60 /\ e.qtype = "TXT" THEN "high" ELSE "none"

DgaFallback(e) ==
  IF HasFeatures(e) /\ e.query.random /\ e.query.label >= 16 /\ ~e.query.infra
  THEN "medium" ELSE "none"

Malware(e) == IF e.ja4 \in Fingerprints THEN "critical" ELSE "none"

PortScan(e) ==
  IF e.state = "S0" /\ SafeInt(e.origPkts) < 5 THEN "low" ELSE "none"

\* Fault: the two sides are swapped.
ExfilSwapped(e) ==
  IF SafeInt(e.respBytes) > 5000000 /\ SafeInt(e.origBytes) < 10000
  THEN "high" ELSE "none"

Exfil(e) ==
  IF SafeInt(e.origBytes) > 5000000 /\ SafeInt(e.respBytes) < 10000
  THEN "high" ELSE "none"

Classes == {"DDoS", "C2 Beaconing", "DNS Tunnelling", "DGA",
            "Encrypted-Traffic Malware", "Reconnaissance", "Data Exfiltration"}

\* A rule that raises takes the findings of the others with it.
RulesRaise(e) == e.type = "conn" /\ Listed \in {e.origPkts, e.port}

\* What process_traffic has in `detections' after the rules
Verdicts(e) ==
  [class \in Classes |->
     IF FeaturesRaise(e) \/ RulesRaise(e) THEN "none"
     ELSE CASE e.type = "conn" /\ class = "DDoS" -> Ddos(e)
            [] e.type = "conn" /\ class = "C2 Beaconing" -> Heartbeat(e)
            [] e.type = "conn" /\ class = "Encrypted-Traffic Malware" -> Malware(e)
            [] e.type = "conn" /\ class = "Reconnaissance" -> PortScan(e)
            [] e.type = "conn" /\ class = "Data Exfiltration" -> Exfil(e)
            [] e.type = "dns" /\ class = "DNS Tunnelling" -> Tunnel(e)
            [] e.type = "dns" /\ class = "DGA" -> DgaFallback(e)
            [] OTHER -> "none"]

Raised(e) == {class \in Classes : Verdicts(e)[class] # "none"}
=============================================================================
