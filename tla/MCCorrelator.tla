---------------------------- MODULE MCCorrelator ----------------------------
(***************************************************************************)
(* Instances of Correlator for TLC.  The alerts are typical detections:    *)
(* the threat class, severity and confidence the detectors give them.      *)
(***************************************************************************)
EXTENDS Correlator

\* 1: RULE_C2_BEACON_PERIODIC (0.40)   2, 3: DL_AUTOENCODER_FLOW_ANOMALY, just
\* above its threshold (0.55) and far above (0.99)   4: RULE_DDOS_CONN_RATE
Detections == 1 .. 4
ThreatOf ==
  [a \in Detections |-> CASE a = 1 -> "c2" [] a \in {2, 3} -> "flow" [] a = 4 -> "ddos"]
SeverityOf == [a \in Detections |-> IF a = 4 THEN 100 ELSE 50]
DetectorOf ==
  [a \in Detections |-> CASE a = 1 -> "beacon" [] a \in {2, 3} -> "flow" [] a = 4 -> "rate"]
ConfidenceOf ==
  [a \in Detections |-> CASE a = 1 -> -4 [] a = 2 -> 2 [] a = 3 -> 46 [] a = 4 -> 29]
=============================================================================
