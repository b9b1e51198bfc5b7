----------------------------- MODULE Incidents ------------------------------
(***************************************************************************)
(* The incidents a console shows: synthesize_incidents of                  *)
(* shared/data_access.py groups a list of alerts by their source.  An      *)
(* alert's id is its place in the list.                                    *)
(***************************************************************************)
EXTENDS Naturals, SequencesExt

CONSTANTS
  Alerts,       \* what may stand in a list
  MaxListed     \* bound: length of a list (100)

VARIABLE list

Init == list = <<>>

Here == "127.0.0.1"     \* stands for a source that is missing
Missing == ""

Source(a) == IF a.source = Missing THEN Here ELSE a.source

\* Places of the alerts of one source
Group(alerts, source) ==
  {k \in DOMAIN alerts : Source(alerts[k]) = source}

\* _SEVERITY_DISPLAY_ORDER; whatever is unknown counts as low
Rank(severity) ==
  CASE severity = "critical" -> 4 [] severity = "high" -> 3
    [] severity = "medium" -> 2 [] OTHER -> 1

\* Fault: the last alert of a source decides.
LastSeverity(alerts, source) ==
  LET group == Group(alerts, source) IN
  alerts[CHOOSE k \in group : \A j \in group : j <= k].severity

\* The severity of the first alert that none outranks
Severity(alerts, source) ==
  LET group == Group(alerts, source)
      worst == {k \in group : \A j \in group :
                  Rank(alerts[j].severity) <= Rank(alerts[k].severity)}
  IN alerts[CHOOSE k \in worst : \A j \in worst : k <= j].severity

\* Fault: only the alert that opens an incident names a destination.
FirstEntities(alerts, source) ==
  LET group == Group(alerts, source) IN
  {source, alerts[CHOOSE k \in group : \A j \in group : k <= j].destination} \ {Missing}

Entities(alerts, source) ==
  ({source} \cup {alerts[k].destination : k \in Group(alerts, source)}) \ {Missing}

Incident(alerts, source) ==
  [source |-> source, severity |-> Severity(alerts, source),
   related |-> Group(alerts, source), entities |-> Entities(alerts, source)]

Synthesized(alerts) ==
  {Incident(alerts, source) : source \in {Source(alerts[k]) : k \in DOMAIN alerts}}

\* The console gets another list, newest first.
Show == list' \in {Append(list, a) : a \in Alerts} \cup {<<>>}

Next == IF Len(list) < MaxListed THEN Show ELSE list' = <<>>

-----------------------------------------------------------------------------
\* Every alert that was read is behind exactly one incident, which names both
\* its ends.
NoneUnshown ==
  \A k \in DOMAIN list :
    \E i \in Synthesized(list) :
      /\ k \in i.related
      /\ \A j \in Synthesized(list) : k \in j.related => i = j
      /\ ({list[k].source, list[k].destination} \ {Missing}) \subseteq i.entities

\* An incident is shown as grave as its gravest alert, so that further alerts,
\* newer or older, never make it look better.
NeverLooksBetter ==
  \A i \in Synthesized(list) : \A a \in Alerts :
    \A longer \in {<<a>> \o list, Append(list, a)} :
      \E j \in Synthesized(longer) :
        j.source = i.source /\ Rank(j.severity) >= Rank(i.severity)
=============================================================================
