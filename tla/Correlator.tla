------------------------------ MODULE Correlator ------------------------------
(***************************************************************************)
(* The Redis side of incident correlation (inference/correlation.py): the  *)
(* keys of one source IP and the two Lua scripts that change them.  A      *)
(* script runs atomically and keys of different IPs are disjoint, so one   *)
(* IP is enough; who calls the scripts, and when, is AlertEmitter.         *)
(*                                                                         *)
(* Time is counted in ticks.  A key lives for Window ticks from its        *)
(* creation; commands of one script see one time, so keys created by the   *)
(* same script expire together.                                            *)
(*                                                                         *)
(* Every alert has a fresh uuid (stream_processor_faust.py:453) and no     *)
(* caller passes is_replay, so the scripts' replay branch is unreachable.  *)
(***************************************************************************)
EXTENDS Integers, FiniteSetsExt, SequencesExt, Functions

CONSTANTS
  Alerts,     \* alert ids, as numbers: their order is that of the strings
  Threat,     \* Threat[a]: sanitised threat class
  Severity,   \* Severity[a]: 100, 75, 50 or 25
  Detector,   \* Detector[a]: the model_name risk.py groups by
  Confidence, \* Confidence[a]: log-odds of the confidence score, in tenths
  MaxSeen,    \* MAX_SEEN (5000)
  MaxList,    \* alerts kept in the window list (100)
  Stride,     \* every Stride-th alert is a candidate again (5)
  Window,     \* time_window_sec, in ticks
  MaxRuns     \* how often CORRELATE_LUA may run for one alert: the client
              \* sends it again if its reply is lost (retry_on_timeout)

Threats   == {Threat[a] : a \in Alerts}
Detectors == {Detector[a] : a \in Alerts}

ASSUME AlertAssumption ==
  /\ Alerts \subseteq Nat /\ IsFiniteSet(Alerts)
  /\ Threat \in [Alerts -> Threats]
  /\ Severity \in [Alerts -> {25, 50, 75, 100}]
  /\ Confidence \in [Alerts -> Int]

ASSUME SizeAssumption ==
  /\ MaxSeen \in Nat \ {0} /\ MaxList \in Nat \ {0}
  /\ Stride \in Nat \ {0} /\ Window \in Nat \ {0} /\ MaxRuns \in Nat \ {0}

VARIABLES
  score,    \* ":seen": score[a] of the members, Absent of the others
  list,     \* the window list, newest first
  count,    \* ":cnt"; 0 if there is no such key
  maxSev,   \* maxSev[t]: "dedup:<t>"; 0 if there is no such key
  seenTtl, listTtl, countTtl, sevTtl,  \* ticks to live; 0 without the key
  runs,     \* runs[a]: how often CORRELATE_LUA pushed a
  age,      \* history: ticks since a was pushed
  outcome   \* history: how far the alerts of the present list have got

redis == <<score, list, count, maxSev, seenTtl, listTtl, countTtl, sevTtl>>
vars  == <<redis, runs, age, outcome>>

Absent == -1
Seen == {a \in Alerts : score[a] # Absent}
Evidence == Range(list)

-----------------------------------------------------------------------------
(* calculate_risk_score: the strongest alert of each detector counts, and  *)
(* their log-odds are added up.  The score is 50 when the sum is zero.     *)

Strongest(S, d) == Max({Confidence[a] : a \in {b \in S : Detector[b] = d}})

LogOdds(S) ==
  MapThenSumSet(LAMBDA d : Strongest(S, d), {Detector[a] : a \in S})

ReachesThreshold(S) == S # {} /\ LogOdds(S) >= 0

-----------------------------------------------------------------------------
Init ==
  /\ score = [a \in Alerts |-> Absent]
  /\ list = <<>> /\ count = 0
  /\ maxSev = [t \in Threats |-> 0]
  /\ seenTtl = 0 /\ listTtl = 0 /\ countTtl = 0
  /\ sevTtl = [t \in Threats |-> 0]
  /\ runs = [a \in Alerts |-> 0]
  /\ age = [a \in Alerts |-> 0]
  /\ outcome = "none"

\* The member with the lowest score, the smallest string among equals
LowestRanked(f) ==
  CHOOSE a \in Alerts :
    /\ f[a] # Absent
    /\ \A b \in Alerts : f[b] # Absent => f[a] < f[b] \/ (f[a] = f[b] /\ a <= b)

\* zadd with the old cardinality as score, and the cap
Remember(a) ==
  LET added == [score EXCEPT ![a] = Cardinality(Seen)]
  IN  IF Cardinality(Seen \cup {a}) > MaxSeen
      THEN [added EXCEPT ![LowestRanked(added)] = Absent]
      ELSE added

\* lpush and ltrim
ListWith(a) == SubSeq(<<a>> \o list, 1, Min({MaxList, Len(list) + 1}))

\* Fault: the second alert is not special.
OnlyEscalations(a) ==
  /\ count + 1 >= 2
  /\ \/ maxSev[Threat[a]] = 0
     \/ Severity[a] > maxSev[Threat[a]]
     \/ (count + 1) % Stride = 0

\* The script's incident flag
Candidate(a) ==
  /\ count + 1 >= 2
  /\ \/ maxSev[Threat[a]] = 0
     \/ Severity[a] > maxSev[Threat[a]]
     \/ count + 1 = 2
     \/ count + 1 > 2 /\ (count + 1) % Stride = 0

\* Whether add_alert returns an incident, whose evidence is ListWith(a)
Incident(a) == Candidate(a) /\ ReachesThreshold(Range(ListWith(a)))

\* Fault: every alert extends the window.
Extended(ttl) == Window

\* "non-extending window expire"
Started(ttl) == IF ttl = 0 THEN Window ELSE ttl

\* "dedup:<threat>" is set when absent and raised by a more severe alert.
\* Raising keeps its ttl, in whole seconds: a ttl that rounds to zero is
\* replaced by a whole window.
Escalate(a) ==
  LET t == Threat[a]
  IN  IF Severity[a] > maxSev[t]
      THEN /\ maxSev' = [maxSev EXCEPT ![t] = Severity[a]]
           /\ \E ttl \in CASE sevTtl[t] = 0 -> {Window}
                           [] sevTtl[t] = 1 -> {1, Window}
                           [] OTHER         -> {sevTtl[t]} :
                sevTtl' = [sevTtl EXCEPT ![t] = ttl]
      ELSE UNCHANGED <<maxSev, sevTtl>>

\* CORRELATE_LUA for an id it has not seen
Correlate(a) ==
  /\ a \notin Seen
  /\ runs[a] < MaxRuns
  /\ runs' = [runs EXCEPT ![a] = @ + 1]
  /\ score' = Remember(a)
  /\ list' = ListWith(a)
  /\ count' = count + 1
  /\ seenTtl' = Started(seenTtl)
  /\ listTtl' = Started(listTtl)
  /\ countTtl' = Started(countTtl)
  /\ Escalate(a)
  /\ age' = [age EXCEPT ![a] = 0]
  /\ outcome' = CASE Incident(a) -> "raised"
                  [] ~Incident(a) /\ Candidate(a) /\ outcome = "none" -> "considered"
                  [] OTHER -> outcome

\* CORRELATE_LUA for an id it has seen: {0, 0, {}}
Duplicate(a) == a \in Seen /\ UNCHANGED vars

\* Fault: the counter is decremented whether or not lrem removed anything.
AlwaysCountedOut(a) == IF count > 0 THEN count - 1 ELSE 0

\* Fault: the counter may fall below zero.
CountedBelowZero(a) == count - 1

\* The counter after a rollback: lowered if lrem removed the alert
CountedOut(a) == IF a \in Evidence /\ count > 0 THEN count - 1 ELSE count

\* ROLLBACK_LUA; a key whose last element goes is gone
Rollback(a) ==
  LET t == Threat[a]
  IN  /\ score' = [score EXCEPT ![a] = Absent]
      /\ seenTtl' = IF Seen \subseteq {a} THEN 0 ELSE seenTtl
      /\ list' = RemoveFirst(list, a)
      /\ listTtl' = IF Len(RemoveFirst(list, a)) = 0 THEN 0 ELSE listTtl
      /\ count' = CountedOut(a)
      /\ countTtl' = IF CountedOut(a) = 0 THEN 0 ELSE countTtl
      /\ maxSev' = [maxSev EXCEPT ![t] = 0]
      /\ sevTtl' = [sevTtl EXCEPT ![t] = 0]
      /\ outcome' = IF Len(RemoveFirst(list, a)) = 0 THEN "none" ELSE outcome
      /\ UNCHANGED <<runs, age>>

Left(ttl) == IF ttl > 0 THEN ttl - 1 ELSE 0

\* Time passes, and what has lived for Window ticks expires.
Tick ==
  /\ seenTtl' = Left(seenTtl)
  /\ listTtl' = Left(listTtl)
  /\ countTtl' = Left(countTtl)
  /\ sevTtl' = [t \in Threats |-> Left(sevTtl[t])]
  /\ score' = IF seenTtl <= 1 THEN [a \in Alerts |-> Absent] ELSE score
  /\ list' = IF listTtl <= 1 THEN <<>> ELSE list
  /\ count' = IF countTtl <= 1 THEN 0 ELSE count
  /\ maxSev' = [t \in Threats |-> IF sevTtl[t] <= 1 THEN 0 ELSE maxSev[t]]
  /\ age' = [a \in Alerts |-> IF a \in Evidence /\ listTtl > 1
                              THEN age[a] + 1 ELSE 0]
  /\ outcome' = IF listTtl <= 1 THEN "none" ELSE outcome
  /\ UNCHANGED runs

Next ==
  \/ \E a \in Alerts : Correlate(a) \/ Rollback(a)
  \/ Tick

Spec == Init /\ [][Next]_vars

-----------------------------------------------------------------------------
TypeOK ==
  /\ score \in [Alerts -> Nat \cup {Absent}]
  /\ list \in Seq(Alerts)
  /\ count \in Nat
  /\ maxSev \in [Threats -> {0, 25, 50, 75, 100}]
  /\ seenTtl \in 0 .. Window /\ listTtl \in 0 .. Window
  /\ countTtl \in 0 .. Window /\ sevTtl \in [Threats -> 0 .. Window]
  /\ runs \in [Alerts -> 0 .. MaxRuns]
  /\ age \in [Alerts -> Nat]
  /\ outcome \in {"none", "considered", "raised"}

\* An instance whose caps are never reached
Roomy == Cardinality(Alerts) <= MaxList /\ Cardinality(Alerts) <= MaxSeen

\* While no cap is reached the three keys of a source IP agree, whatever was
\* rolled back, once or more often, before or after it was correlated: the
\* counter is the number of alerts in the list, the ids in the list are the
\* ids seen, each is there once, and all three keys expire together.
KeysAgree ==
  Roomy =>
    /\ count = Len(list)
    /\ IsInjective(list)
    /\ Evidence = Seen
    /\ seenTtl = listTtl /\ countTtl = listTtl

\* The window slides by expiry only and is never extended: no alert is used
\* as evidence longer than Window after it was pushed.
EvidenceIsFresh == \A a \in Evidence : age[a] + listTtl <= Window

\* Two alerts of one source within the window were looked at together, even
\* if others were rolled back in between (CORRELATE_LUA, total_count == 2).
PairConsidered == Roomy /\ Len(list) >= 2 => outcome # "none"

\* The caps hold (MAX_SEEN, ltrim 0 99).
CapsHold == Cardinality(Seen) <= MaxSeen /\ Len(list) <= MaxList
=============================================================================
