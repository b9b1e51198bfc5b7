-------------------------- MODULE AlertEmitterProofs --------------------------
(***************************************************************************)
(* Proofs about AlertEmitter and the Correlator it extends.                *)
(*                                                                         *)
(* The keys of Correlator have their types, the window is never extended,  *)
(* and, as long as no cap is reached, the counter, the list and the set of *)
(* seen ids agree whatever is correlated and rolled back.  Whatever fails, *)
(* times out or crashes, the emitter changes Redis by the scripts alone,   *)
(* Redis knows published alerts only, and a detection that has been dealt  *)
(* with is published or dead-lettered, its incident too.                   *)
(***************************************************************************)
EXTENDS AlertEmitter, FunctionTheorems, FiniteSetTheorems, SequenceTheorems,
        WellFoundedInduction, TLAPS

-----------------------------------------------------------------------------
(* The operators on the window list *)

\* The smaller of two numbers
LEMMA MinOfTwo ==
  ASSUME NEW x \in Int, NEW y \in Int
  PROVE  Min({x, y}) = IF x <= y THEN x ELSE y
BY DEF Min

\* ListWith puts the alert in front and drops what is beyond the cap.
LEMMA ListWithFacts ==
  ASSUME NEW a \in Alerts, list \in Seq(Alerts)
  PROVE  /\ ListWith(a) \in Seq(Alerts)
         /\ Len(ListWith(a)) = IF MaxList <= Len(list) + 1 THEN MaxList
                               ELSE Len(list) + 1
         /\ ListWith(a)[1] = a
         /\ \A i \in 2 .. Len(ListWith(a)) : ListWith(a)[i] = list[i - 1]
<1> DEFINE n == Min({MaxList, Len(list) + 1})
           s == <<a>> \o list
<1>1. Len(list) \in Nat /\ MaxList \in Nat \ {0}
  BY LenProperties, SizeAssumption
<1>2. /\ n \in Nat \ {0} /\ n <= Len(list) + 1
      /\ n = IF MaxList <= Len(list) + 1 THEN MaxList ELSE Len(list) + 1
  BY <1>1, MinOfTwo
<1>3. <<a>> \in Seq(Alerts) /\ Len(<<a>>) = 1 /\ <<a>>[1] = a
  OBVIOUS
<1>4. /\ s \in Seq(Alerts) /\ Len(s) = Len(list) + 1
      /\ \A i \in 1 .. Len(list) + 1 : s[i] = IF i = 1 THEN a ELSE list[i - 1]
  <2>1. /\ s \in Seq(Alerts) /\ Len(s) = 1 + Len(list)
        /\ \A i \in 1 .. 1 + Len(list) :
             s[i] = IF i <= 1 THEN <<a>>[i] ELSE list[i - 1]
    BY <1>3, ConcatProperties
  <2> QED BY <1>1, <1>3, <2>1
<1>5. \A i \in 1 .. n : s[i] \in Alerts
  BY <1>1, <1>2, <1>4, ElementOfSeq
<1>6. /\ SubSeq(s, 1, n) \in Seq(Alerts) /\ Len(SubSeq(s, 1, n)) = n
      /\ \A i \in 1 .. n : SubSeq(s, 1, n)[i] = s[i]
  <2> HIDE DEF s, n
  <2> QED BY <1>2, <1>5, SubSeqProperties
<1>7. ListWith(a) = SubSeq(s, 1, n)
  BY DEF ListWith
<1> HIDE DEF s, n
<1> QED BY <1>1, <1>2, <1>4, <1>6, <1>7

\* RemoveFirst takes out one occurrence and nothing else.
LEMMA RemoveFirstFacts ==
  ASSUME NEW s \in Seq(Alerts), NEW a \in Alerts
  PROVE  /\ RemoveFirst(s, a) \in Seq(Alerts)
         /\ Range(RemoveFirst(s, a)) \subseteq Range(s)
         /\ Len(RemoveFirst(s, a)) <= Len(s)
         /\ a \notin Range(s) => RemoveFirst(s, a) = s
         /\ a \in Range(s) /\ IsInjective(s) =>
              /\ Len(RemoveFirst(s, a)) = Len(s) - 1
              /\ IsInjective(RemoveFirst(s, a))
              /\ Range(RemoveFirst(s, a)) = Range(s) \ {a}
<1>0. Len(s) \in Nat /\ s \in [1 .. Len(s) -> Alerts] /\ DOMAIN s = 1 .. Len(s)
  BY LenProperties
<1>1. CASE a \notin Range(s)
  <2>1. RemoveFirst(s, a) = s
    BY <1>0, <1>1 DEF RemoveFirst, Range
  <2>2. Len(RemoveFirst(s, a)) <= Len(s)
    BY <1>0, <2>1
  <2> QED BY <1>1, <2>1, <2>2, Zenon
<1>2. CASE a \in Range(s)
  <2> DEFINE I == {i \in 1 .. Len(s) : s[i] = a}
             k == Min(I)
             t == SubSeq(s, 1, k - 1)
             u == SubSeq(s, k + 1, Len(s))
             r == t \o u
  <2>1. \E i \in 1 .. Len(s) : s[i] = a
    BY <1>0, <1>2 DEF Range
  <2>2. k \in 1 .. Len(s) /\ s[k] = a
    <3>1. I \subseteq Nat /\ I # {}
      BY <1>0, <2>1
    <3>2. PICK m \in I : \A i \in I : ~(<<i, m>> \in OpToRel(<, Nat))
      BY <3>1, NatLessThanWellFounded, WFMin
    <3>3. ASSUME NEW i \in I PROVE m <= i
      <4>1. i \in Nat /\ m \in Nat
        BY <3>1
      <4>2. ~(i < m)
        BY <3>2, <4>1 DEF OpToRel
      <4> QED BY <4>1, <4>2
    <3>4. k \in I
      BY <3>3 DEF Min
    <3> QED BY <3>4
  <2>3. RemoveFirst(s, a) = r
    BY <2>1, <2>2 DEF RemoveFirst, RemoveAt, SelectInSeq
  <2> HIDE DEF I, k
  <2>4. /\ t \in Seq(Alerts) /\ Len(t) = k - 1
        /\ \A i \in 1 .. k - 1 : t[i] = s[i]
    <3>1. /\ SubSeq(s, 1, k - 1) \in Seq(Alerts)
          /\ Len(SubSeq(s, 1, k - 1)) = IF 1 <= k - 1 THEN k - 1 - 1 + 1 ELSE 0
          /\ \A i \in 1 .. k - 1 - 1 + 1 : SubSeq(s, 1, k - 1)[i] = s[1 + i - 1]
      <4>1. \A i \in 1 .. k - 1 : s[i] \in Alerts
        BY <1>0, <2>2
      <4>2. 1 \in Int /\ k - 1 \in Int
        BY <1>0, <2>2
      <4> QED BY <4>1, <4>2, SubSeqProperties
    <3> QED BY <1>0, <2>2, <3>1
  <2>5. /\ u \in Seq(Alerts) /\ Len(u) = Len(s) - k
        /\ \A i \in 1 .. Len(s) - k : u[i] = s[k + i]
    <3>1. /\ SubSeq(s, k + 1, Len(s)) \in Seq(Alerts)
          /\ Len(SubSeq(s, k + 1, Len(s))) =
               IF k + 1 <= Len(s) THEN Len(s) - (k + 1) + 1 ELSE 0
          /\ \A i \in 1 .. Len(s) - (k + 1) + 1 :
               SubSeq(s, k + 1, Len(s))[i] = s[(k + 1) + i - 1]
      <4>1. \A i \in k + 1 .. Len(s) : s[i] \in Alerts
        BY <1>0, <2>2
      <4>2. k + 1 \in Int /\ Len(s) \in Int
        BY <1>0, <2>2
      <4> QED BY <4>1, <4>2, SubSeqProperties
    <3>2. k \in Int /\ k <= Len(s) /\ Len(s) \in Int
      BY <1>0, <2>2
    <3>3. Len(s) - (k + 1) + 1 = Len(s) - k
      BY <3>2
    <3>4. ~(k + 1 <= Len(s)) => Len(s) - k = 0
      BY <3>2
    <3>5. \A i \in 1 .. Len(s) - k : (k + 1) + i - 1 = k + i
      BY <3>2
    <3>6. Len(u) = Len(s) - k
      BY <3>1, <3>3, <3>4
    <3>7. \A i \in 1 .. Len(s) - k : u[i] = s[k + i]
      BY <3>1, <3>3, <3>5
    <3> QED BY <3>1, <3>6, <3>7
  <2> HIDE DEF t, u
  <2>6. /\ r \in Seq(Alerts) /\ Len(r) = Len(s) - 1
        /\ \A i \in 1 .. Len(s) - 1 : r[i] = IF i < k THEN s[i] ELSE s[i + 1]
    <3>1. /\ r \in Seq(Alerts) /\ Len(r) = Len(t) + Len(u)
          /\ \A i \in 1 .. Len(t) + Len(u) :
               r[i] = IF i <= Len(t) THEN t[i] ELSE u[i - Len(t)]
      BY <2>4, <2>5, ConcatProperties
    <3> QED BY <1>0, <2>2, <2>4, <2>5, <3>1
  <2> HIDE DEF r
  <2>7. DOMAIN r = 1 .. Len(s) - 1
    BY <2>6, LenProperties
  <2>8. Range(r) \subseteq Range(s)
    BY <1>0, <2>2, <2>6, <2>7 DEF Range
  <2>9. ASSUME IsInjective(s)
        PROVE  IsInjective(r) /\ Range(r) = Range(s) \ {a}
    <3>1. \A i, j \in 1 .. Len(s) : s[i] = s[j] => i = j
      BY <1>0, <2>9 DEF IsInjective
    <3>2. IsInjective(r)
      BY <1>0, <2>2, <2>6, <2>7, <3>1 DEF IsInjective
    <3>3. a \notin Range(r)
      <4> SUFFICES ASSUME NEW i \in 1 .. Len(s) - 1 PROVE r[i] # a
        BY <2>7 DEF Range
      <4> QED BY <1>0, <2>2, <2>6, <3>1
    <3>4. ASSUME NEW b \in Range(s), b # a PROVE b \in Range(r)
      <4>1. PICK j \in 1 .. Len(s) : s[j] = b
        BY <1>0 DEF Range
      <4>2. CASE j < k
        <5>1. j \in 1 .. Len(s) - 1 /\ r[j] = b
          BY <1>0, <2>2, <2>6, <4>1, <4>2
        <5> QED BY <2>7, <5>1 DEF Range
      <4>3. CASE j > k
        <5>1. j - 1 \in 1 .. Len(s) - 1 /\ r[j - 1] = b
          BY <1>0, <2>2, <2>6, <4>1, <4>3
        <5> QED BY <2>7, <5>1 DEF Range
      <4> QED BY <1>0, <2>2, <3>4, <4>1, <4>2, <4>3
    <3> QED BY <2>8, <3>2, <3>3, <3>4
  <2> QED BY <1>0, <1>2, <2>3, <2>6, <2>8, <2>9
<1> QED BY <1>1, <1>2

\* A list without repetitions is no longer than the set it draws from.
LEMMA InjectiveLength ==
  ASSUME NEW s \in Seq(Alerts), IsInjective(s),
         NEW a \in Alerts, a \notin Range(s)
  PROVE  Len(s) + 1 <= Cardinality(Alerts)
<1>1. Len(s) \in Nat /\ s \in [1 .. Len(s) -> Alerts \ {a}]
  BY LenProperties DEF Range
<1>2. s \in Injection(1 .. Len(s), Alerts \ {a})
  <2>1. \A i, j \in 1 .. Len(s) : s[i] = s[j] => i = j
    BY <1>1 DEF IsInjective
  <2> QED BY <1>1, <2>1, Fun_IsInj
<1>3. /\ IsFiniteSet(Alerts \ {a})
      /\ Cardinality(Alerts \ {a}) = Cardinality(Alerts) - 1
      /\ Cardinality(Alerts) \in Nat
  BY AlertAssumption, FS_RemoveElement, FS_CardinalityType
<1>4. Cardinality(1 .. Len(s)) <= Cardinality(Alerts \ {a})
  BY <1>2, <1>3, FS_Injection
<1>5. Cardinality(1 .. Len(s)) = Len(s)
  <2>1. Cardinality(1 .. Len(s)) = IF 1 > Len(s) THEN 0 ELSE Len(s) - 1 + 1
    BY <1>1, FS_Interval
  <2> QED BY <1>1, <2>1
<1> QED BY <1>1, <1>3, <1>4, <1>5

-----------------------------------------------------------------------------
(* Types *)

LEMMA SeenFacts ==
  /\ Seen \subseteq Alerts /\ IsFiniteSet(Seen) /\ Cardinality(Seen) \in Nat
  /\ Cardinality(Seen) <= Cardinality(Alerts)
<1>1. Seen \subseteq Alerts
  BY DEF Seen
<1> QED BY <1>1, AlertAssumption, FS_Subset, FS_CardinalityType

LEMMA RememberType ==
  ASSUME score \in [Alerts -> Nat \cup {Absent}], NEW a \in Alerts
  PROVE  Remember(a) \in [Alerts -> Nat \cup {Absent}]
<1>1. [score EXCEPT ![a] = Cardinality(Seen)] \in [Alerts -> Nat \cup {Absent}]
  BY SeenFacts
<1> QED BY <1>1 DEF Remember

\* An alert's threat class and severity have their types.
LEMMA AlertFacts ==
  ASSUME NEW a \in Alerts
  PROVE  Threat[a] \in Threats /\ Severity[a] \in {25, 50, 75, 100}
BY AlertAssumption

LEMMA StartedFacts ==
  ASSUME NEW ttl \in 0 .. Window
  PROVE  /\ Started(ttl) \in 1 .. Window
         /\ ttl # 0 => Started(ttl) = ttl
BY SizeAssumption DEF Started

LEMMA LeftFacts ==
  ASSUME NEW ttl \in 0 .. Window
  PROVE  /\ Left(ttl) \in 0 .. Window
         /\ ttl <= 1 => Left(ttl) = 0
         /\ ttl > 1 => Left(ttl) = ttl - 1
BY SizeAssumption DEF Left

LEMMA TypeInit == Init => TypeOK
<1> SUFFICES ASSUME Init PROVE TypeOK
  OBVIOUS
<1>1. 0 \in 0 .. Window /\ 0 \in 0 .. MaxRuns
  BY SizeAssumption
<1> QED BY <1>1 DEF Init, TypeOK

LEMMA TypeStep == TypeOK /\ [Next]_vars => TypeOK'
<1> SUFFICES ASSUME TypeOK, [Next]_vars PROVE TypeOK'
  OBVIOUS
<1> USE DEF TypeOK
<1>1. ASSUME NEW a \in Alerts, Correlate(a) PROVE TypeOK'
  <2>1. score' \in [Alerts -> Nat \cup {Absent}]
    BY <1>1, RememberType DEF Correlate
  <2>2. list' \in Seq(Alerts)
    BY <1>1, ListWithFacts DEF Correlate
  <2>3. count' \in Nat
    BY <1>1 DEF Correlate
  <2>4. seenTtl' \in 0 .. Window /\ listTtl' \in 0 .. Window /\ countTtl' \in 0 .. Window
    BY <1>1, StartedFacts DEF Correlate
  <2>5. maxSev' \in [Threats -> {0, 25, 50, 75, 100}] /\ sevTtl' \in [Threats -> 0 .. Window]
    <3>1. CASE Severity[a] > maxSev[Threat[a]]
      <4>1. maxSev' = [maxSev EXCEPT ![Threat[a]] = Severity[a]]
        BY <1>1, <3>1 DEF Correlate, Escalate
      <4>2. PICK ttl \in CASE sevTtl[Threat[a]] = 0 -> {Window}
                           [] sevTtl[Threat[a]] = 1 -> {1, Window}
                           [] OTHER -> {sevTtl[Threat[a]]} :
              sevTtl' = [sevTtl EXCEPT ![Threat[a]] = ttl]
        BY <1>1, <3>1 DEF Correlate, Escalate
      <4>3. ttl \in 0 .. Window
        BY <4>2, AlertFacts, SizeAssumption
      <4> QED BY <4>1, <4>2, <4>3, AlertFacts
    <3>2. CASE ~(Severity[a] > maxSev[Threat[a]])
      BY <1>1, <3>2 DEF Correlate, Escalate
    <3> QED BY <3>1, <3>2
  <2>6. runs' \in [Alerts -> 0 .. MaxRuns]
    BY <1>1, SizeAssumption DEF Correlate
  <2>7. age' \in [Alerts -> Nat]
    BY <1>1 DEF Correlate
  <2>8. outcome' \in {"none", "considered", "raised"}
    BY <1>1 DEF Correlate
  <2> QED BY <2>1, <2>2, <2>3, <2>4, <2>5, <2>6, <2>7, <2>8
<1>2. ASSUME NEW a \in Alerts, Rollback(a) PROVE TypeOK'
  <2>1. RemoveFirst(list, a) \in Seq(Alerts)
    BY RemoveFirstFacts
  <2>2. CountedOut(a) \in Nat
    BY DEF CountedOut
  <2>3. 0 \in 0 .. Window
    BY SizeAssumption
  <2>4. score' \in [Alerts -> Nat \cup {Absent}] /\ list' \in Seq(Alerts) /\ count' \in Nat
    BY <1>2, <2>1, <2>2 DEF Rollback
  <2>5. /\ seenTtl' \in 0 .. Window /\ listTtl' \in 0 .. Window
        /\ countTtl' \in 0 .. Window
    BY <1>2, <2>3 DEF Rollback
  <2>6. maxSev' \in [Threats -> {0, 25, 50, 75, 100}] /\ sevTtl' \in [Threats -> 0 .. Window]
    BY <1>2, <2>3 DEF Rollback
  <2>7. /\ runs' \in [Alerts -> 0 .. MaxRuns] /\ age' \in [Alerts -> Nat]
        /\ outcome' \in {"none", "considered", "raised"}
    BY <1>2 DEF Rollback
  <2> QED BY <2>4, <2>5, <2>6, <2>7
<1>3. CASE Tick
  <2>1. score' \in [Alerts -> Nat \cup {Absent}] /\ list' \in Seq(Alerts) /\ count' \in Nat
    BY <1>3 DEF Tick
  <2>2. /\ seenTtl' \in 0 .. Window /\ listTtl' \in 0 .. Window
        /\ countTtl' \in 0 .. Window
    BY <1>3, LeftFacts DEF Tick
  <2>3. sevTtl' \in [Threats -> 0 .. Window]
    BY <1>3, LeftFacts DEF Tick
  <2>4. maxSev' \in [Threats -> {0, 25, 50, 75, 100}]
    <3>1. maxSev' = [t \in Threats |-> IF sevTtl[t] <= 1 THEN 0 ELSE maxSev[t]]
      BY <1>3 DEF Tick
    <3>2. \A t \in Threats : maxSev[t] \in {0, 25, 50, 75, 100}
      OBVIOUS
    <3>. QED BY ONLY <3>1, <3>2
  <2>5. age' \in [Alerts -> Nat]
    <3>1. age' = [a \in Alerts |-> IF a \in Evidence /\ listTtl > 1 THEN age[a] + 1 ELSE 0]
      BY <1>3 DEF Tick
    <3>2. \A a \in Alerts : age[a] \in Nat
      OBVIOUS
    <3>. QED BY ONLY <3>1, <3>2
  <2>6. /\ runs' \in [Alerts -> 0 .. MaxRuns]
        /\ outcome' \in {"none", "considered", "raised"}
    BY <1>3 DEF Tick
  <2> QED BY <2>1, <2>2, <2>3, <2>4, <2>5, <2>6
<1>4. CASE UNCHANGED vars
  BY <1>4 DEF vars, redis
<1> QED BY <1>1, <1>2, <1>3, <1>4 DEF Next

\* Every key of a source IP has its type; in particular the counter never
\* becomes negative, however often an alert is rolled back.
THEOREM TypeCorrect == Spec => []TypeOK
<1> QED BY TypeInit, TypeStep, PTL DEF Spec

-----------------------------------------------------------------------------
(* The window *)

\* The list has a ttl exactly while it has alerts, and it is fresh.
WindowInv == (Len(list) = 0 <=> listTtl = 0) /\ EvidenceIsFresh

LEMMA WindowInit == Init => WindowInv
<1> SUFFICES ASSUME Init PROVE WindowInv
  OBVIOUS
<1>1. list = <<>> /\ listTtl = 0
  BY DEF Init
<1>2. Evidence = {}
  BY <1>1 DEF Evidence, Range
<1> QED BY <1>1, <1>2 DEF WindowInv, EvidenceIsFresh

LEMMA EvidenceOfList ==
  ASSUME NEW s \in Seq(Alerts)
  PROVE  /\ Range(s) = {s[i] : i \in 1 .. Len(s)}
         /\ Range(s) \subseteq Alerts
         /\ Range(s) = {} <=> Len(s) = 0
<1>1. Len(s) \in Nat /\ s \in [1 .. Len(s) -> Alerts] /\ DOMAIN s = 1 .. Len(s)
  BY LenProperties
<1>2. Range(s) = {s[i] : i \in 1 .. Len(s)}
  BY <1>1 DEF Range
<1>3. Len(s) = 0 => Range(s) = {}
  BY <1>1, <1>2
<1>4. Len(s) # 0 => s[1] \in Range(s)
  BY <1>1, <1>2
<1> QED BY <1>1, <1>2, <1>3, <1>4

\* Pushing an alert adds it to the evidence and nothing else.
LEMMA PushedEvidence ==
  ASSUME NEW a \in Alerts, list \in Seq(Alerts)
  PROVE  /\ Range(ListWith(a)) \subseteq Evidence \cup {a}
         /\ Len(ListWith(a)) # 0
         /\ Len(list) + 1 <= MaxList => Range(ListWith(a)) = Evidence \cup {a}
<1> DEFINE s == ListWith(a)
<1>1. /\ s \in Seq(Alerts) /\ s[1] = a
      /\ Len(s) = IF MaxList <= Len(list) + 1 THEN MaxList ELSE Len(list) + 1
      /\ \A i \in 2 .. Len(s) : s[i] = list[i - 1]
  BY ListWithFacts
<1> HIDE DEF s
<1>2. Len(list) \in Nat /\ MaxList \in Nat \ {0} /\ Len(s) \in Nat \ {0}
  BY <1>1, LenProperties, SizeAssumption
<1>3. Evidence = {list[i] : i \in 1 .. Len(list)}
  BY EvidenceOfList DEF Evidence
<1>4. Range(s) = {s[i] : i \in 1 .. Len(s)}
  BY <1>1, EvidenceOfList
<1>5. ASSUME NEW i \in 1 .. Len(s) PROVE s[i] \in Evidence \cup {a}
  <2>1. CASE i = 1
    BY <1>1, <2>1
  <2>2. CASE i # 1
    <3>1. i \in 2 .. Len(s) /\ i - 1 \in 1 .. Len(list)
      BY <1>1, <1>2, <2>2
    <3> QED BY <1>1, <1>3, <3>1
  <2> QED BY <2>1, <2>2
<1>6. ASSUME Len(list) + 1 <= MaxList, NEW b \in Evidence \cup {a}
      PROVE  b \in Range(s)
  <2>1. CASE b = a
    BY <1>1, <1>2, <1>4, <2>1
  <2>2. CASE b \in Evidence
    <3>1. PICK j \in 1 .. Len(list) : list[j] = b
      BY <1>3, <2>2
    <3>2. j + 1 \in 2 .. Len(s) /\ j + 1 \in 1 .. Len(s) /\ (j + 1) - 1 = j
      BY <1>1, <1>2, <1>6
    <3>3. s[j + 1] = b
      BY <1>1, <3>1, <3>2
    <3> QED BY <1>4, <3>2, <3>3
  <2> QED BY <1>6, <2>1, <2>2
<1>7. Range(s) \subseteq Evidence \cup {a}
  BY <1>4, <1>5
<1> QED BY <1>2, <1>6, <1>7 DEF s

LEMMA WindowStep == TypeOK /\ WindowInv /\ [Next]_vars => WindowInv'
<1> SUFFICES ASSUME TypeOK, WindowInv, [Next]_vars PROVE WindowInv'
  OBVIOUS
<1>1. /\ list \in Seq(Alerts) /\ Len(list) \in Nat /\ listTtl \in 0 .. Window
      /\ age \in [Alerts -> Nat] /\ Window \in Nat \ {0}
      /\ Evidence \subseteq Alerts /\ (Evidence = {} <=> Len(list) = 0)
  BY EvidenceOfList, LenProperties, SizeAssumption DEF TypeOK, Evidence
<1>2. ASSUME NEW a \in Alerts, Correlate(a) PROVE WindowInv'
  <2>1. /\ list' = ListWith(a) /\ listTtl' = Started(listTtl)
        /\ age' = [age EXCEPT ![a] = 0]
    BY <1>2 DEF Correlate
  <2>2. Len(list') # 0 /\ listTtl' \in 1 .. Window
    BY <1>1, <2>1, PushedEvidence, StartedFacts
  <2>3. ASSUME NEW b \in Evidence' PROVE age'[b] + listTtl' <= Window
    <3>1. b \in Evidence \cup {a}
      BY <1>1, <2>1, PushedEvidence DEF Evidence
    <3>2. CASE b = a
      BY <1>1, <2>1, <2>2, <3>2
    <3>3. CASE b # a
      <4>1. b \in Evidence /\ listTtl # 0 /\ age[b] + listTtl <= Window
        BY <1>1, <3>1, <3>3 DEF WindowInv, EvidenceIsFresh
      <4>2. age'[b] = age[b] /\ listTtl' = listTtl
        BY <1>1, <2>1, <3>3, <4>1, StartedFacts
      <4> QED BY <4>1, <4>2
    <3> QED BY <3>2, <3>3
  <2> QED BY <1>1, <2>2, <2>3 DEF WindowInv, EvidenceIsFresh
<1>3. ASSUME NEW a \in Alerts, Rollback(a) PROVE WindowInv'
  <2>1. /\ list' = RemoveFirst(list, a) /\ age' = age
        /\ listTtl' = IF Len(list') = 0 THEN 0 ELSE listTtl
    BY <1>3 DEF Rollback
  <2>2. /\ list' \in Seq(Alerts) /\ Len(list') \in Nat /\ Len(list') <= Len(list)
        /\ Evidence' \subseteq Evidence
    BY <1>1, <2>1, RemoveFirstFacts, LenProperties DEF Evidence
  <2>3. Evidence' = {} <=> Len(list') = 0
    BY <2>2, EvidenceOfList DEF Evidence
  <2>4. CASE Len(list') = 0
    BY <2>1, <2>3, <2>4 DEF WindowInv, EvidenceIsFresh
  <2>5. CASE Len(list') # 0
    <3>1. listTtl' = listTtl /\ listTtl # 0
      BY <1>1, <2>1, <2>2, <2>5 DEF WindowInv
    <3> QED BY <2>1, <2>2, <2>5, <3>1 DEF WindowInv, EvidenceIsFresh
  <2> QED BY <2>4, <2>5
<1>4. CASE Tick
  <2>1. /\ listTtl' = Left(listTtl)
        /\ list' = IF listTtl <= 1 THEN <<>> ELSE list
        /\ age' = [a \in Alerts |-> IF a \in Evidence /\ listTtl > 1
                                    THEN age[a] + 1 ELSE 0]
    BY <1>4 DEF Tick
  <2>2. CASE listTtl <= 1
    <3>1. list' = <<>> /\ listTtl' = 0
      BY <1>1, <2>1, <2>2, LeftFacts
    <3>2. Evidence' = {} /\ Len(list') = 0
      BY <3>1 DEF Evidence, Range
    <3> QED BY <3>1, <3>2 DEF WindowInv, EvidenceIsFresh
  <2>3. CASE listTtl > 1
    <3>1. list' = list /\ listTtl' = listTtl - 1 /\ Evidence' = Evidence
      BY <1>1, <2>1, <2>3, LeftFacts DEF Evidence
    <3>2. ASSUME NEW b \in Evidence PROVE age'[b] + listTtl' <= Window
      <4>1. b \in Alerts /\ age'[b] = age[b] + 1 /\ age[b] \in Nat
        BY <1>1, <2>1, <2>3
      <4>2. age[b] + listTtl <= Window
        BY DEF WindowInv, EvidenceIsFresh
      <4> QED BY <1>1, <3>1, <4>1, <4>2
    <3>3. Len(list') # 0 /\ listTtl' # 0
      BY <1>1, <2>3, <3>1 DEF WindowInv
    <3> QED BY <3>1, <3>2, <3>3 DEF WindowInv, EvidenceIsFresh
  <2> QED BY <1>1, <2>2, <2>3
<1>5. CASE UNCHANGED vars
  BY <1>5 DEF vars, redis, WindowInv, EvidenceIsFresh, Evidence
<1> QED BY <1>2, <1>3, <1>4, <1>5 DEF Next

\* The window slides by expiry only: no alert is evidence for longer than
\* Window, because no later alert extends the life of the list.
THEOREM FreshCorrect == Spec => []EvidenceIsFresh
<1>1. WindowInv => EvidenceIsFresh
  BY DEF WindowInv
<1> QED BY <1>1, TypeInit, TypeStep, WindowInit, WindowStep, PTL DEF Spec

-----------------------------------------------------------------------------
(* The keys of a source IP, while no cap is reached *)

\* What KeysAgree says of an instance whose caps are never reached, with the
\* life of the list, and that a window of two alerts was considered
KeysInv ==
  Roomy =>
    /\ count = Len(list) /\ IsInjective(list) /\ Evidence = Seen
    /\ seenTtl = listTtl /\ countTtl = listTtl
    /\ Len(list) = 0 <=> listTtl = 0
    /\ Len(list) >= 2 => outcome # "none"

LEMMA KeysInit == Init => KeysInv
<1> SUFFICES ASSUME Init PROVE KeysInv
  OBVIOUS
<1>1. /\ list = <<>> /\ count = 0 /\ listTtl = 0 /\ seenTtl = 0 /\ countTtl = 0
      /\ score = [a \in Alerts |-> Absent]
  BY DEF Init
<1>2. Evidence = {} /\ Seen = {} /\ IsInjective(list)
  BY <1>1 DEF Evidence, Range, Seen, IsInjective
<1> QED BY <1>1, <1>2 DEF KeysInv

\* Without eviction, zadd adds the alert to the set of ids seen.
LEMMA RememberedSeen ==
  ASSUME score \in [Alerts -> Nat \cup {Absent}], NEW a \in Alerts,
         Cardinality(Alerts) <= MaxSeen
  PROVE  {b \in Alerts : Remember(a)[b] # Absent} = Seen \cup {a}
<1>1. Cardinality(Seen \cup {a}) <= MaxSeen
  <2>1. Seen \cup {a} \subseteq Alerts
    BY SeenFacts
  <2>2. /\ Cardinality(Seen \cup {a}) <= Cardinality(Alerts)
        /\ Cardinality(Seen \cup {a}) \in Nat /\ Cardinality(Alerts) \in Nat
    BY <2>1, AlertAssumption, FS_Subset, FS_CardinalityType
  <2> QED BY <2>2, SizeAssumption
<1>2. Remember(a) = [score EXCEPT ![a] = Cardinality(Seen)]
  <2>1. /\ Cardinality(Seen \cup {a}) \in Nat /\ MaxSeen \in Nat
    BY SizeAssumption, SeenFacts, AlertAssumption, FS_AddElement, FS_CardinalityType
  <2>2. ~(Cardinality(Seen \cup {a}) > MaxSeen)
    BY <1>1, <2>1
  <2> QED BY <2>2 DEF Remember
<1>3. Cardinality(Seen) # Absent
  BY SeenFacts DEF Absent
<1> QED BY <1>2, <1>3 DEF Seen

\* Pushing a new alert in front keeps the list free of repetitions.
LEMMA PushedInjective ==
  ASSUME NEW a \in Alerts, list \in Seq(Alerts), IsInjective(list),
         a \notin Evidence
  PROVE  IsInjective(ListWith(a))
<1> DEFINE s == ListWith(a)
<1>1. /\ s \in Seq(Alerts) /\ s[1] = a
      /\ Len(s) = IF MaxList <= Len(list) + 1 THEN MaxList ELSE Len(list) + 1
      /\ \A i \in 2 .. Len(s) : s[i] = list[i - 1]
  BY ListWithFacts
<1> HIDE DEF s
<1>2. /\ Len(list) \in Nat /\ MaxList \in Nat \ {0} /\ Len(s) \in Nat
      /\ DOMAIN s = 1 .. Len(s) /\ DOMAIN list = 1 .. Len(list)
  BY <1>1, LenProperties, SizeAssumption
<1>3. \A i \in 2 .. Len(s) : i - 1 \in 1 .. Len(list)
  BY <1>1, <1>2
<1>4. \A i \in 2 .. Len(s) : s[i] # a
  BY <1>1, <1>2, <1>3 DEF Evidence, Range
<1>5. \A i, j \in 2 .. Len(s) : s[i] = s[j] => i = j
  <2> SUFFICES ASSUME NEW i \in 2 .. Len(s), NEW j \in 2 .. Len(s), s[i] = s[j]
               PROVE  i = j
    OBVIOUS
  <2>1. i - 1 = j - 1
    BY <1>1, <1>2, <1>3 DEF IsInjective
  <2> QED BY <1>2, <2>1
<1>6. IsInjective(s)
  <2> SUFFICES ASSUME NEW i \in 1 .. Len(s), NEW j \in 1 .. Len(s), s[i] = s[j]
               PROVE  i = j
    BY <1>2 DEF IsInjective
  <2>1. i = 1 \/ i \in 2 .. Len(s)
    BY <1>2
  <2>2. j = 1 \/ j \in 2 .. Len(s)
    BY <1>2
  <2> QED BY <1>1, <1>4, <1>5, <2>1, <2>2
<1> QED BY <1>6 DEF s

LEMMA KeysStep == TypeOK /\ KeysInv /\ [Next]_vars => KeysInv'
<1> SUFFICES ASSUME TypeOK, KeysInv, [Next]_vars, Roomy PROVE KeysInv'
  BY DEF KeysInv, Roomy
<1>1. /\ list \in Seq(Alerts) /\ Len(list) \in Nat
      /\ listTtl \in 0 .. Window /\ Window \in Nat \ {0}
      /\ score \in [Alerts -> Nat \cup {Absent}]
      /\ Evidence \subseteq Alerts /\ (Evidence = {} <=> Len(list) = 0)
      /\ Cardinality(Alerts) \in Nat /\ MaxList \in Nat \ {0} /\ MaxSeen \in Nat \ {0}
      /\ Cardinality(Alerts) <= MaxList /\ Cardinality(Alerts) <= MaxSeen
  BY EvidenceOfList, LenProperties, SizeAssumption, AlertAssumption, FS_CardinalityType
     DEF TypeOK, Evidence, Roomy
<1>2. /\ count = Len(list) /\ IsInjective(list) /\ Evidence = Seen
      /\ seenTtl = listTtl /\ countTtl = listTtl
      /\ Len(list) = 0 <=> listTtl = 0
      /\ Len(list) >= 2 => outcome # "none"
  BY DEF KeysInv
<1>3. ASSUME NEW a \in Alerts, Correlate(a) PROVE KeysInv'
  <2>1. /\ a \notin Seen /\ score' = Remember(a) /\ list' = ListWith(a)
        /\ count' = count + 1 /\ seenTtl' = Started(seenTtl)
        /\ listTtl' = Started(listTtl) /\ countTtl' = Started(countTtl)
    BY <1>3 DEF Correlate
  <2>2. Len(list) + 1 <= MaxList
    <3>1. a \notin Range(list)
      BY <1>2, <2>1 DEF Evidence
    <3>2. Len(list) + 1 <= Cardinality(Alerts)
      BY <1>1, <1>2, <3>1, InjectiveLength
    <3> QED BY <1>1, <3>2
  <2>3. Len(list') = Len(list) + 1
    BY <1>1, <2>1, <2>2, ListWithFacts
  <2>4. Evidence' = Evidence \cup {a}
    BY <1>1, <2>1, <2>2, PushedEvidence DEF Evidence
  <2>5. Seen' = Seen \cup {a}
    <3>1. Seen' = {b \in Alerts : Remember(a)[b] # Absent}
      BY <2>1 DEF Seen
    <3> QED BY <1>1, <3>1, RememberedSeen
  <2>6. IsInjective(list')
    BY <1>1, <1>2, <2>1, PushedInjective
  <2>7. listTtl' # 0
    BY <1>1, <2>1, StartedFacts
  <2>8. Len(list') >= 2 => outcome' # "none"
    <3> SUFFICES ASSUME Len(list') >= 2 PROVE outcome' # "none"
      OBVIOUS
    <3>1. outcome' = CASE Incident(a) -> "raised"
                       [] Candidate(a) /\ outcome = "none" -> "considered"
                       [] OTHER -> outcome
      BY <1>3 DEF Correlate
    <3>2. CASE count + 1 = 2
      <4>1. Candidate(a)
        BY <1>1, <1>2, <3>2 DEF Candidate
      <4> QED BY <3>1, <4>1
    <3>3. CASE count + 1 # 2
      <4>1. outcome # "none"
        BY <1>1, <1>2, <2>3, <3>3
      <4> QED BY <3>1, <4>1
    <3> QED BY <3>2, <3>3
  <2>9. /\ count' = Len(list') /\ Evidence' = Seen'
        /\ seenTtl' = listTtl' /\ countTtl' = listTtl'
        /\ (Len(list') = 0 <=> listTtl' = 0)
    BY <1>1, <1>2, <2>1, <2>3, <2>4, <2>5, <2>7
  <2> QED BY <2>6, <2>8, <2>9 DEF KeysInv
<1>4. ASSUME NEW a \in Alerts, Rollback(a) PROVE KeysInv'
  <2>1. /\ score' = [score EXCEPT ![a] = Absent]
        /\ seenTtl' = IF Seen \subseteq {a} THEN 0 ELSE seenTtl
        /\ list' = RemoveFirst(list, a)
        /\ listTtl' = IF Len(list') = 0 THEN 0 ELSE listTtl
        /\ count' = CountedOut(a)
        /\ countTtl' = IF CountedOut(a) = 0 THEN 0 ELSE countTtl
        /\ outcome' = IF Len(list') = 0 THEN "none" ELSE outcome
    BY <1>4 DEF Rollback
  <2>2. Seen' = Seen \ {a}
    BY <1>1, <2>1 DEF Seen
  <2>3. /\ list' \in Seq(Alerts) /\ Len(list') \in Nat /\ Len(list') <= Len(list)
        /\ Evidence' = Evidence \ {a} /\ IsInjective(list')
        /\ count' = Len(list')
    <3>1. CASE a \in Evidence
      <4>1. /\ list' \in Seq(Alerts) /\ Len(list') = Len(list) - 1
            /\ IsInjective(list') /\ Evidence' = Evidence \ {a}
        BY <1>1, <1>2, <2>1, <3>1, RemoveFirstFacts DEF Evidence
      <4>2. Len(list) # 0
        BY <1>1, <3>1
      <4>3. count' = count - 1
        BY <1>1, <1>2, <2>1, <3>1, <4>2 DEF CountedOut
      <4> QED BY <1>1, <1>2, <4>1, <4>2, <4>3
    <3>2. CASE a \notin Evidence
      <4>1. list' = list /\ count' = count
        BY <1>1, <2>1, <3>2, RemoveFirstFacts DEF Evidence, CountedOut
      <4>2. Evidence' = Evidence
        BY <4>1 DEF Evidence
      <4> QED BY <1>1, <1>2, <3>2, <4>1, <4>2
    <3> QED BY <3>1, <3>2
  <2>4. Evidence' = {} <=> Len(list') = 0
    BY <2>3, EvidenceOfList DEF Evidence
  <2>5. Seen \subseteq {a} <=> Len(list') = 0
    BY <1>2, <2>3, <2>4
  <2>6. seenTtl' = listTtl' /\ countTtl' = listTtl'
    BY <1>2, <2>1, <2>3, <2>5
  <2>7. Len(list') = 0 <=> listTtl' = 0
    BY <1>1, <1>2, <2>1, <2>3
  <2>8. Len(list') >= 2 => outcome' # "none"
    BY <1>1, <1>2, <2>1, <2>3
  <2>9. Evidence' = Seen'
    BY <1>2, <2>2, <2>3
  <2> QED BY <2>3, <2>6, <2>7, <2>8, <2>9 DEF KeysInv
<1>5. CASE Tick
  <2>1. /\ seenTtl' = Left(listTtl) /\ listTtl' = Left(listTtl)
        /\ countTtl' = Left(listTtl)
        /\ score' = IF listTtl <= 1 THEN [a \in Alerts |-> Absent] ELSE score
        /\ list' = IF listTtl <= 1 THEN <<>> ELSE list
        /\ count' = IF listTtl <= 1 THEN 0 ELSE count
        /\ outcome' = IF listTtl <= 1 THEN "none" ELSE outcome
    BY <1>2, <1>5 DEF Tick
  <2>2. CASE listTtl <= 1
    <3>1. list' = <<>> /\ Len(list') = 0 /\ count' = 0 /\ listTtl' = 0
      BY <1>1, <2>1, <2>2, LeftFacts
    <3>2. Evidence' = {} /\ Seen' = {} /\ IsInjective(list')
      BY <2>1, <2>2, <3>1 DEF Evidence, Range, Seen, IsInjective
    <3> QED BY <2>1, <3>1, <3>2 DEF KeysInv
  <2>3. CASE listTtl > 1
    <3>1. /\ list' = list /\ count' = count /\ score' = score /\ outcome' = outcome
          /\ listTtl' = listTtl - 1 /\ seenTtl' = listTtl' /\ countTtl' = listTtl'
      BY <1>1, <2>1, <2>3, LeftFacts
    <3>2. Evidence' = Evidence /\ Seen' = Seen
      BY <3>1 DEF Evidence, Seen
    <3> QED BY <1>1, <1>2, <2>3, <3>1, <3>2 DEF KeysInv
  <2> QED BY <1>1, <2>2, <2>3
<1>6. CASE UNCHANGED vars
  BY <1>2, <1>6 DEF vars, redis, KeysInv, Evidence, Seen
<1> QED BY <1>3, <1>4, <1>5, <1>6 DEF Next

\* While no cap is reached, correlating and rolling back in any order and any
\* number of times keeps the counter, the list and the ids seen in agreement.
THEOREM KeysCorrect == Spec => []KeysAgree
<1>1. KeysInv => KeysAgree
  BY DEF KeysInv, KeysAgree
<1> QED BY <1>1, TypeInit, TypeStep, KeysInit, KeysStep, PTL DEF Spec

\* Two alerts that are in the window of a source together were considered
\* for an incident, whatever was rolled back between them.
THEOREM PairCorrect == Spec => []PairConsidered
<1>1. KeysInv => PairConsidered
  BY DEF KeysInv, PairConsidered
<1> QED BY <1>1, TypeInit, TypeStep, KeysInit, KeysStep, PTL DEF Spec

-----------------------------------------------------------------------------
(* The caps *)

LEMMA LeastNumber ==
  ASSUME NEW S, S \subseteq Nat, S # {}
  PROVE  \E m \in S : \A i \in S : m <= i
<1>1. PICK m \in S : \A i \in S : ~(<<i, m>> \in OpToRel(<, Nat))
  BY NatLessThanWellFounded, WFMin
<1>2. ASSUME NEW i \in S PROVE m <= i
  <2>1. i \in Nat /\ m \in Nat
    OBVIOUS
  <2>2. ~(i < m)
    BY <1>1, <2>1 DEF OpToRel
  <2> QED BY <2>1, <2>2
<1> QED BY <1>2

\* The eviction of a nonempty set finds one of its members.
LEMMA LowestRankedFacts ==
  ASSUME NEW f \in [Alerts -> Nat \cup {Absent}], \E b \in Alerts : f[b] # Absent
  PROVE  LowestRanked(f) \in Alerts /\ f[LowestRanked(f)] # Absent
<1> DEFINE S == {f[b] : b \in {c \in Alerts : f[c] # Absent}}
<1>1. S \subseteq Nat /\ S # {}
  OBVIOUS
<1>2. PICK m \in S : \A i \in S : m <= i
  BY <1>1, LeastNumber
<1> DEFINE T == {b \in Alerts : f[b] = m}
<1>3. T \subseteq Nat /\ T # {} /\ m # Absent /\ m \in Nat
  BY <1>1, AlertAssumption DEF Absent
<1>4. PICK a \in T : \A b \in T : a <= b
  BY <1>3, LeastNumber
<1>5. ASSUME NEW b \in Alerts, f[b] # Absent
      PROVE  f[a] < f[b] \/ (f[a] = f[b] /\ a <= b)
  <2>1. f[b] \in S /\ f[b] \in Nat /\ f[a] = m
    BY <1>5
  <2>2. m <= f[b]
    BY <1>2, <2>1
  <2>3. f[b] = m => a <= b
    BY <1>4
  <2> QED BY <1>3, <2>1, <2>2, <2>3
<1>6. a \in Alerts /\ f[a] # Absent
  BY <1>3
<1> QED BY <1>5, <1>6 DEF LowestRanked

\* The number of ids remembered after CORRELATE_LUA is within the cap.
LEMMA RememberedWithinCap ==
  ASSUME score \in [Alerts -> Nat \cup {Absent}], NEW a \in Alerts,
         Cardinality(Seen) <= MaxSeen
  PROVE  Cardinality({b \in Alerts : Remember(a)[b] # Absent}) <= MaxSeen
<1> DEFINE added == [score EXCEPT ![a] = Cardinality(Seen)]
           S == {b \in Alerts : added[b] # Absent}
<1>1. added \in [Alerts -> Nat \cup {Absent}] /\ added[a] # Absent
  BY SeenFacts DEF Absent
<1>2. S = Seen \cup {a}
  BY SeenFacts DEF Seen, Absent
<1>3. /\ IsFiniteSet(S) /\ Cardinality(S) \in Nat
      /\ Cardinality(S) <= Cardinality(Seen) + 1
      /\ Cardinality(Seen) \in Nat /\ MaxSeen \in Nat
  <2>1. /\ IsFiniteSet(Seen \cup {a}) /\ Cardinality(Seen) \in Nat
        /\ Cardinality(Seen \cup {a}) = IF a \in Seen THEN Cardinality(Seen)
                                        ELSE Cardinality(Seen) + 1
    BY SeenFacts, FS_AddElement
  <2> QED BY <1>2, <2>1, SizeAssumption
<1>4. CASE Cardinality(Seen \cup {a}) > MaxSeen
  <2>1. Remember(a) = [added EXCEPT ![LowestRanked(added)] = Absent]
    BY <1>4 DEF Remember
  <2>2. LowestRanked(added) \in Alerts /\ added[LowestRanked(added)] # Absent
    <3> HIDE DEF added
    <3> QED BY <1>1, LowestRankedFacts
  <2> DEFINE x == LowestRanked(added)
  <2>3. x \in S /\ x \in Alerts
    BY <2>2
  <2>4. {b \in Alerts : Remember(a)[b] # Absent} = S \ {x}
    <3> HIDE DEF x
    <3>1. Remember(a) = [added EXCEPT ![x] = Absent]
      BY <2>1 DEF x
    <3> HIDE DEF added
    <3> QED BY <1>1, <2>3, <3>1
  <2>5. Cardinality(S \ {x}) = Cardinality(S) - 1
    <3> HIDE DEF S, x
    <3> QED BY <1>3, <2>3, FS_RemoveElement
  <2>6. Cardinality({b \in Alerts : Remember(a)[b] # Absent}) = Cardinality(S \ {x})
    BY <2>4, Zenon
  <2> HIDE DEF S, x
  <2>7. Cardinality(S \ {x}) <= MaxSeen
    BY <1>3, <2>5
  <2> QED BY <2>6, <2>7, Zenon
<1>5. CASE ~(Cardinality(Seen \cup {a}) > MaxSeen)
  <2>1. Remember(a) = added
    BY <1>5 DEF Remember
  <2>2. Cardinality({b \in Alerts : Remember(a)[b] # Absent}) = Cardinality(Seen \cup {a})
    BY <1>2, <2>1
  <2> HIDE DEF S, added
  <2> QED BY <1>2, <1>3, <1>5, <2>2
<1> QED BY <1>4, <1>5

\* However many alerts one source raises in a window, its two growing keys
\* keep to MAX_SEEN ids and 100 alerts.
THEOREM CapsCorrect == Spec => []CapsHold
<1>1. Init => CapsHold
  <2> SUFFICES ASSUME Init PROVE CapsHold
    OBVIOUS
  <2>1. Seen = {} /\ Len(list) = 0
    BY DEF Init, Seen
  <2> QED BY <2>1, SizeAssumption, FS_EmptySet DEF CapsHold
<1>2. TypeOK /\ CapsHold /\ [Next]_vars => CapsHold'
  <2> SUFFICES ASSUME TypeOK, CapsHold, [Next]_vars PROVE CapsHold'
    OBVIOUS
  <2>1. /\ list \in Seq(Alerts) /\ Len(list) \in Nat /\ Len(list) <= MaxList
        /\ score \in [Alerts -> Nat \cup {Absent}]
        /\ Cardinality(Seen) <= MaxSeen /\ Cardinality(Seen) \in Nat
        /\ MaxSeen \in Nat \ {0} /\ MaxList \in Nat \ {0}
    BY LenProperties, SizeAssumption, SeenFacts DEF TypeOK, CapsHold
  <2>2. ASSUME NEW a \in Alerts, Correlate(a) PROVE CapsHold'
    <3>1. Cardinality(Seen') <= MaxSeen
      <4>1. Seen' = {b \in Alerts : Remember(a)[b] # Absent}
        BY <2>2 DEF Correlate, Seen
      <4> QED BY <2>1, <4>1, RememberedWithinCap
    <3>2. Len(list') <= MaxList
      BY <2>1, <2>2, ListWithFacts DEF Correlate
    <3> QED BY <3>1, <3>2 DEF CapsHold
  <2>3. ASSUME Seen' \subseteq Seen PROVE Cardinality(Seen') <= MaxSeen
    <3>1. Cardinality(Seen') <= Cardinality(Seen) /\ Cardinality(Seen') \in Nat
      BY <2>3, SeenFacts, FS_Subset, FS_CardinalityType
    <3> QED BY <2>1, <3>1
  <2>4. ASSUME NEW a \in Alerts, Rollback(a) PROVE CapsHold'
    <3>1. Seen' \subseteq Seen
      BY <2>1, <2>4 DEF Rollback, Seen
    <3>2. /\ RemoveFirst(list, a) \in Seq(Alerts)
          /\ Len(RemoveFirst(list, a)) <= Len(list)
      BY <2>1, RemoveFirstFacts
    <3>3. Len(list') <= MaxList
      BY <2>1, <2>4, <3>2, LenProperties DEF Rollback
    <3> QED BY <2>3, <3>1, <3>3 DEF CapsHold
  <2>5. CASE Tick
    <3>1. Seen' \subseteq Seen
      BY <2>1, <2>5 DEF Tick, Seen
    <3>2. Len(list') <= MaxList
      BY <2>1, <2>5 DEF Tick
    <3> QED BY <2>3, <3>1, <3>2 DEF CapsHold
  <2>6. CASE UNCHANGED vars
    BY <2>1, <2>6 DEF vars, redis, CapsHold, Seen
  <2> QED BY <2>2, <2>4, <2>5, <2>6 DEF Next
<1> QED BY <1>1, <1>2, TypeInit, TypeStep, PTL DEF Spec

-----------------------------------------------------------------------------
(* The emitter uses the scripts *)

\* What a step of the emitter does to Redis: nothing, or one script, or time
\* passes.
LEMMA StepUsesScripts == [EmitterNext]_allVars => [Next]_vars
<1> SUFFICES ASSUME [EmitterNext]_allVars PROVE [Next]_vars
  OBVIOUS
<1>1. ASSUME NEW a \in Alerts, Coroutine(a) PROVE [Next]_vars
  <2>1. CASE Undo(a)
    BY <2>1 DEF Undo, Next
  <2>2. CASE ~Undo(a)
    BY <1>1, <2>2 DEF Coroutine, Validate, Published, PublishFailed, Answered,
       CorrelationRaised, CorrelationTimedOut, Reported, ReportFailed, DeadLetter
  <2> QED BY <2>1, <2>2
<1>2. ASSUME NEW a \in Alerts, Thread(a) PROVE [Next]_vars
  <2>1. Correlate(a) \/ Duplicate(a) \/ UNCHANGED vars
    BY <1>2 DEF Thread, Start, Skipped, Executed, ReplyLost, RedisDown
  <2> QED BY <2>1 DEF Next, Duplicate
<1>3. CASE LateDelivery \/ CrashWorker
  BY <1>3 DEF LateDelivery, CrashWorker
<1>4. CASE WindowTick
  BY <1>4 DEF WindowTick, Next
<1>5. CASE UNCHANGED allVars
  BY <1>5 DEF allVars
<1> QED BY <1>1, <1>2, <1>3, <1>4, <1>5 DEF EmitterNext

\* The coroutines and threads of the processor, with every failure of theirs,
\* implement Correlator: each step maps to a script or leaves Redis alone.
THEOREM EmitterUsesScripts == EmitterSpec => UsesScripts
<1>1. EmitterInit => Init
  BY DEF EmitterInit
<1> QED BY <1>1, StepUsesScripts, PTL DEF EmitterSpec, UsesScripts, Spec

\* The keys of a source IP agree in every behaviour of the emitter: with
\* timeouts, repeated scripts, late threads and crashed workers.
THEOREM EmitterKeysAgree == EmitterSpec => []KeysAgree
BY EmitterUsesScripts, KeysCorrect DEF UsesScripts

LEMMA EmitterCorrelatorType == EmitterSpec => []TypeOK
BY EmitterUsesScripts, TypeCorrect DEF UsesScripts

-----------------------------------------------------------------------------
(* Types *)

\* The evidence of an incident is a set of alerts.
LEMMA AnswerType ==
  ASSUME TypeOK, NEW a \in Alerts
  PROVE  Range(ListWith(a)) \in SUBSET Alerts
BY ListWithFacts, EvidenceOfList DEF TypeOK

\* A coroutine that is rolling back has a rollback left to make.
UndosLeft == \A a \in Alerts : step[a] = "undo" => undos[a] # 0

LEMMA EmitterTypeInit == EmitterInit => EmitterTypeOK /\ UndosLeft
BY EmitterAssumption DEF EmitterInit, EmitterTypeOK, Steps, Threads, UndosLeft

LEMMA EmitterTypeStep ==
  TypeOK /\ EmitterTypeOK /\ UndosLeft /\ [EmitterNext]_allVars => EmitterTypeOK'
<1> SUFFICES ASSUME TypeOK, EmitterTypeOK, UndosLeft, [EmitterNext]_allVars
             PROVE  EmitterTypeOK'
  OBVIOUS
<1> USE DEF EmitterTypeOK, Steps, Threads, At, Runs
<1>0. ASSUME NEW a \in Alerts
      PROVE  AlertMsg(a) \in Message /\ IncidentMsg(a) \in Message
  BY DEF AlertMsg, IncidentMsg, Message
<1>1. ASSUME NEW a \in Alerts, Coroutine(a) PROVE EmitterTypeOK'
  <2>1. CASE Validate(a)
    BY <2>1 DEF Validate
  <2>2. CASE Published(a)
    BY <2>2 DEF Published
  <2>3. CASE PublishFailed(a)
    BY <1>0, <2>3 DEF PublishFailed
  <2>4. CASE Answered(a)
    BY <2>4 DEF Answered
  <2>5. CASE CorrelationRaised(a)
    BY <2>5 DEF CorrelationRaised
  <2>6. CASE CorrelationTimedOut(a)
    BY <2>6 DEF CorrelationTimedOut
  <2>7. CASE Reported(a)
    BY <1>0, <2>7 DEF Reported
  <2>8. CASE ReportFailed(a)
    BY <1>0, <2>8 DEF ReportFailed
  <2>9. CASE Undo(a)
    BY <2>9 DEF Undo, UndosLeft
  <2>10. CASE DeadLetter(a)
    BY <2>10 DEF DeadLetter
  <2> QED BY <1>1, <2>1, <2>2, <2>3, <2>4, <2>5, <2>6, <2>7, <2>8, <2>9, <2>10
          DEF Coroutine
<1>2. ASSUME NEW a \in Alerts, Thread(a) PROVE EmitterTypeOK'
  <2>1. CASE Executed(a)
    <3>1. answer' \in [Alerts -> SUBSET Alerts]
      BY <2>1, AnswerType DEF Executed
    <3> QED BY <2>1, <3>1 DEF Executed
  <2>2. CASE Start(a) \/ Skipped(a) \/ ReplyLost(a) \/ RedisDown(a)
    BY <2>2 DEF Start, Skipped, ReplyLost, RedisDown
  <2> QED BY <1>2, <2>1, <2>2 DEF Thread
<1>3. CASE LateDelivery
  <2>1. PICK m \in unsettled :
          /\ unsettled' = unsettled \ {m}
          /\ IF m.kind = "alert"
             THEN topic' = topic \cup {m.by} /\ UNCHANGED incidents
             ELSE incidents' = incidents \cup {m} /\ UNCHANGED topic
    BY <1>3 DEF LateDelivery
  <2>2. m \in Message /\ m.by \in Alerts
    BY DEF Message
  <2> QED BY <1>3, <2>1, <2>2 DEF LateDelivery
<1>4. CASE CrashWorker
  BY <1>4, EmitterAssumption DEF CrashWorker
<1>5. CASE WindowTick \/ UNCHANGED allVars
  BY <1>5 DEF WindowTick, allVars, emitter
<1> QED BY <1>1, <1>2, <1>3, <1>4, <1>5 DEF EmitterNext

LEMMA UndosStep ==
  EmitterTypeOK /\ UndosLeft /\ [EmitterNext]_allVars => UndosLeft'
<1> SUFFICES ASSUME EmitterTypeOK, UndosLeft, [EmitterNext]_allVars, NEW b \in Alerts
             PROVE  (step[b] = "undo" => undos[b] # 0)'
  BY DEF UndosLeft
<1> USE DEF EmitterTypeOK, UndosLeft, At, Runs
<1>1. ASSUME NEW a \in Alerts, Coroutine(a) PROVE (step[b] = "undo" => undos[b] # 0)'
  <2>1. CASE Undo(a)
    BY <2>1 DEF Undo
  <2>2. CASE CorrelationTimedOut(a) \/ ReportFailed(a)
    BY <2>2 DEF CorrelationTimedOut, ReportFailed
  <2>3. CASE Validate(a) \/ Published(a) \/ PublishFailed(a) \/ Answered(a)
    BY <2>3 DEF Validate, Published, PublishFailed, Answered
  <2>4. CASE CorrelationRaised(a) \/ Reported(a) \/ DeadLetter(a)
    BY <2>4 DEF CorrelationRaised, Reported, DeadLetter
  <2> QED BY <1>1, <2>1, <2>2, <2>3, <2>4 DEF Coroutine
<1>2. ASSUME NEW a \in Alerts, Thread(a) PROVE UNCHANGED <<step, undos>>
  BY <1>2 DEF Thread, Start, Skipped, Executed, ReplyLost, RedisDown
<1>3. CASE CrashWorker
  BY <1>3 DEF CrashWorker
<1>4. CASE LateDelivery \/ WindowTick \/ UNCHANGED allVars
  BY <1>4 DEF LateDelivery, WindowTick, allVars, emitter
<1> QED BY <1>1, <1>2, <1>3, <1>4 DEF EmitterNext

\* Every variable of the emitter has its type; in particular no alert is ever
\* rolled back more often than was asked for.
THEOREM EmitterTypeCorrect == EmitterSpec => []EmitterTypeOK
BY EmitterCorrelatorType, EmitterTypeInit, EmitterTypeStep, UndosStep, PTL
   DEF EmitterSpec

-----------------------------------------------------------------------------
(* Redis knows published alerts only *)

\* A script adds at most the alert it was called with.
LEMMA ScriptAdds ==
  ASSUME TypeOK, NEW a \in Alerts, Correlate(a) \/ Duplicate(a)
  PROVE  Seen' \cup Evidence' \subseteq Seen \cup Evidence \cup {a}
<1>1. CASE Duplicate(a)
  BY <1>1 DEF Duplicate, vars, redis, Seen, Evidence
<1>2. CASE Correlate(a)
  <2>1. Evidence' \subseteq Evidence \cup {a}
    BY <1>2, PushedEvidence DEF Correlate, Evidence, TypeOK
  <2>2. Seen' \subseteq Seen \cup {a}
    <3>1. score' = Remember(a)
      BY <1>2 DEF Correlate
    <3>2. \A b \in Alerts \ {a} : score'[b] # Absent => score[b] # Absent
      BY <3>1 DEF Remember, TypeOK
    <3> QED BY <3>2 DEF Seen
  <2> QED BY <2>1, <2>2
<1> QED BY <1>1, <1>2

\* A rollback and the passing of time add nothing.
LEMMA OthersAddNothing ==
  ASSUME TypeOK, (\E a \in Alerts : Rollback(a)) \/ Tick \/ UNCHANGED vars
  PROVE  Seen' \cup Evidence' \subseteq Seen \cup Evidence
<1>1. ASSUME NEW a \in Alerts, Rollback(a)
      PROVE  Seen' \cup Evidence' \subseteq Seen \cup Evidence
  <2>1. Evidence' \subseteq Evidence
    BY <1>1, RemoveFirstFacts DEF Rollback, Evidence, TypeOK
  <2>2. Seen' \subseteq Seen
    BY <1>1 DEF Rollback, Seen, TypeOK
  <2> QED BY <2>1, <2>2
<1>2. CASE Tick
  <2>1. Evidence' \subseteq Evidence
    BY <1>2 DEF Tick, Evidence, Range
  <2>2. Seen' \subseteq Seen
    BY <1>2 DEF Tick, Seen, TypeOK
  <2> QED BY <2>1, <2>2
<1>3. CASE UNCHANGED vars
  BY <1>3 DEF vars, redis, Seen, Evidence
<1> QED BY <1>1, <1>2, <1>3

\* The answer of a script rests on what is known and on the alert itself.
LEMMA AnswerAdds ==
  ASSUME TypeOK, NEW a \in Alerts
  PROVE  Range(ListWith(a)) \subseteq Evidence \cup {a}
BY PushedEvidence DEF TypeOK

\* Where an alert is on its way to Redis, or back, it has been published.
Submitted(a) ==
  \/ step[a] \in {"correlate", "report"}
  \/ thread[a] \in {"queued", "running", "resending"}

\* Unpublished alerts are nowhere: not in Redis, not in an answer, not in an
\* incident, sent or yet to be delivered.
PublishedInv ==
  /\ \A a \in Alerts : Submitted(a) => a \in topic
  /\ Seen \cup Evidence \subseteq topic
  /\ \A a \in Alerts : answer[a] \subseteq topic
  /\ \A i \in incidents : i.evidence \subseteq topic
  /\ \A m \in unsettled : m.kind = "incident" => m.evidence \subseteq topic

LEMMA PublishedInit == EmitterInit => PublishedInv
<1> SUFFICES ASSUME EmitterInit PROVE PublishedInv
  OBVIOUS
<1>1. Seen = {} /\ Evidence = {}
  BY DEF EmitterInit, Init, Seen, Evidence, Range
<1> QED BY <1>1 DEF EmitterInit, PublishedInv, Submitted

LEMMA PublishedStep ==
  TypeOK /\ EmitterTypeOK /\ PublishedInv /\ [EmitterNext]_allVars => PublishedInv'
<1> SUFFICES ASSUME TypeOK, EmitterTypeOK, PublishedInv, [EmitterNext]_allVars
             PROVE  PublishedInv'
  OBVIOUS
<1> USE DEF EmitterTypeOK, At, Runs
<1>1. ASSUME NEW a \in Alerts, Coroutine(a) PROVE PublishedInv'
  <2>0. Seen' \cup Evidence' \subseteq Seen \cup Evidence
    <3>1. Rollback(a) \/ UNCHANGED vars
      BY <1>1 DEF Coroutine, Validate, Published, PublishFailed, Answered,
         CorrelationRaised, CorrelationTimedOut, Reported, ReportFailed,
         DeadLetter, Undo
    <3> QED BY <3>1, OthersAddNothing
  <2>1. CASE Published(a)
    <3>1. \A b \in Alerts : Submitted(b)' => b \in topic'
      BY <2>1 DEF Published, PublishedInv, Submitted
    <3> QED BY <2>0, <2>1, <3>1 DEF Published, PublishedInv
  <2>2. CASE PublishFailed(a)
    <3>1. \A b \in Alerts : Submitted(b)' => b \in topic'
      BY <2>2 DEF PublishFailed, PublishedInv, Submitted
    <3>2. \A m \in unsettled' : m.kind = "incident" => m.evidence \subseteq topic'
      BY <2>2 DEF PublishFailed, PublishedInv, AlertMsg
    <3> QED BY <2>0, <2>2, <3>1, <3>2 DEF PublishFailed, PublishedInv
  <2>3. CASE Reported(a)
    <3>1. \A b \in Alerts : Submitted(b)' => b \in topic'
      BY <2>3 DEF Reported, PublishedInv, Submitted
    <3>2. \A i \in incidents' : i.evidence \subseteq topic'
      BY <2>3 DEF Reported, PublishedInv, IncidentMsg
    <3> QED BY <2>0, <2>3, <3>1, <3>2 DEF Reported, PublishedInv
  <2>4. CASE ReportFailed(a)
    <3>1. \A b \in Alerts : Submitted(b)' => b \in topic'
      BY <2>4 DEF ReportFailed, PublishedInv, Submitted
    <3>2. \A m \in unsettled' : m.kind = "incident" => m.evidence \subseteq topic'
      BY <2>4 DEF ReportFailed, PublishedInv, IncidentMsg
    <3> QED BY <2>0, <2>4, <3>1, <3>2 DEF ReportFailed, PublishedInv
  <2>5. CASE \/ Validate(a) \/ Answered(a) \/ CorrelationRaised(a)
             \/ CorrelationTimedOut(a) \/ Undo(a) \/ DeadLetter(a)
    <3>1. UNCHANGED <<topic, incidents, unsettled, answer>>
      BY <2>5 DEF Validate, Answered, CorrelationRaised, CorrelationTimedOut,
         Undo, DeadLetter
    <3>2. \A b \in Alerts : Submitted(b)' => Submitted(b)
      BY <2>5 DEF Validate, Answered, CorrelationRaised, CorrelationTimedOut,
         Undo, DeadLetter, Submitted
    <3> QED BY <2>0, <3>1, <3>2 DEF PublishedInv
  <2> QED BY <1>1, <2>1, <2>2, <2>3, <2>4, <2>5 DEF Coroutine
<1>2. ASSUME NEW a \in Alerts, Thread(a) PROVE PublishedInv'
  <2>1. UNCHANGED <<topic, incidents, unsettled, step>>
    BY <1>2 DEF Thread, Start, Skipped, Executed, ReplyLost, RedisDown
  <2>2. a \in topic
    BY <1>2 DEF Thread, Start, Skipped, Executed, ReplyLost, RedisDown,
       PublishedInv, Submitted
  <2>3. \A b \in Alerts : Submitted(b)' => b \in topic
    BY <1>2, <2>2 DEF Thread, Start, Skipped, Executed, ReplyLost, RedisDown,
       PublishedInv, Submitted
  <2>4. Seen' \cup Evidence' \subseteq topic
    <3>1. Correlate(a) \/ Duplicate(a) \/ UNCHANGED vars
      BY <1>2 DEF Thread, Start, Skipped, Executed, ReplyLost, RedisDown
    <3>2. Seen' \cup Evidence' \subseteq Seen \cup Evidence \cup {a}
      BY <3>1, ScriptAdds, OthersAddNothing
    <3> QED BY <2>2, <3>2 DEF PublishedInv
  <2>5. \A b \in Alerts : answer'[b] \subseteq topic
    <3>1. Range(ListWith(a)) \subseteq topic
      BY <2>2, AnswerAdds DEF PublishedInv
    <3> QED BY <1>2, <3>1 DEF Thread, Start, Skipped, Executed, ReplyLost,
            RedisDown, PublishedInv
  <2> QED BY <2>1, <2>3, <2>4, <2>5 DEF PublishedInv
<1>3. CASE LateDelivery
  <2>1. PICK m \in unsettled :
          /\ unsettled' = unsettled \ {m}
          /\ IF m.kind = "alert"
             THEN topic' = topic \cup {m.by} /\ UNCHANGED incidents
             ELSE incidents' = incidents \cup {m} /\ UNCHANGED topic
    BY <1>3 DEF LateDelivery
  <2>2. m.kind \in {"alert", "incident"}
    BY DEF Message
  <2>3. UNCHANGED <<vars, step, thread, answer>>
    BY <1>3 DEF LateDelivery
  <2>4. topic \subseteq topic' /\ Seen' \cup Evidence' \subseteq Seen \cup Evidence
    BY <2>1, <2>3, OthersAddNothing
  <2>5. \A b \in Alerts : Submitted(b)' => Submitted(b)
    BY <2>3 DEF Submitted
  <2>6. \A i \in incidents' : i.evidence \subseteq topic'
    BY <2>1, <2>2, <2>4 DEF PublishedInv
  <2> QED BY <2>1, <2>3, <2>4, <2>5, <2>6 DEF PublishedInv
<1>4. CASE CrashWorker
  <2>1. UNCHANGED <<vars, topic, incidents, unsettled, answer>>
    BY <1>4 DEF CrashWorker
  <2>2. \A b \in Alerts : Submitted(b)' => Submitted(b)
    BY <1>4 DEF CrashWorker, Submitted
  <2> QED BY <2>1, <2>2, OthersAddNothing DEF PublishedInv
<1>5. CASE WindowTick \/ UNCHANGED allVars
  <2>1. Seen' \cup Evidence' \subseteq Seen \cup Evidence
    BY <1>5, OthersAddNothing DEF WindowTick, allVars
  <2>2. UNCHANGED emitter
    BY <1>5 DEF WindowTick, allVars
  <2> QED BY <2>1, <2>2 DEF emitter, PublishedInv, Submitted
<1> QED BY <1>1, <1>2, <1>3, <1>4, <1>5 DEF EmitterNext

\* What Redis knows and what an incident rests on can be read in the alerts
\* topic: the processor publishes before it correlates.
THEOREM PublishedCorrect == EmitterSpec => []CorrelatedIsPublished
<1>1. PublishedInv => CorrelatedIsPublished
  BY DEF PublishedInv, CorrelatedIsPublished
<1> QED BY <1>1, EmitterCorrelatorType, EmitterTypeCorrect, PublishedInit,
        PublishedStep, PTL DEF EmitterSpec

-----------------------------------------------------------------------------
(* Nothing is dropped *)

\* A detection that has been dealt with is dead-lettered, or it is published
\* and no thread of it can still answer with an incident nobody sends.
DoneInv ==
  \A a \in Alerts : step[a] = "done" =>
    \/ a \in dlq
    \/ /\ a \in topic
       /\ thread[a] \in {"returned", "idle"}
       /\ thread[a] = "returned" /\ answer[a] # {} => IncidentMsg(a) \in incidents

\* An incident is sent by a coroutine whose thread has returned.
ReportInv == \A a \in Alerts : step[a] = "report" => thread[a] = "returned"

LEMMA DoneInit == EmitterInit => DoneInv /\ ReportInv
BY DEF EmitterInit, DoneInv, ReportInv

LEMMA ReportStep ==
  EmitterTypeOK /\ ReportInv /\ [EmitterNext]_allVars => ReportInv'
<1> SUFFICES ASSUME EmitterTypeOK, ReportInv, [EmitterNext]_allVars,
                    NEW b \in Alerts, step'[b] = "report"
             PROVE  thread'[b] = "returned"
  BY DEF ReportInv
<1> USE DEF EmitterTypeOK, ReportInv, At, Runs
<1>1. ASSUME NEW a \in Alerts, Coroutine(a) PROVE thread'[b] = "returned"
  <2>1. CASE Answered(a)
    BY <2>1 DEF Answered
  <2>2. CASE Undo(a)
    BY <2>2 DEF Undo
  <2>3. CASE \/ Validate(a) \/ Published(a) \/ PublishFailed(a) \/ CorrelationRaised(a)
             \/ CorrelationTimedOut(a) \/ Reported(a) \/ ReportFailed(a) \/ DeadLetter(a)
    BY <2>3 DEF Validate, Published, PublishFailed, CorrelationRaised,
       CorrelationTimedOut, Reported, ReportFailed, DeadLetter
  <2> QED BY <1>1, <2>1, <2>2, <2>3 DEF Coroutine
<1>2. ASSUME NEW a \in Alerts, Thread(a) PROVE thread'[b] = "returned"
  BY <1>2 DEF Thread, Start, Skipped, Executed, ReplyLost, RedisDown
<1>3. CASE CrashWorker
  BY <1>3 DEF CrashWorker
<1>4. CASE LateDelivery \/ WindowTick \/ UNCHANGED allVars
  BY <1>4 DEF LateDelivery, WindowTick, allVars, emitter
<1> QED BY <1>1, <1>2, <1>3, <1>4 DEF EmitterNext

LEMMA DoneStep ==
  ASSUME ~DiskMayFail
  PROVE  EmitterTypeOK /\ PublishedInv /\ ReportInv /\ DoneInv /\ [EmitterNext]_allVars
           => DoneInv'
<1> SUFFICES ASSUME EmitterTypeOK, PublishedInv, ReportInv, DoneInv,
                    [EmitterNext]_allVars,
                    NEW b \in Alerts, step'[b] = "done"
             PROVE  \/ b \in dlq'
                    \/ /\ b \in topic'
                       /\ thread'[b] \in {"returned", "idle"}
                       /\ thread'[b] = "returned" /\ answer'[b] # {}
                            => IncidentMsg(b)' \in incidents'
  BY DEF DoneInv
<1> DEFINE Goal == \/ b \in dlq'
                   \/ /\ b \in topic'
                      /\ thread'[b] \in {"returned", "idle"}
                      /\ thread'[b] = "returned" /\ answer'[b] # {}
                           => IncidentMsg(b)' \in incidents'
<1> USE DEF EmitterTypeOK, At, Runs
<1>0. /\ step[b] = "done" => \/ b \in dlq
                             \/ /\ b \in topic
                                /\ thread[b] \in {"returned", "idle"}
                                /\ thread[b] = "returned" /\ answer[b] # {}
                                     => IncidentMsg(b) \in incidents
      /\ step[b] \in {"correlate", "report"} => b \in topic
  BY DEF DoneInv, PublishedInv, Submitted
\* Where nothing changes for b, and nothing is ever taken back
<1>1. ASSUME step[b] = "done", thread'[b] = thread[b], answer'[b] = answer[b],
             topic \subseteq topic', incidents \subseteq incidents',
             dlq \subseteq dlq'
      PROVE  Goal
  <2>1. IncidentMsg(b)' = IncidentMsg(b)
    BY <1>1 DEF IncidentMsg
  <2> QED BY <1>0, <1>1, <2>1
<1>2. ASSUME NEW a \in Alerts, Coroutine(a) PROVE Goal
  <2>0. /\ topic \subseteq topic' /\ incidents \subseteq incidents' /\ dlq \subseteq dlq'
        /\ UNCHANGED answer
        /\ a # b => thread'[b] = thread[b] /\ step'[b] = step[b]
    BY <1>2 DEF Coroutine, Validate, Published, PublishFailed, Answered,
       CorrelationRaised, CorrelationTimedOut, Reported, ReportFailed,
       DeadLetter, Undo
  <2>1. CASE a # b
    BY <1>1, <2>0, <2>1
  <2>2. CASE a = b
    <3>1. CASE Answered(b)
      BY <1>0, <3>1 DEF Answered
    <3>2. CASE Reported(b)
      <4>1. /\ step[b] = "report" /\ incidents' = incidents \cup {IncidentMsg(b)}
            /\ UNCHANGED <<topic, thread, answer>>
        BY <3>2 DEF Reported
      <4>2. IncidentMsg(b)' = IncidentMsg(b)
        BY <4>1 DEF IncidentMsg
      <4>3. thread[b] = "returned"
        BY <4>1 DEF ReportInv
      <4> QED BY <1>0, <4>1, <4>2, <4>3
    <3>3. CASE DeadLetter(b)
      BY <3>3 DEF DeadLetter
    <3>4. CASE \/ Validate(b) \/ Published(b) \/ PublishFailed(b)
               \/ CorrelationRaised(b) \/ CorrelationTimedOut(b)
               \/ ReportFailed(b) \/ Undo(b)
      <4>1. step'[b] # "done"
        BY <3>4 DEF Validate, Published, PublishFailed, CorrelationRaised,
           CorrelationTimedOut, ReportFailed, Undo
      <4> QED BY <4>1
    <3> QED BY <1>2, <2>2, <3>1, <3>2, <3>3, <3>4 DEF Coroutine
  <2> QED BY <2>1, <2>2
<1>3. ASSUME NEW a \in Alerts, Thread(a) PROVE Goal
  <2>1. /\ UNCHANGED <<topic, incidents, dlq, step>>
        /\ thread[a] \in {"queued", "running", "resending"}
        /\ a # b => thread'[b] = thread[b] /\ answer'[b] = answer[b]
    BY <1>3 DEF Thread, Start, Skipped, Executed, ReplyLost, RedisDown
  <2>2. CASE a # b
    BY <1>1, <2>1, <2>2
  <2>3. CASE a = b
    BY <1>0, <2>1, <2>3
  <2> QED BY <2>2, <2>3
<1>4. CASE LateDelivery
  <2>1. /\ topic \subseteq topic' /\ incidents \subseteq incidents'
        /\ UNCHANGED <<dlq, step, thread, answer>>
    BY <1>4 DEF LateDelivery
  <2> QED BY <1>1, <2>1
<1>5. CASE CrashWorker
  <2>1. /\ step[b] = "done" /\ thread'[b] = "idle" /\ UNCHANGED <<topic, dlq>>
    BY <1>5 DEF CrashWorker
  <2> QED BY <1>0, <2>1
<1>6. CASE WindowTick \/ UNCHANGED allVars
  <2>1. UNCHANGED emitter
    BY <1>6 DEF WindowTick, allVars
  <2> QED BY <1>1, <2>1 DEF emitter
<1> QED BY <1>2, <1>3, <1>4, <1>5, <1>6 DEF EmitterNext

LEMMA DoneCorrect == ASSUME ~DiskMayFail PROVE EmitterSpec => []DoneInv
<1>1. EmitterInit => EmitterTypeOK /\ PublishedInv /\ ReportInv /\ DoneInv
  BY EmitterTypeInit, PublishedInit, DoneInit
<1>2. EmitterTypeOK /\ PublishedInv /\ ReportInv /\ DoneInv /\ [EmitterNext]_allVars
        => DoneInv'
  BY DoneStep
<1> QED BY <1>1, <1>2, EmitterCorrelatorType, EmitterTypeCorrect, PublishedStep,
        ReportStep, PTL DEF EmitterSpec

\* As long as the local dead-letter file can be written, no detection is
\* dropped: it is in the alerts topic or dead-lettered when its coroutine ends.
THEOREM NothingDroppedCorrect ==
  ASSUME ~DiskMayFail PROVE EmitterSpec => []NothingDropped
<1>1. DoneInv => NothingDropped
  BY DEF DoneInv, NothingDropped
<1> QED BY <1>1, DoneCorrect, PTL

\* As long as the local dead-letter file can be written, an incident that was
\* built is published or its alert is dead-lettered.
THEOREM IncidentAccountedForCorrect ==
  ASSUME ~DiskMayFail PROVE EmitterSpec => []IncidentAccountedFor
<1>1. DoneInv => IncidentAccountedFor
  BY DEF DoneInv, IncidentAccountedFor
<1> QED BY <1>1, DoneCorrect, PTL
=============================================================================
