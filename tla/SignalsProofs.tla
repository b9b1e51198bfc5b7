---------------------------- MODULE SignalsProofs -----------------------------
(***************************************************************************)
(* Proofs about Signals: the keys of the DNS tracker are bounded and       *)
(* forgotten, its rates compare what belongs together, the windows of the  *)
(* connection tracker are complete, the tracker of the evaluations agrees  *)
(* with it, and the caches keep their promises whatever misses race.       *)
(***************************************************************************)
EXTENDS Signals, FiniteSetTheorems, SequenceTheorems, WellFoundedInduction, TLAPS

-----------------------------------------------------------------------------
(* Each instance has finite sets of its own: they are the same             *)

LEMMA SameFinite == \A S : D!IsFiniteSet(S) <=> IsFiniteSet(S)
BY DEF D!IsFiniteSet, IsFiniteSet

LEMMA SameCardinality ==
  \A S : /\ D!Cardinality(S) = Cardinality(S)
         /\ C!Cardinality(S) = Cardinality(S)
         /\ L!Cardinality(S) = Cardinality(S)
BY DEF D!Cardinality, C!Cardinality, L!Cardinality, Cardinality

-----------------------------------------------------------------------------
(* The DNS tracker                                                         *)

\* The threads that have added a domain and may not have removed one yet
Adding(threads) ==
  {t \in Threads : threads[t].pc \in {"expire", "card", "pop"}}

\* The shape of what a thread keeps
ThreadsOK ==
  thread \in [Threads ->
    [pc : {"idle", "expire", "card", "pop", "nx", "asked"},
     total : 0..MaxResponses, late : 0..MaxResponses, rate : 0..MaxResponses]]

\* The counter of NXDOMAIN answers is never ahead of that of all responses,
\* and never outlives it; a key that is gone counts nothing.
CountersOK ==
  /\ ttl \in [D!Keys -> 0..Window + 1]
  /\ ttl["total"] <= Window /\ ttl["nx"] <= ttl["total"]
  /\ nx \in 0..MaxResponses /\ total \in 0..MaxResponses /\ nx <= total
  /\ ttl["nx"] = 0 => nx = 0

\* A reader between its two reads has counted what came since the first one.
ReadersOK ==
  \A t \in Threads : D!At(t, "nx") => nx <= thread[t].total + thread[t].late

DnsInv ==
  /\ ThreadsOK /\ CountersOK /\ ReadersOK
  /\ domains \subseteq Names /\ IsFiniteSet(domains) /\ redisErrors \in Nat
  /\ Cardinality(domains) <= MaxTracked + redisErrors + Cardinality(Adding(thread))
  /\ D!ForgottenUnlessFailed /\ D!RateSound

\* The assumption, for the provers
LEMMA DnsConstants ==
  /\ MaxTracked \in Nat /\ Window \in Nat \ {0} /\ MaxResponses \in Nat
  /\ MaxRedisErrors \in Nat /\ IsFiniteSet(Threads)
<1>1. D!DnsAssumption
  BY SignalsAssumption
<1> QED BY <1>1, SameFinite DEF D!DnsAssumption

LEMMA DnsInit == D!Init => DnsInv
<1> SUFFICES ASSUME D!Init PROVE DnsInv
  OBVIOUS
<1> USE DnsConstants DEF D!Init
<1>1. ThreadsOK
  BY DEF ThreadsOK, D!Free
<1>2. CountersOK
  BY DEF CountersOK, D!Keys
<1>3. ReadersOK
  BY DEF ReadersOK, D!At, D!Free
<1>4. domains \subseteq Names /\ IsFiniteSet(domains) /\ redisErrors \in Nat
  BY FS_EmptySet
<1>5. IsFiniteSet(Adding(thread))
  BY FS_Subset DEF Adding
<1>6. Cardinality(domains) <= MaxTracked + redisErrors + Cardinality(Adding(thread))
  BY <1>5, FS_EmptySet, FS_CardinalityType
<1>7. D!ForgottenUnlessFailed
  BY DEF D!ForgottenUnlessFailed, D!Forever, D!Keys
<1>8. D!RateSound
  BY DEF D!RateSound, D!At, D!Free
<1> QED BY <1>1, <1>2, <1>3, <1>4, <1>6, <1>7, <1>8 DEF DnsInv

\* The threads that have added: one more, one less, or the same.
LEMMA AddingFacts ==
  ASSUME NEW before, NEW after, NEW t \in Threads,
         \A u \in Threads \ {t} : after[u].pc = before[u].pc
  PROVE  /\ IsFiniteSet(Adding(before)) /\ Cardinality(Adding(before)) \in Nat
         /\ IsFiniteSet(Adding(after)) /\ Cardinality(Adding(after)) \in Nat
         /\ t \notin Adding(before) /\ t \in Adding(after)
              => Cardinality(Adding(after)) = Cardinality(Adding(before)) + 1
         /\ t \in Adding(before) /\ t \notin Adding(after)
              => Cardinality(Adding(after)) = Cardinality(Adding(before)) - 1
         /\ (t \in Adding(before) <=> t \in Adding(after))
              => Adding(after) = Adding(before)
<1>1. IsFiniteSet(Adding(before)) /\ IsFiniteSet(Adding(after))
  BY DnsConstants, FS_Subset DEF Adding
<1>2. t \notin Adding(before) /\ t \in Adding(after)
        => Adding(after) = Adding(before) \cup {t}
  BY DEF Adding
<1>3. t \in Adding(before) /\ t \notin Adding(after)
        => Adding(after) = Adding(before) \ {t}
  BY DEF Adding
<1>4. (t \in Adding(before) <=> t \in Adding(after)) => Adding(after) = Adding(before)
  BY DEF Adding
<1>5. t \notin Adding(before) /\ t \in Adding(after)
        => Cardinality(Adding(after)) = Cardinality(Adding(before)) + 1
  BY <1>1, <1>2, FS_AddElement
<1>6. t \in Adding(before) /\ t \notin Adding(after)
        => Cardinality(Adding(after)) = Cardinality(Adding(before)) - 1
  BY <1>1, <1>3, FS_RemoveElement
<1> QED BY <1>1, <1>4, <1>5, <1>6, FS_CardinalityType

\* What a step that leaves the counters alone keeps
LEMMA CountersStay ==
  ASSUME CountersOK, nx' = nx, total' = total,
         ttl' \in [D!Keys -> 0..Window + 1],
         ttl'["total"] = ttl["total"], ttl'["nx"] = ttl["nx"]
  PROVE  CountersOK'
BY DEF CountersOK

\* One thread goes elsewhere: the others keep what they have.
LEMMA OneMoves ==
  ASSUME ThreadsOK, NEW t \in Threads, NEW r,
         r \in [pc : {"idle", "expire", "card", "pop", "nx", "asked"},
                total : 0..MaxResponses, late : 0..MaxResponses,
                rate : 0..MaxResponses],
         thread' = [thread EXCEPT ![t] = r]
  PROVE  /\ ThreadsOK' /\ thread'[t] = r
         /\ \A u \in Threads \ {t} : thread'[u] = thread[u]
BY DEF ThreadsOK

\* The set stays within its bound if it grows by one at most, that one being
\* counted among those who added or failed.
LEMMA BoundKept ==
  ASSUME DnsInv, NEW t \in Threads,
         \A u \in Threads \ {t} : thread'[u].pc = thread[u].pc,
         domains' \subseteq domains, redisErrors' = redisErrors,
         t \in Adding(thread) /\ t \notin Adding(thread')
           => \/ Cardinality(domains) <= MaxTracked
              \/ domains = {}
              \/ \E d \in domains : domains' = domains \ {d}
  PROVE  /\ IsFiniteSet(domains') /\ domains' \subseteq Names
         /\ Cardinality(domains')
              <= MaxTracked + redisErrors' + Cardinality(Adding(thread'))
<1>1. /\ IsFiniteSet(domains') /\ Cardinality(domains') <= Cardinality(domains)
      /\ Cardinality(domains') \in Nat /\ Cardinality(domains) \in Nat
  BY FS_Subset, FS_CardinalityType DEF DnsInv
<1>2. /\ MaxTracked \in Nat /\ redisErrors \in Nat /\ domains \subseteq Names
      /\ Cardinality(domains) <= MaxTracked + redisErrors + Cardinality(Adding(thread))
  BY DnsConstants DEF DnsInv
<1>3. PICK before, after : before = thread /\ after = thread'
  OBVIOUS
<1>4. /\ Cardinality(Adding(before)) \in Nat /\ Cardinality(Adding(after)) \in Nat
      /\ t \notin Adding(before) /\ t \in Adding(after)
           => Cardinality(Adding(after)) = Cardinality(Adding(before)) + 1
      /\ t \in Adding(before) /\ t \notin Adding(after)
           => Cardinality(Adding(after)) = Cardinality(Adding(before)) - 1
      /\ (t \in Adding(before) <=> t \in Adding(after))
           => Adding(after) = Adding(before)
  BY <1>3, AddingFacts
<1>5. CASE t \in Adding(before) /\ t \notin Adding(after)
  <2>1. CASE Cardinality(domains) <= MaxTracked
    BY <1>1, <1>2, <1>3, <1>4, <2>1
  <2>2. CASE domains = {}
    BY <1>1, <1>2, <1>3, <1>4, <2>2, FS_EmptySet
  <2>3. CASE \E d \in domains : domains' = domains \ {d}
    <3>1. PICK d \in domains : domains' = domains \ {d}
      BY <2>3
    <3>2. Cardinality(domains') = Cardinality(domains) - 1
      BY <3>1, FS_RemoveElement DEF DnsInv
    <3> QED BY <1>1, <1>2, <1>3, <1>4, <1>5, <3>2
  <2> QED BY <1>3, <1>5, <2>1, <2>2, <2>3
<1>6. CASE ~(t \in Adding(before) /\ t \notin Adding(after))
  <2>1. Cardinality(Adding(before)) <= Cardinality(Adding(after))
    BY <1>4, <1>6
  <2> QED BY <1>1, <1>2, <1>3, <1>4, <2>1
<1> QED BY <1>5, <1>6

\* A thread that goes where it has not read anything yet disturbs no reader.
LEMMA ReadersStay ==
  ASSUME DnsInv, NEW t \in Threads,
         \A u \in Threads \ {t} : thread'[u] = thread[u],
         thread'[t].pc \notin {"nx", "asked"}, nx' \in Nat, nx' <= nx
  PROVE  ReadersOK' /\ D!RateSound'
<1>1. \A u \in Threads : thread[u].total \in Nat /\ thread[u].late \in Nat
  <2> TAKE u \in Threads
  <2>1. thread[u].total \in 0..MaxResponses /\ thread[u].late \in 0..MaxResponses
    BY DEF DnsInv, ThreadsOK
  <2> QED BY <2>1, DnsConstants
<1>2. nx \in Nat
  BY DnsConstants DEF DnsInv, CountersOK
<1>3. ReadersOK'
  BY <1>1, <1>2 DEF DnsInv, ReadersOK, D!At
<1>4. D!RateSound'
  BY DEF DnsInv, D!RateSound, D!At
<1> QED BY <1>3, <1>4

LEMMA SaddStep == ASSUME DnsInv, NEW t \in Threads, D!Sadd(t) PROVE DnsInv'
<1> DEFINE r == [D!Free EXCEPT !.pc = "expire"]
<1>1. /\ D!Ready(t) /\ nx' = nx /\ total' = total /\ redisErrors' = redisErrors
      /\ thread' = [thread EXCEPT ![t] = r]
      /\ ttl' = IF domains = {} THEN [ttl EXCEPT !["domains"] = D!Forever] ELSE ttl
  BY DEF D!Sadd
<1>2. PICK d \in Names : domains' = domains \cup {d}
  BY DEF D!Sadd
<1>3. /\ ThreadsOK' /\ thread'[t] = r
      /\ \A u \in Threads \ {t} : thread'[u] = thread[u]
  <2>1. /\ r \in [pc : {"idle", "expire", "card", "pop", "nx", "asked"},
                  total : 0..MaxResponses, late : 0..MaxResponses,
                  rate : 0..MaxResponses]
        /\ ThreadsOK
    BY DnsConstants DEF D!Free, DnsInv
  <2> HIDE DEF r
  <2> QED BY <1>1, <2>1, OneMoves
<1>4. CountersOK'
  BY <1>1, CountersStay, DnsConstants DEF DnsInv, CountersOK, D!Keys, D!Forever
<1>5. ReadersOK' /\ D!RateSound'
  BY <1>1, <1>3, ReadersStay, DnsConstants DEF D!Free, DnsInv, CountersOK
<1>6. D!ForgottenUnlessFailed'
  BY <1>1, <1>3 DEF D!ForgottenUnlessFailed, D!At, D!Free
<1>7. PICK before, after : before = thread /\ after = thread'
  OBVIOUS
<1>8. /\ Cardinality(Adding(before)) \in Nat /\ Cardinality(Adding(after)) \in Nat
      /\ t \notin Adding(before) /\ t \in Adding(after)
           => Cardinality(Adding(after)) = Cardinality(Adding(before)) + 1
  BY <1>3, <1>7, AddingFacts
<1>9. t \notin Adding(before) /\ t \in Adding(after)
  BY <1>1, <1>3, <1>7 DEF Adding, D!Ready, D!Free
<1>10. /\ IsFiniteSet(domains') /\ domains' \subseteq Names
       /\ Cardinality(domains') \in Nat
       /\ Cardinality(domains') <= Cardinality(domains) + 1
  <2>1. IsFiniteSet(domains) /\ domains \subseteq Names
    BY DEF DnsInv
  <2>2. /\ IsFiniteSet(domains')
        /\ Cardinality(domains') = IF d \in domains THEN Cardinality(domains)
                                   ELSE Cardinality(domains) + 1
    BY <1>2, <2>1, FS_AddElement
  <2>3. Cardinality(domains') \in Nat /\ Cardinality(domains) \in Nat
    BY <2>1, <2>2, FS_CardinalityType
  <2> QED BY <1>2, <2>1, <2>2, <2>3
<1>11. /\ MaxTracked \in Nat /\ redisErrors' \in Nat /\ Cardinality(domains) \in Nat
       /\ Cardinality(domains)
            <= MaxTracked + redisErrors' + Cardinality(Adding(before))
  BY <1>1, <1>7, DnsConstants, FS_CardinalityType DEF DnsInv
<1>12. Cardinality(domains')
         <= MaxTracked + redisErrors' + Cardinality(Adding(thread'))
  BY <1>7, <1>8, <1>9, <1>10, <1>11
<1> QED BY <1>3, <1>4, <1>5, <1>6, <1>10, <1>11, <1>12 DEF DnsInv

LEMMA ExpireStep == ASSUME DnsInv, NEW t \in Threads, D!Expire(t) PROVE DnsInv'
<1> DEFINE r == [thread[t] EXCEPT !.pc = "card"]
<1>1. /\ thread[t].pc = "expire" /\ nx' = nx /\ total' = total
      /\ redisErrors' = redisErrors /\ domains' = domains
      /\ thread' = [thread EXCEPT ![t] = r]
      /\ ttl' = [ttl EXCEPT !["domains"] = IF @ = 0 THEN 0 ELSE Window]
  BY DEF D!Expire, D!At, D!Goto, D!Refreshed
<1>2. /\ ThreadsOK' /\ thread'[t] = r
      /\ \A u \in Threads \ {t} : thread'[u] = thread[u]
  BY <1>1, OneMoves DEF DnsInv, ThreadsOK
<1>3. r.pc = "card"
  BY DEF DnsInv, ThreadsOK
<1>4. CountersOK'
  BY <1>1, CountersStay, DnsConstants DEF DnsInv, CountersOK, D!Keys
<1>5. ReadersOK' /\ D!RateSound'
  BY <1>1, <1>2, <1>3, ReadersStay, DnsConstants DEF DnsInv, CountersOK
<1>6. D!ForgottenUnlessFailed'
  BY <1>1, DnsConstants
     DEF DnsInv, CountersOK, D!ForgottenUnlessFailed, D!Forever, D!Keys
<1>7. t \in Adding(thread')
  BY <1>2, <1>3 DEF Adding
<1>8. /\ IsFiniteSet(domains') /\ domains' \subseteq Names
      /\ Cardinality(domains')
           <= MaxTracked + redisErrors' + Cardinality(Adding(thread'))
  BY <1>1, <1>2, <1>7, BoundKept
<1> QED BY <1>1, <1>2, <1>4, <1>5, <1>6, <1>8 DEF DnsInv

LEMMA CardStep == ASSUME DnsInv, NEW t \in Threads, D!Card(t) PROVE DnsInv'
<1> DEFINE r == [thread[t] EXCEPT !.pc = IF D!TooMany THEN "pop" ELSE "idle"]
<1>1. /\ thread[t].pc = "card" /\ nx' = nx /\ total' = total /\ ttl' = ttl
      /\ redisErrors' = redisErrors /\ domains' = domains
      /\ thread' = [thread EXCEPT ![t] = r]
  BY DEF D!Card, D!At, D!Goto
<1>2. /\ ThreadsOK' /\ thread'[t] = r
      /\ \A u \in Threads \ {t} : thread'[u] = thread[u]
  BY <1>1, OneMoves DEF DnsInv, ThreadsOK
<1>3. r.pc = IF Cardinality(domains) > MaxTracked THEN "pop" ELSE "idle"
  BY SameCardinality DEF D!TooMany, DnsInv, ThreadsOK
<1>4. CountersOK'
  BY <1>1, CountersStay DEF DnsInv, CountersOK
<1>5. ReadersOK' /\ D!RateSound'
  BY <1>1, <1>2, <1>3, ReadersStay, DnsConstants DEF DnsInv, CountersOK
<1>6. D!ForgottenUnlessFailed'
  BY <1>1, <1>2, <1>3 DEF DnsInv, D!ForgottenUnlessFailed, D!At, D!Forever
<1>7. t \notin Adding(thread') => Cardinality(domains) <= MaxTracked
  <2>1. t \notin Adding(thread') => r.pc # "pop"
    BY <1>2 DEF Adding
  <2>2. Cardinality(domains) \in Nat
    BY FS_CardinalityType DEF DnsInv
  <2> QED BY <1>3, <2>1, <2>2, DnsConstants
<1>8. /\ IsFiniteSet(domains') /\ domains' \subseteq Names
      /\ Cardinality(domains')
           <= MaxTracked + redisErrors' + Cardinality(Adding(thread'))
  BY <1>1, <1>2, <1>7, BoundKept
<1> QED BY <1>1, <1>2, <1>4, <1>5, <1>6, <1>8 DEF DnsInv

LEMMA PopStep == ASSUME DnsInv, NEW t \in Threads, D!Pop(t) PROVE DnsInv'
<1> DEFINE r == [thread[t] EXCEPT !.pc = "idle"]
<1>1. /\ thread[t].pc = "pop" /\ nx' = nx /\ total' = total
      /\ redisErrors' = redisErrors /\ thread' = [thread EXCEPT ![t] = r]
      /\ \/ domains = {} /\ domains' = domains /\ ttl' = ttl
         \/ \E d \in domains :
              /\ domains' = domains \ {d}
              /\ ttl' = IF domains = {d} THEN [ttl EXCEPT !["domains"] = 0] ELSE ttl
  BY DEF D!Pop, D!At, D!Goto
<1>2. /\ ThreadsOK' /\ thread'[t] = r
      /\ \A u \in Threads \ {t} : thread'[u] = thread[u]
  BY <1>1, OneMoves DEF DnsInv, ThreadsOK
<1>3. r.pc = "idle"
  BY DEF DnsInv, ThreadsOK
<1>4. /\ ttl' \in [D!Keys -> 0..Window + 1] /\ ttl'["domains"] \in {0, ttl["domains"]}
      /\ ttl'["total"] = ttl["total"] /\ ttl'["nx"] = ttl["nx"]
  BY <1>1, DnsConstants DEF DnsInv, CountersOK, D!Keys
<1>5. CountersOK'
  BY <1>1, <1>4, CountersStay DEF DnsInv
<1>6. ReadersOK' /\ D!RateSound'
  BY <1>1, <1>2, <1>3, ReadersStay, DnsConstants DEF DnsInv, CountersOK
<1>7. D!ForgottenUnlessFailed'
  BY <1>1, <1>2, <1>4, DnsConstants DEF DnsInv, D!ForgottenUnlessFailed, D!At, D!Forever
<1>8. /\ IsFiniteSet(domains') /\ domains' \subseteq Names
      /\ Cardinality(domains')
           <= MaxTracked + redisErrors' + Cardinality(Adding(thread'))
  BY <1>1, <1>2, BoundKept
<1> QED BY <1>1, <1>2, <1>5, <1>6, <1>7, <1>8 DEF DnsInv

LEMMA RaiseStep == ASSUME DnsInv, NEW t \in Threads, D!Raise(t) PROVE DnsInv'
<1>1. /\ nx' = nx /\ total' = total /\ ttl' = ttl /\ domains' = domains
      /\ redisErrors' = redisErrors + 1
      /\ thread' = [thread EXCEPT ![t] = D!Free]
  BY DEF D!Raise
<1>2. /\ ThreadsOK' /\ thread'[t] = D!Free
      /\ \A u \in Threads \ {t} : thread'[u] = thread[u]
  <2>1. ThreadsOK /\ D!Free \in
          [pc : {"idle", "expire", "card", "pop", "nx", "asked"},
           total : 0..MaxResponses, late : 0..MaxResponses, rate : 0..MaxResponses]
    BY DnsConstants DEF D!Free, DnsInv
  <2> QED BY <1>1, <2>1, OneMoves
<1>3. CountersOK'
  BY <1>1, CountersStay DEF DnsInv, CountersOK
<1>4. ReadersOK' /\ D!RateSound'
  BY <1>1, <1>2, ReadersStay, DnsConstants DEF DnsInv, CountersOK, D!Free
<1>5. D!ForgottenUnlessFailed'
  BY <1>1 DEF DnsInv, D!ForgottenUnlessFailed
<1>6. PICK before, after : before = thread /\ after = thread'
  OBVIOUS
<1>7. /\ Cardinality(Adding(before)) \in Nat /\ Cardinality(Adding(after)) \in Nat
      /\ Cardinality(Adding(before)) <= Cardinality(Adding(after)) + 1
  <2>1. t \notin Adding(after)
    BY <1>2, <1>6 DEF Adding, D!Free
  <2> QED BY <1>2, <1>6, <2>1, AddingFacts
<1>8. /\ IsFiniteSet(domains') /\ domains' \subseteq Names /\ redisErrors' \in Nat
      /\ Cardinality(domains')
           <= MaxTracked + redisErrors' + Cardinality(Adding(thread'))
  <2>1. /\ IsFiniteSet(domains) /\ domains \subseteq Names /\ redisErrors \in Nat
        /\ Cardinality(domains) \in Nat
        /\ Cardinality(domains) <= MaxTracked + redisErrors + Cardinality(Adding(before))
    BY <1>6, FS_CardinalityType DEF DnsInv
  <2> QED BY <1>1, <1>6, <1>7, <2>1, DnsConstants
<1> QED BY <1>2, <1>3, <1>4, <1>5, <1>8 DEF DnsInv

LEMMA GetTotalStep == ASSUME DnsInv, NEW t \in Threads, D!GetTotal(t) PROVE DnsInv'
<1> DEFINE r == [D!Free EXCEPT !.pc = "nx", !.total = total]
<1>1. /\ D!Ready(t) /\ nx' = nx /\ total' = total /\ ttl' = ttl
      /\ domains' = domains /\ redisErrors' = redisErrors
      /\ thread' = [thread EXCEPT ![t] = r]
  BY DEF D!GetTotal
<1>2. r.pc = "nx" /\ r.total = total /\ r.late = 0
  BY DEF D!Free
<1>3. /\ ThreadsOK' /\ thread'[t] = r
      /\ \A u \in Threads \ {t} : thread'[u] = thread[u]
  <2>1. ThreadsOK /\ total \in 0..MaxResponses /\ 0 \in 0..MaxResponses
    BY DnsConstants DEF DnsInv, CountersOK
  <2>2. r \in [pc : {"idle", "expire", "card", "pop", "nx", "asked"},
               total : 0..MaxResponses, late : 0..MaxResponses,
               rate : 0..MaxResponses]
    BY <2>1 DEF D!Free
  <2> HIDE DEF r
  <2> QED BY <1>1, <2>1, <2>2, OneMoves
<1>4. CountersOK'
  BY <1>1, CountersStay DEF DnsInv, CountersOK
<1>5. ReadersOK'
  <2>1. nx \in Nat /\ total \in Nat /\ nx <= total
    BY DnsConstants DEF DnsInv, CountersOK
  <2>2. thread'[t].total = total /\ thread'[t].late = 0
    BY <1>2, <1>3
  <2> QED BY <1>1, <1>3, <2>1, <2>2 DEF ReadersOK, DnsInv, D!At
<1>6. D!RateSound'
  BY <1>2, <1>3 DEF D!RateSound, DnsInv, D!At
<1>7. t \notin Adding(thread)
  BY <1>1 DEF Adding, D!Ready
<1>8. D!ForgottenUnlessFailed'
  BY <1>1, <1>3 DEF DnsInv, D!ForgottenUnlessFailed, D!At, D!Ready, D!Forever
<1>9. /\ IsFiniteSet(domains') /\ domains' \subseteq Names
      /\ Cardinality(domains')
           <= MaxTracked + redisErrors' + Cardinality(Adding(thread'))
  BY <1>1, <1>3, <1>7, BoundKept
<1> QED BY <1>1, <1>3, <1>4, <1>5, <1>6, <1>8, <1>9 DEF DnsInv

LEMMA GetNxStep == ASSUME DnsInv, NEW t \in Threads, D!GetNx(t) PROVE DnsInv'
<1> DEFINE r == [thread[t] EXCEPT !.pc = "asked", !.rate = nx]
<1>1. /\ thread[t].pc = "nx" /\ nx' = nx /\ total' = total /\ ttl' = ttl
      /\ domains' = domains /\ redisErrors' = redisErrors
      /\ thread' = [thread EXCEPT ![t] = r]
  BY DEF D!GetNx, D!At
<1>2. /\ r.pc = "asked" /\ r.total = thread[t].total /\ r.late = thread[t].late
      /\ r.rate = nx
  BY DEF DnsInv, ThreadsOK
<1>3. /\ ThreadsOK' /\ thread'[t] = r
      /\ \A u \in Threads \ {t} : thread'[u] = thread[u]
  <2>1. /\ ThreadsOK /\ nx \in 0..MaxResponses
        /\ thread[t].total \in 0..MaxResponses /\ thread[t].late \in 0..MaxResponses
    BY DEF DnsInv, CountersOK, ThreadsOK
  <2>2. r \in [pc : {"idle", "expire", "card", "pop", "nx", "asked"},
               total : 0..MaxResponses, late : 0..MaxResponses,
               rate : 0..MaxResponses]
    BY <2>1 DEF ThreadsOK
  <2> HIDE DEF r
  <2> QED BY <1>1, <2>1, <2>2, OneMoves
<1>4. CountersOK'
  BY <1>1, CountersStay DEF DnsInv, CountersOK
<1>5. ReadersOK'
  BY <1>1, <1>2, <1>3 DEF ReadersOK, DnsInv, D!At
<1>6. D!RateSound'
  <2>1. nx <= thread[t].total + thread[t].late
    BY <1>1 DEF DnsInv, ReadersOK, D!At
  <2>2. /\ thread'[t].rate = nx /\ thread'[t].total = thread[t].total
        /\ thread'[t].late = thread[t].late
    BY <1>2, <1>3
  <2> QED BY <1>3, <2>1, <2>2 DEF D!RateSound, DnsInv, D!At
<1>7. t \notin Adding(thread)
  BY <1>1 DEF Adding
<1>8. D!ForgottenUnlessFailed'
  BY <1>1, <1>3 DEF DnsInv, D!ForgottenUnlessFailed, D!At, D!Forever
<1>9. /\ IsFiniteSet(domains') /\ domains' \subseteq Names
      /\ Cardinality(domains')
           <= MaxTracked + redisErrors' + Cardinality(Adding(thread'))
  BY <1>1, <1>3, <1>7, BoundKept
<1> QED BY <1>1, <1>3, <1>4, <1>5, <1>6, <1>8, <1>9 DEF DnsInv

LEMMA RespondStep == ASSUME DnsInv, NEW t \in Threads, D!Respond(t) PROVE DnsInv'
<1>1. /\ total < MaxResponses /\ total' = total + 1
      /\ domains' = domains /\ redisErrors' = redisErrors
      /\ \/ nx' = nx + 1 /\ ttl' = D!Kept({"total", "nx"})
         \/ nx' = nx /\ ttl' = D!Kept({"total"})
      /\ thread' = [u \in Threads |-> IF D!At(u, "nx")
                                      THEN [thread[u] EXCEPT !.late = D!More(@)]
                                      ELSE thread[u]]
  BY DEF D!Respond, D!Counters
<1>2. /\ nx \in Nat /\ total \in Nat /\ nx <= total /\ total < MaxResponses
      /\ ttl \in [D!Keys -> 0..Window + 1] /\ ttl["total"] <= Window
      /\ ttl["nx"] <= ttl["total"] /\ (ttl["nx"] = 0 => nx = 0)
  BY <1>1, DnsConstants DEF DnsInv, CountersOK
<1>3. /\ ttl' \in [D!Keys -> 0..Window + 1] /\ ttl'["total"] = Window
      /\ ttl'["domains"] = ttl["domains"]
      /\ \/ nx' = nx + 1 /\ ttl'["nx"] = Window
         \/ nx' = nx /\ ttl'["nx"] = ttl["nx"]
  BY <1>1, <1>2, DnsConstants DEF D!Kept, D!Keys
<1>4. CountersOK'
  <2>1. ttl["nx"] \in Nat /\ ttl["total"] \in Nat
    BY <1>2, DnsConstants DEF D!Keys
  <2> QED BY <1>1, <1>2, <1>3, <2>1, DnsConstants DEF CountersOK
<1>5. \A u \in Threads :
        /\ thread[u] \in [pc : {"idle", "expire", "card", "pop", "nx", "asked"},
                          total : 0..MaxResponses, late : 0..MaxResponses,
                          rate : 0..MaxResponses]
        /\ thread'[u].pc = thread[u].pc /\ thread'[u].total = thread[u].total
        /\ thread'[u].rate = thread[u].rate
        /\ thread'[u].late = IF thread[u].pc = "nx" THEN D!More(thread[u].late)
                             ELSE thread[u].late
  BY <1>1 DEF DnsInv, ThreadsOK, D!At
<1>6. \A n \in 0..MaxResponses : D!More(n) \in 0..MaxResponses
  BY DnsConstants DEF D!More
<1>7. ThreadsOK'
  BY <1>1, <1>6 DEF DnsInv, ThreadsOK
<1>8. ReadersOK'
  <2> SUFFICES ASSUME NEW u \in Threads, thread[u].pc = "nx"
               PROVE  nx' <= thread[u].total + D!More(thread[u].late)
    BY <1>5 DEF ReadersOK, D!At
  <2>1. nx <= thread[u].total + thread[u].late
    BY DEF DnsInv, ReadersOK, D!At
  <2>2. thread[u].total \in Nat /\ thread[u].late \in 0..MaxResponses
    BY <1>5, DnsConstants
  <2> QED BY <1>1, <1>2, <2>1, <2>2, DnsConstants DEF D!More
<1>9. D!RateSound'
  BY <1>5 DEF DnsInv, D!RateSound, D!At
<1>10. Adding(thread') = Adding(thread)
  BY <1>5 DEF Adding
<1>11. D!ForgottenUnlessFailed'
  BY <1>1, <1>3, <1>5 DEF DnsInv, D!ForgottenUnlessFailed, D!At, D!Forever
<1> QED BY <1>1, <1>4, <1>7, <1>8, <1>9, <1>10, <1>11 DEF DnsInv

LEMMA TickStep == ASSUME DnsInv, D!Tick PROVE DnsInv'
<1>1. /\ thread' = thread /\ redisErrors' = redisErrors
      /\ ttl' = [k \in D!Keys |-> IF ttl[k] \in 1..Window THEN ttl[k] - 1 ELSE ttl[k]]
      /\ domains' = IF ttl'["domains"] = 0 THEN {} ELSE domains
      /\ total' = IF ttl'["total"] = 0 THEN 0 ELSE total
      /\ nx' = IF ttl'["nx"] = 0 THEN 0 ELSE nx
  BY DEF D!Tick
<1>2. /\ nx \in Nat /\ total \in Nat /\ nx <= total /\ total <= MaxResponses
      /\ ttl \in [D!Keys -> 0..Window + 1] /\ ttl["total"] <= Window
      /\ ttl["nx"] <= ttl["total"] /\ (ttl["nx"] = 0 => nx = 0)
  BY DnsConstants DEF DnsInv, CountersOK
<1>3. /\ ttl' \in [D!Keys -> 0..Window + 1] /\ ttl'["total"] <= Window
      /\ ttl'["nx"] <= ttl'["total"]
      /\ ttl'["domains"] = Window + 1 => ttl["domains"] = Window + 1
  <2>1. ttl["nx"] \in 0..Window + 1 /\ ttl["total"] \in 0..Window + 1
        /\ ttl["domains"] \in 0..Window + 1
    BY <1>2 DEF D!Keys
  <2>2. ttl'["nx"] = IF ttl["nx"] \in 1..Window THEN ttl["nx"] - 1 ELSE ttl["nx"]
    BY <1>1 DEF D!Keys
  <2>3. ttl'["total"] = IF ttl["total"] \in 1..Window THEN ttl["total"] - 1
                        ELSE ttl["total"]
    BY <1>1 DEF D!Keys
  <2>4. ttl'["domains"] = IF ttl["domains"] \in 1..Window THEN ttl["domains"] - 1
                          ELSE ttl["domains"]
    BY <1>1 DEF D!Keys
  <2>5. ttl' \in [D!Keys -> 0..Window + 1]
    BY <1>1, <1>2, DnsConstants
  <2> QED BY <1>2, <2>1, <2>2, <2>3, <2>4, <2>5, DnsConstants
<1>4. CountersOK'
  <2>1. ttl'["nx"] \in Nat /\ ttl'["total"] \in Nat
    BY <1>3, DnsConstants DEF D!Keys
  <2>2. nx' <= total' /\ nx' \in Nat /\ total' \in 0..MaxResponses
    BY <1>1, <1>2, <1>3, <2>1, DnsConstants
  <2> QED BY <1>1, <1>2, <1>3, <2>1, <2>2, DnsConstants DEF CountersOK
<1>5. nx' \in Nat /\ nx' <= nx
  BY <1>1, <1>2
<1>6. ReadersOK'
  <2> SUFFICES ASSUME NEW u \in Threads, thread[u].pc = "nx"
               PROVE  nx' <= thread[u].total + thread[u].late
    BY <1>1 DEF ReadersOK, D!At
  <2>1. nx <= thread[u].total + thread[u].late
    BY DEF DnsInv, ReadersOK, D!At
  <2>2. thread[u].total \in 0..MaxResponses /\ thread[u].late \in 0..MaxResponses
    BY DEF DnsInv, ThreadsOK
  <2> QED BY <1>2, <1>5, <2>1, <2>2, DnsConstants
<1>7. D!RateSound' /\ ThreadsOK' /\ redisErrors' \in Nat
  BY <1>1 DEF DnsInv, D!RateSound, D!At, ThreadsOK
<1>8. D!ForgottenUnlessFailed'
  BY <1>1, <1>3 DEF DnsInv, D!ForgottenUnlessFailed, D!At, D!Forever
<1>9. /\ IsFiniteSet(domains') /\ domains' \subseteq Names
      /\ Cardinality(domains')
           <= MaxTracked + redisErrors' + Cardinality(Adding(thread'))
  <2>1. /\ IsFiniteSet(Adding(thread)) /\ Cardinality(Adding(thread)) \in Nat
    BY DnsConstants, FS_Subset, FS_CardinalityType DEF Adding
  <2>2. CASE domains' = {}
    BY <1>1, <2>1, <2>2, FS_EmptySet, DnsConstants DEF DnsInv
  <2>3. CASE domains' = domains
    BY <1>1, <2>3 DEF DnsInv
  <2> QED BY <1>1, <2>2, <2>3
<1> QED BY <1>4, <1>6, <1>7, <1>8, <1>9 DEF DnsInv

LEMMA DnsStep == DnsInv /\ [D!Next]_dns => DnsInv'
<1> SUFFICES ASSUME DnsInv, [D!Next]_dns PROVE DnsInv'
  OBVIOUS
<1>1. CASE UNCHANGED dns
  BY <1>1 DEF dns, DnsInv, ThreadsOK, CountersOK, ReadersOK, D!At,
     D!ForgottenUnlessFailed, D!RateSound
<1>2. ASSUME NEW t \in Threads, D!Track(t) PROVE DnsInv'
  BY <1>2, SaddStep, ExpireStep, CardStep, PopStep, RespondStep, GetTotalStep,
     GetNxStep, RaiseStep DEF D!Track
<1>3. CASE D!Tick
  BY <1>3, TickStep
<1> QED BY <1>1, <1>2, <1>3 DEF D!Next

\* The invariant says what Signals promises of the tracker.
LEMMA DnsInvIsSound ==
  DnsInv => D!TypeOK /\ D!SetBounded /\ D!ForgottenUnlessFailed /\ D!RateSound
<1> SUFFICES ASSUME DnsInv PROVE D!TypeOK /\ D!SetBounded
  BY DEF DnsInv
<1>1. ttl["nx"] <= Window /\ ttl["total"] <= Window
  <2>1. ttl["nx"] \in Int /\ ttl["total"] \in Int
    BY DnsConstants DEF DnsInv, CountersOK, D!Keys
  <2> QED BY <2>1, DnsConstants DEF DnsInv, CountersOK
<1>2. D!TypeOK
  BY <1>1, DnsConstants DEF DnsInv, CountersOK, D!TypeOK, D!Counters, D!Forever
<1>3. D!SetBounded
  BY SameCardinality DEF DnsInv, D!SetBounded, Adding
<1> QED BY <1>2, <1>3

-----------------------------------------------------------------------------
(* The lookup caches: what happens to the sequence of entries              *)

\* RemoveAt takes one element out and keeps the others in their order.
LEMMA RemovedFacts ==
  ASSUME NEW E, NEW s \in Seq(E), NEW k \in 1 .. Len(s)
  PROVE  /\ L!RemoveAt(s, k) \in Seq(E) /\ Len(L!RemoveAt(s, k)) = Len(s) - 1
         /\ \A i \in 1 .. Len(s) - 1 :
              L!RemoveAt(s, k)[i] = IF i < k THEN s[i] ELSE s[i + 1]
<1>0. Len(s) \in Nat /\ \A i \in 1 .. Len(s) : s[i] \in E
  BY LenProperties, ElementOfSeq
<1> DEFINE t == SubSeq(s, 1, k - 1)
           u == SubSeq(s, k + 1, Len(s))
           r == t \o u
<1>1. L!RemoveAt(s, k) = r
  BY DEF L!RemoveAt
<1>2. /\ t \in Seq(E) /\ Len(t) = k - 1 /\ \A i \in 1 .. k - 1 : t[i] = s[i]
  <2>1. /\ SubSeq(s, 1, k - 1) \in Seq(E)
        /\ Len(SubSeq(s, 1, k - 1)) = IF 1 <= k - 1 THEN k - 1 - 1 + 1 ELSE 0
        /\ \A i \in 1 .. k - 1 - 1 + 1 : SubSeq(s, 1, k - 1)[i] = s[1 + i - 1]
    <3>1. (\A i \in 1 .. k - 1 : s[i] \in E) /\ 1 \in Int /\ k - 1 \in Int
      BY <1>0
    <3> QED BY <3>1, SubSeqProperties
  <2> QED BY <1>0, <2>1
<1>3. /\ u \in Seq(E) /\ Len(u) = Len(s) - k
      /\ \A i \in 1 .. Len(s) - k : u[i] = s[k + i]
  <2>1. /\ SubSeq(s, k + 1, Len(s)) \in Seq(E)
        /\ Len(SubSeq(s, k + 1, Len(s))) =
             IF k + 1 <= Len(s) THEN Len(s) - (k + 1) + 1 ELSE 0
        /\ \A i \in 1 .. Len(s) - (k + 1) + 1 :
             SubSeq(s, k + 1, Len(s))[i] = s[(k + 1) + i - 1]
    <3>1. /\ \A i \in k + 1 .. Len(s) : s[i] \in E
          /\ k + 1 \in Int /\ Len(s) \in Int
      BY <1>0
    <3> QED BY <3>1, SubSeqProperties
  <2>2. k \in Int /\ k <= Len(s) /\ Len(s) \in Int
    BY <1>0
  <2>3. Len(s) - (k + 1) + 1 = Len(s) - k
    BY <2>2
  <2>4. ~(k + 1 <= Len(s)) => Len(s) - k = 0
    BY <2>2
  <2>5. \A i \in 1 .. Len(s) - k : (k + 1) + i - 1 = k + i
    BY <2>2
  <2>6. Len(u) = Len(s) - k
    BY <2>1, <2>3, <2>4
  <2>7. \A i \in 1 .. Len(s) - k : u[i] = s[k + i]
    BY <2>1, <2>3, <2>5
  <2> QED BY <2>1, <2>6, <2>7
<1> HIDE DEF t, u
<1>4. /\ r \in Seq(E) /\ Len(r) = Len(t) + Len(u)
      /\ \A i \in 1 .. Len(t) + Len(u) :
           r[i] = IF i <= Len(t) THEN t[i] ELSE u[i - Len(t)]
  BY <1>2, <1>3, ConcatProperties
<1> HIDE DEF r
<1>5. /\ r \in Seq(E) /\ Len(r) = Len(s) - 1
      /\ \A i \in 1 .. Len(s) - 1 : r[i] = IF i < k THEN s[i] ELSE s[i + 1]
  <2>1. /\ k \in Int /\ Len(s) \in Int /\ Len(t) = k - 1 /\ Len(u) = Len(s) - k
        /\ Len(t) + Len(u) = Len(s) - 1
    BY <1>0, <1>2, <1>3
  <2>2. ASSUME NEW i \in 1 .. Len(s) - 1
        PROVE  r[i] = IF i < k THEN s[i] ELSE s[i + 1]
    <3>1. r[i] = IF i <= k - 1 THEN t[i] ELSE u[i - (k - 1)]
      BY <1>4, <2>1, <2>2
    <3>2. CASE i < k
      <4>1. i \in 1 .. k - 1
        BY <2>1, <2>2, <3>2
      <4> QED BY <1>2, <2>1, <3>1, <3>2, <4>1
    <3>3. CASE ~(i < k)
      <4>1. i - (k - 1) \in 1 .. Len(s) - k /\ k + (i - (k - 1)) = i + 1
        BY <2>1, <2>2, <3>3
      <4>2. u[i - (k - 1)] = s[i + 1]
        BY <1>3, <4>1
      <4> QED BY <2>1, <2>2, <3>1, <3>3, <4>2
    <3> QED BY <3>2, <3>3
  <2> QED BY <1>4, <2>1, <2>2
<1> QED BY <1>1, <1>5

\* No key twice
Unique(s) == \A m, n \in 1 .. Len(s) : s[m].key = s[n].key => m = n

\* Every entry of s is one of t.
DrawnFrom(s, t) == \A n \in 1 .. Len(s) : \E m \in 1 .. Len(t) : s[n] = t[m]

\* No entry of the key
Lacks(s, k) == \A n \in 1 .. Len(s) : s[n].key # k

LEMMA AppendedFacts ==
  ASSUME NEW E, NEW s \in Seq(E), NEW e \in E, Unique(s), Lacks(s, e.key)
  PROVE  /\ Append(s, e) \in Seq(E) /\ Len(Append(s, e)) = Len(s) + 1
         /\ Unique(Append(s, e))
         /\ \A n \in 1 .. Len(s) + 1 :
              Append(s, e)[n] = e \/ \E m \in 1 .. Len(s) : Append(s, e)[n] = s[m]
<1> DEFINE r == Append(s, e)
<1>1. /\ r \in Seq(E) /\ Len(r) = Len(s) + 1 /\ Len(s) \in Nat
      /\ \A i \in 1 .. Len(s) : r[i] = s[i]
      /\ r[Len(s) + 1] = e
  BY AppendProperties, LenProperties
<1> HIDE DEF r
<1>2. \A n \in 1 .. Len(s) + 1 : n \in 1 .. Len(s) \/ n = Len(s) + 1
  BY <1>1
<1>3. Unique(r)
  BY <1>1, <1>2 DEF Unique, Lacks
<1>4. \A n \in 1 .. Len(s) + 1 : r[n] = e \/ \E m \in 1 .. Len(s) : r[n] = s[m]
  BY <1>1, <1>2
<1> QED BY <1>1, <1>3, <1>4 DEF r

LEMMA TrimmedFacts ==
  ASSUME NEW E, NEW s \in Seq(E), Unique(s), Len(s) <= MaxCache + 1,
         MaxCache \in Nat \ {0}
  PROVE  /\ L!Trimmed(s) \in Seq(E) /\ Len(L!Trimmed(s)) <= MaxCache
         /\ Unique(L!Trimmed(s)) /\ DrawnFrom(L!Trimmed(s), s)
<1>1. Len(s) \in Nat
  BY LenProperties
<1>2. CASE Len(s) > MaxCache
  <2>1. s # <<>>
    BY <1>2
  <2>2. /\ Tail(s) \in Seq(E) /\ Len(Tail(s)) = Len(s) - 1
        /\ \A i \in 1 .. Len(Tail(s)) : Tail(s)[i] = s[i + 1]
    BY <2>1, HeadTailProperties
  <2>3. \A i \in 1 .. Len(Tail(s)) : i + 1 \in 1 .. Len(s)
    BY <1>1, <2>2
  <2>4. Unique(Tail(s))
    BY <2>2, <2>3 DEF Unique
  <2>5. DrawnFrom(Tail(s), s)
    BY <2>2, <2>3 DEF DrawnFrom
  <2>6. Len(Tail(s)) <= MaxCache
    BY <1>1, <2>2
  <2>7. L!Trimmed(s) = Tail(s)
    BY <1>2 DEF L!Trimmed
  <2> QED BY <2>2, <2>4, <2>5, <2>6, <2>7
<1>3. CASE ~(Len(s) > MaxCache)
  BY <1>1, <1>3 DEF L!Trimmed, DrawnFrom
<1> QED BY <1>2, <1>3

-----------------------------------------------------------------------------
(* The lookup caches: the invariant                                        *)

LookupKeys == L!Keys \ {None}

Entries == [key : LookupKeys, value : {"found", "failed"}, exp : Nat, at : Nat,
            by : Nat]

\* Each key has one entry at most, which was stored ttl before it expires, and
\* there are no more entries than the cache may hold.
CacheOK ==
  /\ kind \in {"intel", "age"} /\ time \in Nat
  /\ asked \subseteq LookupKeys
  /\ cache \in Seq(Entries) /\ Len(cache) <= MaxCache /\ Unique(cache)
  /\ \A n \in 1 .. Len(cache) :
       cache[n].exp = cache[n].at + Ttl /\ cache[n].at <= time

\* A coroutine that waits found no entry of its key, or an expired one that it
\* removed: whatever is there now was stored since.
WaitersOK ==
  \A c \in Coroutines : co[c].pc = "wait" =>
    /\ co[c].key \in LookupKeys /\ co[c].since \in Nat /\ co[c].since <= time
    /\ co[c].answer = None
    /\ \A n \in 1 .. Len(cache) :
         cache[n].key = co[c].key => co[c].since <= cache[n].at

\* What a coroutine may be doing
Doing == [pc : {"idle", "wait", "done"}, key : LookupKeys \cup {None}, since : Nat,
          answer : {None, "found", "failed"}, at : Nat]

LookupInv ==
  CacheOK /\ WaitersOK /\ L!AnswersFresh /\ co \in [Coroutines -> Doing]

LEMMA LookupConstants == MaxCache \in Nat \ {0} /\ Ttl \in Nat \ {0}
<1>1. L!LookupAssumption
  BY SignalsAssumption
<1> QED BY <1>1 DEF L!LookupAssumption

\* Where the entry of a key is
LEMMA CachedFacts ==
  ASSUME CacheOK, NEW k
  PROVE  /\ DOMAIN cache = 1 .. Len(cache) /\ Len(cache) \in Nat
         /\ L!Cached(k) => /\ L!PlaceOf(k) \in 1 .. Len(cache)
                           /\ L!EntryOf(k) = cache[L!PlaceOf(k)]
                           /\ L!EntryOf(k).key = k /\ L!EntryOf(k) \in Entries
         /\ ~L!Cached(k) => Lacks(cache, k)
<1>1. cache \in Seq(Entries) /\ Len(cache) \in Nat /\ DOMAIN cache = 1 .. Len(cache)
  BY LenProperties DEF CacheOK
<1>2. ASSUME L!Cached(k)
      PROVE  L!PlaceOf(k) \in 1 .. Len(cache) /\ cache[L!PlaceOf(k)].key = k
  BY <1>1, <1>2 DEF L!Cached, L!PlaceOf
<1>3. ~L!Cached(k) => Lacks(cache, k)
  BY <1>1 DEF L!Cached, Lacks
<1>4. L!Cached(k) => cache[L!PlaceOf(k)] \in Entries
  BY <1>1, <1>2, ElementOfSeq
<1> QED BY <1>1, <1>2, <1>3, <1>4 DEF L!EntryOf

\* The others stay, in their order.
LEMMA WithoutFacts ==
  ASSUME CacheOK, NEW k
  PROVE  /\ L!Without(k) \in Seq(Entries)
         /\ Len(L!Without(k)) = IF L!Cached(k) THEN Len(cache) - 1 ELSE Len(cache)
         /\ Unique(L!Without(k)) /\ Lacks(L!Without(k), k)
         /\ DrawnFrom(L!Without(k), cache)
<1> DEFINE s == L!Without(k)
           q == L!PlaceOf(k)
<1>0. cache \in Seq(Entries) /\ Unique(cache) /\ Len(cache) \in Nat
  BY LenProperties DEF CacheOK
<1>1. CASE ~L!Cached(k)
  <2>1. s = cache /\ Lacks(cache, k)
    BY <1>1, CachedFacts DEF L!Without
  <2> QED BY <1>0, <1>1, <2>1 DEF DrawnFrom
<1>2. CASE L!Cached(k)
  <2>1. q \in 1 .. Len(cache) /\ cache[q].key = k
    BY <1>2, CachedFacts
  <2>2. s = L!RemoveAt(cache, q)
    BY <1>2 DEF L!Without
  <2> HIDE DEF s, q
  <2>3. /\ s \in Seq(Entries) /\ Len(s) = Len(cache) - 1
        /\ \A i \in 1 .. Len(cache) - 1 :
             s[i] = IF i < q THEN cache[i] ELSE cache[i + 1]
    BY <1>0, <2>1, <2>2, RemovedFacts
  <2>4. \A i \in 1 .. Len(s) : i \in 1 .. Len(cache) /\ i + 1 \in 1 .. Len(cache)
    BY <1>0, <2>3
  <2>5. Unique(s)
    <3> SUFFICES ASSUME NEW m \in 1 .. Len(s), NEW n \in 1 .. Len(s),
                        s[m].key = s[n].key
                 PROVE  m = n
      BY DEF Unique
    <3>1. s[m] = IF m < q THEN cache[m] ELSE cache[m + 1]
      BY <2>3
    <3>2. s[n] = IF n < q THEN cache[n] ELSE cache[n + 1]
      BY <2>3
    <3> QED BY <1>0, <2>1, <2>4, <3>1, <3>2 DEF Unique
  <2>6. Lacks(s, k)
    <3> SUFFICES ASSUME NEW n \in 1 .. Len(s) PROVE s[n].key # k
      BY DEF Lacks
    <3>1. s[n] = IF n < q THEN cache[n] ELSE cache[n + 1]
      BY <2>3
    <3> QED BY <1>0, <2>1, <2>4, <3>1 DEF Unique
  <2>7. DrawnFrom(s, cache)
    BY <2>3, <2>4 DEF DrawnFrom
  <2>8. Len(s) = IF L!Cached(k) THEN Len(cache) - 1 ELSE Len(cache)
    BY <1>2, <2>3
  <2> QED BY <2>3, <2>5, <2>6, <2>7, <2>8 DEF s
<1> QED BY <1>1, <1>2

\* A lookup in the cache leaves no entry of the key unless it is a hit.
LEMMA UsedFacts ==
  ASSUME CacheOK, NEW k
  PROVE  /\ L!Used(k) \in Seq(Entries) /\ Len(L!Used(k)) <= MaxCache
         /\ Unique(L!Used(k)) /\ DrawnFrom(L!Used(k), cache)
         /\ ~L!Hit(k) => Lacks(L!Used(k), k)
<1> DEFINE s == L!Without(k)
           e == L!EntryOf(k)
<1>0. /\ cache \in Seq(Entries) /\ Unique(cache) /\ Len(cache) \in Nat
      /\ Len(cache) <= MaxCache /\ MaxCache \in Nat
  BY LenProperties, LookupConstants DEF CacheOK
<1>1. /\ s \in Seq(Entries) /\ Unique(s) /\ Lacks(s, k) /\ DrawnFrom(s, cache)
      /\ Len(s) = IF L!Cached(k) THEN Len(cache) - 1 ELSE Len(cache)
  BY WithoutFacts
<1>2. CASE ~L!Cached(k)
  <2>1. L!Used(k) = cache /\ Lacks(cache, k)
    BY <1>2, CachedFacts DEF L!Used
  <2> QED BY <1>0, <2>1 DEF DrawnFrom
<1>3. CASE L!Cached(k) /\ ~L!Hit(k)
  <2>1. L!Used(k) = s
    BY <1>3 DEF L!Used
  <2> HIDE DEF s
  <2> QED BY <1>0, <1>1, <1>3, <2>1
<1>4. CASE L!Cached(k) /\ L!Hit(k)
  <2>1. L!Used(k) = Append(s, e)
    BY <1>4 DEF L!Used
  <2>2. e.key = k /\ e \in Entries /\ \E m \in 1 .. Len(cache) : e = cache[m]
    BY <1>4, CachedFacts
  <2> HIDE DEF s, e
  <2>3. /\ Append(s, e) \in Seq(Entries) /\ Len(Append(s, e)) = Len(s) + 1
        /\ Unique(Append(s, e))
        /\ \A n \in 1 .. Len(s) + 1 :
             Append(s, e)[n] = e \/ \E m \in 1 .. Len(s) : Append(s, e)[n] = s[m]
    <3>1. s \in Seq(Entries) /\ e \in Entries /\ Unique(s) /\ Lacks(s, e.key)
      BY <1>1, <2>2
    <3> QED BY <3>1, AppendedFacts
  <2>4. Len(Append(s, e)) = Len(cache)
    BY <1>0, <1>1, <1>4, <2>3
  <2>5. DrawnFrom(Append(s, e), cache)
    BY <1>1, <2>2, <2>3 DEF DrawnFrom
  <2> QED BY <1>0, <1>4, <2>1, <2>3, <2>4, <2>5
<1> QED BY <1>2, <1>3, <1>4

\* A write leaves the new entry and what others have of other keys.
LEMMA StoredFacts ==
  ASSUME CacheOK, NEW k \in LookupKeys, NEW v \in {"found", "failed"},
         NEW b \in Nat, NEW e,
         e = [key |-> k, value |-> v, exp |-> time + Ttl, at |-> time, by |-> b]
  PROVE  /\ L!Stored(k, v, b) \in Seq(Entries) /\ Len(L!Stored(k, v, b)) <= MaxCache
         /\ Unique(L!Stored(k, v, b))
         /\ \A n \in 1 .. Len(L!Stored(k, v, b)) :
              \/ L!Stored(k, v, b)[n] = e
              \/ \E m \in 1 .. Len(cache) :
                   cache[m].key # k /\ L!Stored(k, v, b)[n] = cache[m]
<1> DEFINE s == L!Without(k)
           t == Append(s, e)
<1>0. Len(cache) \in Nat /\ Len(cache) <= MaxCache /\ MaxCache \in Nat \ {0}
  BY LenProperties, LookupConstants DEF CacheOK
<1>1. /\ s \in Seq(Entries) /\ Unique(s) /\ Lacks(s, k) /\ DrawnFrom(s, cache)
      /\ Len(s) = IF L!Cached(k) THEN Len(cache) - 1 ELSE Len(cache)
  BY WithoutFacts
<1>2. e \in Entries /\ e.key = k
  BY LookupConstants DEF Entries, CacheOK
<1>3. L!Stored(k, v, b) = L!Trimmed(t)
  BY DEF L!Stored
<1> HIDE DEF s
<1>4. /\ t \in Seq(Entries) /\ Len(t) = Len(s) + 1 /\ Unique(t)
      /\ \A n \in 1 .. Len(s) + 1 : t[n] = e \/ \E m \in 1 .. Len(s) : t[n] = s[m]
  BY <1>1, <1>2, AppendedFacts
<1> HIDE DEF t
<1>5. Len(t) <= MaxCache + 1
  BY <1>0, <1>1, <1>4
<1>6. /\ L!Trimmed(t) \in Seq(Entries) /\ Len(L!Trimmed(t)) <= MaxCache
      /\ Unique(L!Trimmed(t)) /\ DrawnFrom(L!Trimmed(t), t)
  BY <1>0, <1>4, <1>5, TrimmedFacts
<1>7. \A n \in 1 .. Len(s) : \E m \in 1 .. Len(cache) :
        cache[m].key # k /\ s[n] = cache[m]
  BY <1>1 DEF DrawnFrom, Lacks
<1>8. \A n \in 1 .. Len(L!Trimmed(t)) :
        \/ L!Trimmed(t)[n] = e
        \/ \E m \in 1 .. Len(cache) : cache[m].key # k /\ L!Trimmed(t)[n] = cache[m]
  <2> TAKE n \in 1 .. Len(L!Trimmed(t))
  <2>1. PICK i \in 1 .. Len(s) + 1 : L!Trimmed(t)[n] = t[i]
    BY <1>4, <1>6 DEF DrawnFrom
  <2>2. t[i] = e \/ \E m \in 1 .. Len(s) : t[i] = s[m]
    BY <1>4
  <2> QED BY <1>7, <2>1, <2>2
<1> QED BY <1>3, <1>6, <1>8

\* The keys depend on which cache it is, and that does not change.
LEMMA KeysStay ==
  kind' = kind => L!Keys' = L!Keys /\ LookupKeys' = LookupKeys /\ Entries' = Entries
BY DEF L!Keys, LookupKeys, Entries

LEMMA LookupInit == L!Init => LookupInv
<1> SUFFICES ASSUME L!Init PROVE LookupInv
  OBVIOUS
<1>1. /\ kind \in {"intel", "age"} /\ cache = <<>> /\ time = 0 /\ asked = {}
      /\ co = [c \in Coroutines |-> L!Idle]
  BY DEF L!Init
<1>2. CacheOK
  BY <1>1, LookupConstants DEF CacheOK, Unique
<1>3. \A c \in Coroutines : co[c].pc = "idle"
  BY <1>1 DEF L!Idle
<1>4. WaitersOK /\ L!AnswersFresh
  BY <1>3 DEF WaitersOK, L!AnswersFresh
<1>5. L!Idle \in Doing
  BY DEF L!Idle, Doing
<1> QED BY <1>1, <1>2, <1>4, <1>5 DEF LookupInv

\* The entries stay what they were if they are drawn from those of before.
LEMMA DrawnKeepsCache ==
  ASSUME CacheOK, kind' = kind, time' \in Nat, time <= time',
         asked' \subseteq LookupKeys, cache' \in Seq(Entries),
         Len(cache') <= MaxCache, Unique(cache'), DrawnFrom(cache', cache)
  PROVE  CacheOK'
<1>1. LookupKeys' = LookupKeys /\ Entries' = Entries
  BY KeysStay
<1>2. \A n \in 1 .. Len(cache') :
        cache'[n].exp = cache'[n].at + Ttl /\ cache'[n].at <= time'
  <2> TAKE n \in 1 .. Len(cache')
  <2>1. PICK m \in 1 .. Len(cache) : cache'[n] = cache[m]
    BY DEF DrawnFrom
  <2>2. cache[m] \in Entries
    BY ElementOfSeq DEF CacheOK
  <2>3. cache[m].at \in Nat /\ cache[m].exp = cache[m].at + Ttl /\ cache[m].at <= time
    BY <2>2 DEF Entries, CacheOK
  <2> QED BY <2>1, <2>3 DEF CacheOK
<1> QED BY <1>1, <1>2 DEF CacheOK

\* The waiting coroutines stay so if nothing is put into the cache, and only
\* coroutines that do not wait change.
LEMMA DrawnKeepsWaiters ==
  ASSUME CacheOK, WaitersOK, kind' = kind, time' \in Nat, time <= time',
         DrawnFrom(cache', cache),
         \A c \in Coroutines : co'[c].pc = "wait" => co'[c] = co[c]
  PROVE  WaitersOK'
<1>1. LookupKeys' = LookupKeys
  BY KeysStay
<1> SUFFICES ASSUME NEW c \in Coroutines, co'[c].pc = "wait", co'[c] = co[c]
             PROVE  /\ co[c].key \in LookupKeys
                    /\ co[c].since \in Nat /\ co[c].since <= time'
                    /\ co[c].answer = None
                    /\ \A n \in 1 .. Len(cache') :
                         cache'[n].key = co[c].key => co[c].since <= cache'[n].at
  BY <1>1 DEF WaitersOK
<1>2. /\ co[c].key \in LookupKeys /\ co[c].since \in Nat /\ co[c].since <= time
      /\ co[c].answer = None
      /\ \A n \in 1 .. Len(cache) :
           cache[n].key = co[c].key => co[c].since <= cache[n].at
  BY DEF WaitersOK
<1>3. co[c].since <= time'
  <2>1. time \in Nat
    BY DEF CacheOK
  <2>. QED BY <1>2, <2>1
<1>4. ASSUME NEW n \in 1 .. Len(cache'), cache'[n].key = co[c].key
      PROVE  co[c].since <= cache'[n].at
  <2>1. PICK m \in 1 .. Len(cache) : cache'[n] = cache[m]
    BY DEF DrawnFrom
  <2>. QED BY <1>2, <1>4, <2>1
<1>. QED BY <1>2, <1>3, <1>4

\* What a step may do to the answers that are still good: nothing, unless it is
\* the write of a lookup that began before they were stored.
AnswersLost ==
  \A m \in DOMAIN cache, n \in DOMAIN cache' :
    /\ cache[m].key = cache'[n].key
    /\ cache[m].value = "found" /\ cache'[n].value = "failed"
    /\ L!Fresh(cache[m])
    => cache'[n].by <= cache[m].at

LEMMA DrawnLosesNothing ==
  ASSUME CacheOK, cache' \in Seq(Entries), DrawnFrom(cache', cache)
  PROVE  AnswersLost
<1>1. DOMAIN cache = 1 .. Len(cache) /\ DOMAIN cache' = 1 .. Len(cache')
  BY LenProperties DEF CacheOK
<1> SUFFICES ASSUME NEW m \in 1 .. Len(cache), NEW n \in 1 .. Len(cache'),
                    cache[m].key = cache'[n].key,
                    cache[m].value = "found", cache'[n].value = "failed"
             PROVE  FALSE
  BY <1>1 DEF AnswersLost
<1>2. PICK i \in 1 .. Len(cache) : cache'[n] = cache[i]
  BY DEF DrawnFrom
<1>3. i = m
  BY <1>2 DEF CacheOK, Unique
<1> QED BY <1>2, <1>3

\* One coroutine goes elsewhere.
LEMMA OneCoroutineMoves ==
  ASSUME NEW c \in Coroutines, NEW r, NEW R, co \in [Coroutines -> R], r \in R,
         co' = [co EXCEPT ![c] = r]
  PROVE  /\ co' \in [Coroutines -> R] /\ co'[c] = r
         /\ \A d \in Coroutines \ {c} : co'[d] = co[d]
OBVIOUS

LEMMA FetchedStep ==
  ASSUME LookupInv, NEW c \in Coroutines, L!Fetched(c)
  PROVE  LookupInv' /\ AnswersLost
<1>1. PICK v \in {"found", "failed"} :
        /\ cache' = L!Stored(co[c].key, v, co[c].since)
        /\ co' = [co EXCEPT ![c].pc = "done", ![c].answer = v, ![c].at = time]
  BY DEF L!Fetched
<1>2. co[c].pc = "wait" /\ kind' = kind /\ asked' = asked /\ time' = time
  BY DEF L!Fetched
<1>3. PICK k, b : k = co[c].key /\ b = co[c].since
  OBVIOUS
<1>4. /\ k \in LookupKeys /\ b \in Nat /\ b <= time
      /\ \A n \in 1 .. Len(cache) : cache[n].key = k => b <= cache[n].at
  BY <1>2, <1>3 DEF LookupInv, WaitersOK
<1>5. PICK e : e = [key |-> k, value |-> v, exp |-> time + Ttl, at |-> time, by |-> b]
  OBVIOUS
<1>6. /\ cache' \in Seq(Entries) /\ Len(cache') <= MaxCache /\ Unique(cache')
      /\ \A n \in 1 .. Len(cache') :
           cache'[n] = e \/ \E m \in 1 .. Len(cache) :
                              cache[m].key # k /\ cache'[n] = cache[m]
  BY <1>1, <1>3, <1>4, <1>5, StoredFacts DEF LookupInv
<1>7. Entries' = Entries /\ LookupKeys' = LookupKeys
  BY <1>2, KeysStay
<1>8. time \in Nat /\ CacheOK
  BY DEF LookupInv, CacheOK
<1>9. CacheOK'
  <2>1. \A n \in 1 .. Len(cache') :
          cache'[n].exp = cache'[n].at + Ttl /\ cache'[n].at <= time
    BY <1>5, <1>6, <1>8 DEF CacheOK
  <2> QED BY <1>2, <1>6, <1>7, <1>8, <2>1 DEF CacheOK
<1>10. PICK r : r = [co[c] EXCEPT !.pc = "done", !.answer = v, !.at = time]
  OBVIOUS
<1>11. r \in Doing /\ r.pc = "done" /\ r.answer = v /\ r.at = time /\ r.since = b
  <2>1. co[c] \in Doing
    BY DEF LookupInv
  <2> QED BY <1>3, <1>8, <1>10, <2>1 DEF Doing
<1>12. /\ co' \in [Coroutines -> Doing] /\ co'[c] = r
       /\ \A d \in Coroutines \ {c} : co'[d] = co[d]
  <2>1. co' = [co EXCEPT ![c] = r] /\ co \in [Coroutines -> Doing]
    BY <1>1, <1>10 DEF LookupInv
  <2> QED BY <1>11, <2>1, OneCoroutineMoves
<1>13. L!AnswersFresh'
  <2>1. r.since < r.at + Ttl
    BY <1>4, <1>8, <1>11, LookupConstants
  <2> QED BY <1>12, <2>1 DEF LookupInv, L!AnswersFresh
<1>14. WaitersOK'
  <2> SUFFICES ASSUME NEW d \in Coroutines \ {c}, co[d].pc = "wait"
               PROVE  /\ co[d].key \in LookupKeys
                      /\ co[d].since \in Nat /\ co[d].since <= time
                      /\ co[d].answer = None
                      /\ \A n \in 1 .. Len(cache') :
                           cache'[n].key = co[d].key => co[d].since <= cache'[n].at
    BY <1>2, <1>7, <1>11, <1>12 DEF WaitersOK
  <2>1. /\ co[d].key \in LookupKeys /\ co[d].since \in Nat /\ co[d].since <= time
        /\ co[d].answer = None
        /\ \A n \in 1 .. Len(cache) :
             cache[n].key = co[d].key => co[d].since <= cache[n].at
    BY DEF LookupInv, WaitersOK
  <2> QED BY <1>5, <1>6, <2>1
<1>15. AnswersLost
  <2>1. DOMAIN cache = 1 .. Len(cache) /\ DOMAIN cache' = 1 .. Len(cache')
    BY <1>6, <1>8, LenProperties DEF CacheOK
  <2> SUFFICES ASSUME NEW m \in 1 .. Len(cache), NEW n \in 1 .. Len(cache'),
                      cache[m].key = cache'[n].key,
                      cache[m].value = "found", cache'[n].value = "failed"
               PROVE  cache'[n].by <= cache[m].at
    BY <2>1 DEF AnswersLost
  <2>2. CASE cache'[n] = e
    BY <1>4, <1>5, <2>2
  <2>3. ASSUME NEW i \in 1 .. Len(cache), cache'[n] = cache[i] PROVE FALSE
    <3>1. i = m
      BY <1>8, <2>3 DEF CacheOK, Unique
    <3> QED BY <2>3, <3>1
  <2> QED BY <1>6, <2>2, <2>3
<1> QED BY <1>7, <1>9, <1>12, <1>13, <1>14, <1>15 DEF LookupInv, Doing

\* Steps that put nothing into the cache: a coroutine goes somewhere, and if it
\* waits then, it left no entry of its key; if it has an answer, a good one.
LEMMA MovedStep ==
  ASSUME LookupInv, NEW c \in Coroutines, NEW r \in Doing,
         co' = [co EXCEPT ![c] = r], kind' = kind, time' = time,
         asked' \subseteq LookupKeys, cache' \in Seq(Entries),
         Len(cache') <= MaxCache, Unique(cache'), DrawnFrom(cache', cache),
         r.pc = "wait" =>
           /\ r.key \in LookupKeys /\ r.answer = None /\ r.since = time
           /\ Lacks(cache', r.key),
         r.pc = "done" /\ r.answer # None => r.since < r.at + Ttl
  PROVE  LookupInv' /\ AnswersLost
<1>1. /\ co' \in [Coroutines -> Doing] /\ co'[c] = r
      /\ \A d \in Coroutines \ {c} : co'[d] = co[d]
  BY OneCoroutineMoves DEF LookupInv
<1>2. LookupKeys' = LookupKeys /\ Doing' = Doing
  BY KeysStay DEF Doing
<1>3. CacheOK /\ WaitersOK /\ L!AnswersFresh /\ time \in Nat
  BY DEF LookupInv, CacheOK
<1>4. CacheOK'
  BY <1>3, DrawnKeepsCache
<1>5. L!AnswersFresh'
  BY <1>1, <1>3 DEF L!AnswersFresh
<1>6. WaitersOK'
  <2> SUFFICES ASSUME NEW d \in Coroutines, co'[d].pc = "wait"
               PROVE  /\ co'[d].key \in LookupKeys
                      /\ co'[d].since \in Nat /\ co'[d].since <= time
                      /\ co'[d].answer = None
                      /\ \A n \in 1 .. Len(cache') :
                           cache'[n].key = co'[d].key => co'[d].since <= cache'[n].at
    BY <1>2 DEF WaitersOK
  <2>1. CASE d = c
    BY <1>1, <1>3, <2>1 DEF Lacks
  <2>2. CASE d # c
    <3>1. /\ co[d].key \in LookupKeys /\ co[d].since \in Nat /\ co[d].since <= time
          /\ co[d].answer = None
          /\ \A n \in 1 .. Len(cache) :
               cache[n].key = co[d].key => co[d].since <= cache[n].at
      BY <1>1, <1>3, <2>2 DEF WaitersOK
    <3> QED BY <1>1, <2>2, <3>1 DEF DrawnFrom
  <2> QED BY <2>1, <2>2
<1>7. AnswersLost
  BY <1>3, DrawnLosesNothing
<1> QED BY <1>1, <1>2, <1>4, <1>5, <1>6, <1>7 DEF LookupInv

LEMMA GetCachedStep ==
  ASSUME LookupInv, NEW c \in Coroutines, L!GetCached(c)
  PROVE  LookupInv' /\ AnswersLost
<1>1. PICK k \in LookupKeys :
        /\ cache' = L!Used(k)
        /\ IF L!Hit(k)
           THEN /\ co' = [co EXCEPT ![c] =
                      [pc |-> "done", key |-> k, since |-> time,
                       answer |-> L!EntryOf(k).value, at |-> L!EntryOf(k).at]]
                /\ asked' = asked
           ELSE L!Goto(c, "wait", k) /\ asked' = asked \cup {k}
  BY DEF L!GetCached, LookupKeys
<1>2. kind' = kind /\ time' = time
  BY DEF L!GetCached
<1>3. CacheOK /\ asked \subseteq LookupKeys /\ time \in Nat
  BY DEF LookupInv, CacheOK
<1>4. /\ cache' \in Seq(Entries) /\ Len(cache') <= MaxCache
      /\ Unique(cache') /\ DrawnFrom(cache', cache)
      /\ ~L!Hit(k) => Lacks(cache', k)
  BY <1>1, <1>3, UsedFacts
<1>5. asked' \subseteq LookupKeys
  BY <1>1, <1>3
<1>6. CASE L!Hit(k)
  <2>1. /\ L!EntryOf(k) \in Entries /\ L!Cached(k)
        /\ \E n \in 1 .. Len(cache) : L!EntryOf(k) = cache[n]
    BY <1>3, <1>6, CachedFacts DEF L!Hit
  <2>2. time < L!EntryOf(k).exp /\ L!EntryOf(k).exp = L!EntryOf(k).at + Ttl
    BY <1>3, <1>6, <2>1 DEF L!Hit, L!Fresh, CacheOK
  <2>3. PICK e : e = L!EntryOf(k)
    OBVIOUS
  <2>4. e.value \in {"found", "failed"} /\ e.at \in Nat /\ time < e.at + Ttl
    BY <2>1, <2>2, <2>3 DEF Entries
  <2>5. PICK r : r = [pc |-> "done", key |-> k, since |-> time,
                      answer |-> e.value, at |-> e.at]
    OBVIOUS
  <2>6. /\ r \in Doing /\ r.pc = "done" /\ r.since < r.at + Ttl
    BY <1>3, <2>4, <2>5 DEF Doing
  <2>7. co' = [co EXCEPT ![c] = r]
    BY <1>1, <1>6, <2>3, <2>5
  <2> QED BY <1>2, <1>4, <1>5, <2>6, <2>7, MovedStep
<1>7. CASE ~L!Hit(k)
  <2>1. PICK r : r = [pc |-> "wait", key |-> k, since |-> time, answer |-> None,
                      at |-> time]
    OBVIOUS
  <2>2. /\ r \in Doing /\ r.pc = "wait" /\ r.key = k /\ r.answer = None
        /\ r.since = time
    BY <1>3, <2>1 DEF Doing
  <2>3. co' = [co EXCEPT ![c] = r]
    BY <1>1, <1>7, <2>1 DEF L!Goto
  <2>4. r.key \in LookupKeys /\ Lacks(cache', r.key)
    BY <1>4, <1>7, <2>2
  <2> QED BY <1>2, <1>4, <1>5, <2>2, <2>3, <2>4, MovedStep
<1> QED BY <1>6, <1>7

\* What is drawn from an unchanged cache
LEMMA SameIsDrawn ==
  ASSUME LookupInv, cache' = cache
  PROVE  /\ cache' \in Seq(Entries) /\ Len(cache') <= MaxCache
         /\ Unique(cache') /\ DrawnFrom(cache', cache)
BY DEF LookupInv, CacheOK, DrawnFrom

LEMMA RefuseStep ==
  ASSUME LookupInv, NEW c \in Coroutines, L!Refuse(c)
  PROVE  LookupInv' /\ AnswersLost
<1>1. PICK r : r = [pc |-> "done", key |-> None, since |-> time, answer |-> None,
                    at |-> time]
  OBVIOUS
<1>2. /\ co' = [co EXCEPT ![c] = r] /\ kind' = kind /\ time' = time
      /\ cache' = cache /\ asked' = asked
  BY <1>1 DEF L!Refuse, L!Goto
<1>3. asked \subseteq LookupKeys /\ time \in Nat
  BY DEF LookupInv, CacheOK
<1>4. r \in Doing /\ r.pc = "done" /\ r.answer = None
  BY <1>1, <1>3 DEF Doing
<1> QED BY <1>2, <1>3, <1>4, SameIsDrawn, MovedStep

LEMMA DroppedStep ==
  ASSUME LookupInv, NEW c \in Coroutines, L!Dropped(c)
  PROVE  LookupInv' /\ AnswersLost
<1>1. PICK r : r = [co[c] EXCEPT !.pc = "done"]
  OBVIOUS
<1>2. /\ co' = [co EXCEPT ![c] = r] /\ kind' = kind /\ time' = time
      /\ cache' = cache /\ asked' = asked /\ co[c].pc = "wait"
  BY <1>1 DEF L!Dropped
<1>3. asked \subseteq LookupKeys /\ co[c] \in Doing /\ co[c].answer = None
  BY <1>2 DEF LookupInv, CacheOK, WaitersOK
<1>4. r \in Doing /\ r.pc = "done" /\ r.answer = None
  BY <1>1, <1>3 DEF Doing
<1> QED BY <1>2, <1>3, <1>4, SameIsDrawn, MovedStep

LEMMA TimeStep == ASSUME LookupInv, L!Tick PROVE LookupInv' /\ AnswersLost
<1>1. /\ kind' = kind /\ cache' = cache /\ co' = co /\ asked' = asked
      /\ time' = time + 1
  BY DEF L!Tick
<1>2. CacheOK /\ WaitersOK /\ time \in Nat /\ asked \subseteq LookupKeys
  BY DEF LookupInv, CacheOK
<1>3. time' \in Nat /\ time <= time'
  BY <1>1, <1>2
<1>4. CacheOK' /\ WaitersOK'
  BY <1>1, <1>2, <1>3, SameIsDrawn, DrawnKeepsCache, DrawnKeepsWaiters
<1>5. AnswersLost
  BY <1>1, <1>2, SameIsDrawn, DrawnLosesNothing
<1>6. L!AnswersFresh' /\ Doing' = Doing
  BY <1>1, KeysStay DEF LookupInv, L!AnswersFresh, Doing
<1> QED BY <1>1, <1>4, <1>5, <1>6 DEF LookupInv

LEMMA LookupStep ==
  ASSUME LookupInv, [L!Next]_lookup
  PROVE  LookupInv' /\ (AnswersLost \/ UNCHANGED lookup)
<1>1. CASE UNCHANGED lookup
  <2>1. /\ kind' = kind /\ cache' = cache /\ co' = co /\ asked' = asked
        /\ time' = time
    BY <1>1 DEF lookup
  <2>2. Doing' = Doing /\ LookupKeys' = LookupKeys /\ Entries' = Entries
    BY <2>1, KeysStay DEF Doing
  <2>3. CacheOK' /\ WaitersOK' /\ L!AnswersFresh'
    BY <2>1, <2>2 DEF LookupInv, CacheOK, WaitersOK, L!AnswersFresh
  <2> QED BY <1>1, <2>1, <2>2, <2>3 DEF LookupInv
<1>2. ASSUME NEW c \in Coroutines, L!LookUp(c) PROVE LookupInv' /\ AnswersLost
  BY <1>2, RefuseStep, GetCachedStep, FetchedStep, DroppedStep DEF L!LookUp
<1>3. CASE L!Tick
  BY <1>3, TimeStep
<1> QED BY <1>1, <1>2, <1>3 DEF L!Next

\* Each entry has a key of its own, so there are as many keys as entries.
LEMMA KeysOfEntries ==
  ASSUME NEW E, NEW s \in Seq(E), Unique(s)
  PROVE  Cardinality({s[n].key : n \in DOMAIN s}) = Len(s)
<1> DEFINE K == {s[n].key : n \in 1 .. Len(s)}
           f == [n \in 1 .. Len(s) |-> s[n].key]
<1>1. Len(s) \in Nat /\ DOMAIN s = 1 .. Len(s)
  BY LenProperties
<1>2. f \in Bijection(1 .. Len(s), K)
  BY DEF Unique, Bijection, Injection, Surjection, IsInjective
<1>3. IsFiniteSet(1 .. Len(s)) /\ Cardinality(1 .. Len(s)) = Len(s)
  BY <1>1, FS_Interval
<1>4. ExistsBijection(1 .. Len(s), K)
  <2> HIDE DEF f, K
  <2> QED BY <1>2 DEF ExistsBijection
<1>5. Cardinality(K) = Len(s)
  <2> HIDE DEF K
  <2> QED BY <1>3, <1>4, FS_Bijection
<1> QED BY <1>1, <1>5

LEMMA LookupInvIsSound ==
  LookupInv => L!TypeOK /\ L!OnlyPublicLeaves /\ L!AnswersFresh
<1> SUFFICES ASSUME LookupInv PROVE L!TypeOK /\ L!OnlyPublicLeaves
  BY DEF LookupInv
<1>1. /\ cache \in Seq(Entries) /\ Unique(cache) /\ Len(cache) <= MaxCache
      /\ asked \subseteq LookupKeys /\ LookupKeys \subseteq L!Keys
  BY DEF LookupInv, CacheOK, LookupKeys
<1>2. DOMAIN cache = 1 .. Len(cache) /\ \A n \in DOMAIN cache : cache[n] \in Entries
  BY <1>1, LenProperties, ElementOfSeq
<1>3. L!Cardinality({cache[n].key : n \in DOMAIN cache}) = Len(cache)
  BY <1>1, KeysOfEntries, SameCardinality
<1>4. L!TypeOK
  BY <1>1, <1>2, <1>3 DEF L!TypeOK, Entries, LookupKeys
<1>5. kind = "intel" => LookupKeys \subseteq Public
  <2> SUFFICES ASSUME kind = "intel", NEW k \in LookupKeys PROVE k \in Public
    OBVIOUS
  <2>1. k # None /\ \E x : k = L!LookedUp(x)
    BY DEF LookupKeys, L!Keys
  <2> QED BY <2>1 DEF L!LookedUp
<1>6. L!OnlyPublicLeaves
  BY <1>1, <1>5 DEF L!OnlyPublicLeaves
<1> QED BY <1>4, <1>6

-----------------------------------------------------------------------------
(* The connection tracker                                                  *)

R == C!Retention

\* A connection that is not in the set any more was so old that a later one
\* pruned it, or is older than as many as the cap allows, or was there when the
\* key expired: then those recorded since are younger by far.
Excused(j) ==
  \/ \E i \in DOMAIN conns : C!Ts(j) <= C!Ts(i) - R
  \/ Cardinality({i \in DOMAIN conns : C!Ts(i) >= C!Ts(j)}) > Cap
  \/ \E e \in 1 .. clock :
       /\ C!Ts(j) <= e - R
       /\ \A i \in DOMAIN conns : C!Ts(i) <= e - R \/ C!Ts(i) >= e - Lag

ConnInv ==
  /\ clock \in Nat \ {0} /\ expiry \in Nat
  /\ conns \in Seq([ts : Nat, bytes : Bytes])
  /\ \A j \in DOMAIN conns : C!Ts(j) <= clock /\ C!Ts(j) + R <= expiry
  /\ \E t \in 0 .. clock : /\ \A j \in DOMAIN conns : C!Ts(j) <= t
                           /\ t = 0 \/ \E j \in DOMAIN conns : C!Ts(j) = t
  /\ stored \subseteq DOMAIN conns
  /\ \A j \in DOMAIN conns \ stored : Excused(j)

\* The longest window is the retention; the others are shorter by more than the
\* lag of a record.
LEMMA ConnConstants ==
  /\ Cap \in Nat \ {0} /\ Lag \in Nat /\ R \in Nat \ {0} /\ R = BeaconWindow
  /\ DdosWindow \in Nat /\ DdosWindow + Lag < R
  /\ ExfilWindow \in Nat /\ ExfilWindow + Lag < R
  /\ \A w \in C!Windows : w \in Nat /\ (w = R \/ w + Lag < R)
<1>1. C!ConnAssumption
  BY SignalsAssumption
<1>2. /\ Cap \in Nat \ {0} /\ Lag \in Nat
      /\ DdosWindow \in Nat \ {0} /\ BeaconWindow \in Nat \ {0} /\ ExfilWindow \in Nat \ {0}
      /\ DdosWindow + Lag \in 0 .. BeaconWindow - 1
      /\ ExfilWindow + Lag \in 0 .. BeaconWindow - 1
  BY <1>1 DEF C!ConnAssumption, C!Windows
<1>3. DdosWindow + Lag < BeaconWindow /\ ExfilWindow + Lag < BeaconWindow
  BY <1>2
<1>4. \A w \in C!Windows : w \in Nat /\ (w = BeaconWindow \/ w + Lag < BeaconWindow)
  BY <1>2, <1>3 DEF C!Windows
<1>5. BeaconWindow \in C!Windows /\ \A w \in C!Windows : BeaconWindow >= w
  <2>1. \A w \in C!Windows : BeaconWindow >= w
    BY <1>2, <1>4
  <2> QED BY <2>1 DEF C!Windows
<1>6. R = BeaconWindow
  <2>1. R \in C!Windows /\ \A w \in C!Windows : R >= w
    BY <1>5 DEF R, C!Retention
  <2>2. R >= BeaconWindow /\ BeaconWindow >= R /\ R \in Nat
    BY <1>4, <1>5, <2>1
  <2> QED BY <1>2, <2>2
<1> QED BY <1>2, <1>3, <1>4, <1>6

\* The stamps of a list of connections
LEMMA ConnFacts ==
  ASSUME ConnInv
  PROVE  /\ Len(conns) \in Nat /\ DOMAIN conns = 1 .. Len(conns)
         /\ \A j \in DOMAIN conns : C!Ts(j) \in Nat /\ C!Ts(j) = conns[j].ts
         /\ IsFiniteSet(DOMAIN conns)
<1>1. /\ conns \in Seq([ts : Nat, bytes : Bytes]) /\ Len(conns) \in Nat
      /\ DOMAIN conns = 1 .. Len(conns)
  BY LenProperties DEF ConnInv
<1>2. \A j \in DOMAIN conns : conns[j] \in [ts : Nat, bytes : Bytes]
  BY <1>1, ElementOfSeq
<1>3. IsFiniteSet(1 .. Len(conns))
  BY <1>1, FS_Interval
<1> QED BY <1>1, <1>2, <1>3 DEF C!Ts

LEMMA ConnInit == C!Init => ConnInv
<1> SUFFICES ASSUME C!Init PROVE ConnInv
  OBVIOUS
<1>1. conns = <<>> /\ stored = {} /\ expiry = 0 /\ clock = 1
  BY DEF C!Init
<1>2. DOMAIN conns = {} /\ conns \in Seq([ts : Nat, bytes : Bytes])
  BY <1>1
<1> QED BY <1>1, <1>2 DEF ConnInv

\* What the cap drops is no younger than as many as the cap allows.
LEMMA CappedFacts ==
  ASSUME NEW all, NEW S, IsFiniteSet(S), NEW T \in C!Capped(S, all),
         NEW j \in S \ T
  PROVE  /\ T \subseteq S /\ IsFiniteSet(T \cup {j})
         /\ Cardinality(T \cup {j}) = Cap + 1
         /\ \A k \in T : all[j].ts <= all[k].ts
<1>1. /\ T \subseteq S
      /\ Cardinality(T) = IF Cardinality(S) > Cap THEN Cap ELSE Cardinality(S)
      /\ \A k \in T : all[j].ts <= all[k].ts
  BY SameCardinality DEF C!Capped
<1>2. IsFiniteSet(T) /\ (Cardinality(S) = Cardinality(T) => S = T)
  BY <1>1, FS_Subset
<1>3. Cardinality(T) = Cap
  BY <1>1, <1>2
<1>4. IsFiniteSet(T \cup {j}) /\ Cardinality(T \cup {j}) = Cardinality(T) + 1
  BY <1>2, FS_AddElement
<1> QED BY <1>1, <1>3, <1>4

LEMMA RecordStep ==
  ASSUME ConnInv, NEW lag \in 0 .. Lag, NEW bytes \in Bytes, clock > lag,
         C!Record(clock - lag, bytes)
  PROVE  ConnInv'
<1> DEFINE N == Len(conns) + 1
           new == [ts |-> clock - lag, bytes |-> bytes]
<1>1. /\ conns' = Append(conns, new) /\ clock' = clock /\ expiry' = clock + R
      /\ stored' \in C!Capped(C!Pruned(stored \cup {Len(conns')}, conns', clock - lag),
                              conns')
  BY DEF C!Record, C!Expires, R
<1>2. /\ Len(conns) \in Nat /\ DOMAIN conns = 1 .. Len(conns)
      /\ \A j \in DOMAIN conns : C!Ts(j) \in Nat /\ C!Ts(j) = conns[j].ts
      /\ IsFiniteSet(DOMAIN conns)
  BY ConnFacts
<1>3. clock \in Nat \ {0} /\ clock - lag \in 1 .. clock /\ clock - lag >= clock - Lag
  BY ConnConstants DEF ConnInv
<1>4. new \in [ts : Nat, bytes : Bytes] /\ new.ts = clock - lag
  BY <1>3
<1> HIDE DEF new
<1>5. /\ conns' \in Seq([ts : Nat, bytes : Bytes]) /\ Len(conns') = N
      /\ \A j \in 1 .. Len(conns) : conns'[j] = conns[j]
      /\ conns'[N] = new
  BY <1>1, <1>4, AppendProperties DEF ConnInv
<1>6. DOMAIN conns' = DOMAIN conns \cup {N}
  <2>1. DOMAIN conns' = 1 .. N
    BY <1>5, LenProperties
  <2> QED BY <1>2, <2>1
<1> DEFINE T(j) == conns'[j].ts
<1>7. /\ \A j \in DOMAIN conns : T(j) = C!Ts(j) /\ T(j) \in Nat
      /\ T(N) = clock - lag
  BY <1>2, <1>4, <1>5
<1>8. \A j : C!Ts(j)' = T(j)
  BY DEF C!Ts
<1> HIDE DEF N, T
<1>9. N \in DOMAIN conns' /\ \A j \in DOMAIN conns' : T(j) \in Nat
  BY <1>3, <1>6, <1>7
<1>10. R \in Nat \ {0} /\ Cap \in Nat \ {0} /\ Lag \in Nat
  BY ConnConstants
<1>11. \A j \in DOMAIN conns' : T(j) <= clock /\ T(j) + R <= clock + R
  <2>1. \A j \in DOMAIN conns : C!Ts(j) <= clock
    BY DEF ConnInv
  <2>2. \A j \in DOMAIN conns' : T(j) <= clock
    BY <1>3, <1>6, <1>7, <2>1
  <2> QED BY <1>3, <1>9, <1>10, <2>2
<1>12. \E t \in 0 .. clock : /\ \A j \in DOMAIN conns' : T(j) <= t
                             /\ t = 0 \/ \E j \in DOMAIN conns' : T(j) = t
  <2>1. PICK t \in 0 .. clock : /\ \A j \in DOMAIN conns : C!Ts(j) <= t
                                /\ t = 0 \/ \E j \in DOMAIN conns : C!Ts(j) = t
    BY DEF ConnInv
  <2>2. CASE clock - lag >= t
    <3>1. \A j \in DOMAIN conns : T(j) <= clock - lag
      BY <1>3, <1>7, <2>1, <2>2
    <3>2. /\ \A j \in DOMAIN conns' : T(j) <= clock - lag
          /\ T(N) = clock - lag /\ N \in DOMAIN conns'
      BY <1>3, <1>6, <1>7, <1>9, <3>1
    <3> QED BY <1>3, <3>2
  <2>3. CASE clock - lag < t
    <3>1. \A j \in DOMAIN conns' : T(j) <= t
      BY <1>3, <1>6, <1>7, <2>1, <2>3
    <3>2. t = 0 \/ \E j \in DOMAIN conns' : T(j) = t
      BY <1>6, <1>7, <2>1
    <3> QED BY <3>1, <3>2
  <2> QED BY <1>3, <2>1, <2>2, <2>3
<1> DEFINE S == stored \cup {N}
           P == {k \in S : T(k) > clock - lag - R}
<1>13. /\ C!Pruned(stored \cup {Len(conns')}, conns', clock - lag) = P
       /\ stored' \in C!Capped(P, conns') /\ stored' \subseteq P
  <2>1. C!Pruned(stored \cup {Len(conns')}, conns', clock - lag) = P
    BY <1>5 DEF C!Pruned, R, N, T
  <2> QED BY <1>1, <2>1 DEF C!Capped
<1>14. S \subseteq DOMAIN conns' /\ P \subseteq DOMAIN conns' /\ IsFiniteSet(DOMAIN conns')
  <2>1. stored \subseteq DOMAIN conns
    BY DEF ConnInv
  <2>2. IsFiniteSet(DOMAIN conns')
    BY <1>2, <1>6, FS_AddElement
  <2> QED BY <1>6, <2>1, <2>2
<1> DEFINE E(j) ==
             \/ \E i \in DOMAIN conns' : T(j) <= T(i) - R
             \/ Cardinality({i \in DOMAIN conns' : T(i) >= T(j)}) > Cap
             \/ \E e \in 1 .. clock :
                  /\ T(j) <= e - R
                  /\ \A i \in DOMAIN conns' : T(i) <= e - R \/ T(i) >= e - Lag
<1>15. ASSUME NEW j \in DOMAIN conns \ stored PROVE E(j)
  <2>1. Excused(j)
    BY <1>15 DEF ConnInv
  <2>2. CASE \E i \in DOMAIN conns : C!Ts(j) <= C!Ts(i) - R
    BY <1>6, <1>7, <2>2
  <2>3. CASE Cardinality({i \in DOMAIN conns : C!Ts(i) >= C!Ts(j)}) > Cap
    <3> DEFINE before == {i \in DOMAIN conns : C!Ts(i) >= C!Ts(j)}
               after == {i \in DOMAIN conns' : T(i) >= T(j)}
    <3>1. before \subseteq after /\ after \subseteq DOMAIN conns'
      BY <1>6, <1>7, <1>15
    <3>2. IsFiniteSet(after)
      BY <1>14, <3>1, FS_Subset
    <3>3. /\ IsFiniteSet(before) /\ Cardinality(before) <= Cardinality(after)
          /\ Cardinality(before) \in Nat /\ Cardinality(after) \in Nat
      BY <3>1, <3>2, FS_Subset, FS_CardinalityType
    <3> HIDE DEF before
    <3>4. Cardinality(before) > Cap
      BY <2>3 DEF before
    <3> QED BY <1>10, <3>3, <3>4
  <2>4. CASE \E e \in 1 .. clock :
               /\ C!Ts(j) <= e - R
               /\ \A i \in DOMAIN conns : C!Ts(i) <= e - R \/ C!Ts(i) >= e - Lag
    <3>1. PICK e \in 1 .. clock :
                 /\ C!Ts(j) <= e - R
                 /\ \A i \in DOMAIN conns : C!Ts(i) <= e - R \/ C!Ts(i) >= e - Lag
      BY <2>4
    <3>2. T(N) >= e - Lag
      BY <1>3, <1>7, <1>10, <3>1
    <3>3. \A i \in DOMAIN conns' : T(i) <= e - R \/ T(i) >= e - Lag
      BY <1>6, <1>7, <3>1, <3>2
    <3>4. T(j) <= e - R
      BY <1>7, <1>15, <3>1
    <3> QED BY <3>3, <3>4
  <2> QED BY <2>1, <2>2, <2>3, <2>4 DEF Excused
<1>16. ASSUME NEW j \in S \ P PROVE E(j)
  <2>1. T(j) <= T(N) - R
    BY <1>3, <1>7, <1>9, <1>10, <1>14, <1>16
  <2> QED BY <1>9, <2>1
<1>17. ASSUME NEW j \in P \ stored' PROVE E(j)
  <2>1. IsFiniteSet(P)
    BY <1>14, FS_Subset
  <2> HIDE DEF P
  <2>2. /\ stored' \subseteq P /\ IsFiniteSet(stored' \cup {j})
        /\ Cardinality(stored' \cup {j}) = Cap + 1
        /\ \A k \in stored' : conns'[j].ts <= conns'[k].ts
    BY <1>13, <1>17, <2>1, CappedFacts
  <2> DEFINE after == {i \in DOMAIN conns' : T(i) >= T(j)}
  <2>3. stored' \cup {j} \subseteq after /\ after \subseteq DOMAIN conns'
    <3>1. \A k \in stored' : T(j) <= T(k)
      BY <2>2 DEF T
    <3> QED BY <1>9, <1>14, <1>17, <2>2, <3>1
  <2>4. IsFiniteSet(after)
    BY <1>14, <2>3, FS_Subset
  <2>5. Cap + 1 <= Cardinality(after) /\ Cardinality(after) \in Nat
    <3> HIDE DEF after
    <3> QED BY <2>2, <2>3, <2>4, FS_Subset, FS_CardinalityType
  <2> QED BY <1>10, <2>5
<1>18. \A j \in DOMAIN conns' \ stored' : E(j)
  <2>1. \A j \in DOMAIN conns' \ stored' :
          j \in DOMAIN conns \ stored \/ j \in S \ P \/ j \in P \ stored'
    BY <1>6
  <2> HIDE DEF E, S, P
  <2> QED BY <1>15, <1>16, <1>17, <2>1
<1>19. \A j : E(j) => Excused(j)'
  BY <1>1, <1>8 DEF Excused
<1>20. stored' \subseteq DOMAIN conns'
  BY <1>13, <1>14
<1>21. \A j \in DOMAIN conns' \ stored' : Excused(j)'
  <2> HIDE DEF E
  <2> QED BY <1>18, <1>19
<1>22. /\ clock' \in Nat \ {0} /\ expiry' \in Nat
       /\ \A j \in DOMAIN conns' : C!Ts(j)' <= clock' /\ C!Ts(j)' + R <= expiry'
  BY <1>1, <1>3, <1>8, <1>10, <1>11
<1>23. \E t \in 0 .. clock' :
         /\ \A j \in DOMAIN conns' : C!Ts(j)' <= t
         /\ t = 0 \/ \E j \in DOMAIN conns' : C!Ts(j)' = t
  BY <1>1, <1>8, <1>12
<1> QED
  <2> HIDE DEF E, S, P
  <2> QED BY <1>5, <1>20, <1>21, <1>22, <1>23 DEF ConnInv

LEMMA SecondStep == ASSUME ConnInv, C!Tick PROVE ConnInv'
<1>1. /\ conns' = conns /\ expiry' = expiry /\ clock' = clock + 1
      /\ stored' = IF clock' >= expiry THEN {} ELSE stored
  BY DEF C!Tick
<1>2. \A j : C!Ts(j)' = C!Ts(j)
  BY <1>1 DEF C!Ts
<1>3. /\ clock \in Nat \ {0} /\ clock' \in Nat \ {0} /\ clock < clock'
      /\ \A e : e \in 1 .. clock => e \in 1 .. clock'
  BY <1>1 DEF ConnInv
<1>4. \A j \in DOMAIN conns : C!Ts(j) \in Nat
  BY ConnFacts
<1>5. ASSUME NEW j, Excused(j) PROVE Excused(j)'
  <2>1. {i \in DOMAIN conns' : C!Ts(i)' >= C!Ts(j)'}
          = {i \in DOMAIN conns : C!Ts(i) >= C!Ts(j)}
    BY <1>1, <1>2
  <2>2. CASE Cardinality({i \in DOMAIN conns : C!Ts(i) >= C!Ts(j)}) > Cap
    BY <2>1, <2>2 DEF Excused
  <2>3. CASE ~(Cardinality({i \in DOMAIN conns : C!Ts(i) >= C!Ts(j)}) > Cap)
    BY <1>1, <1>2, <1>3, <1>5, <2>3 DEF Excused
  <2> QED BY <2>2, <2>3
<1>6. ASSUME clock' >= expiry, NEW j \in DOMAIN conns PROVE Excused(j)'
  <2>1. \A i \in DOMAIN conns : C!Ts(i) <= clock' - R
    BY <1>3, <1>4, <1>6, ConnConstants DEF ConnInv
  <2>2. clock' \in 1 .. clock'
    BY <1>3
  <2>3. PICK e : e = clock'
    OBVIOUS
  <2> QED BY <1>1, <1>2, <1>6, <2>1, <2>2, <2>3 DEF Excused
<1>7. stored' \subseteq DOMAIN conns' /\ \A j \in DOMAIN conns' \ stored' : Excused(j)'
  <2>1. stored \subseteq DOMAIN conns /\ \A j \in DOMAIN conns \ stored : Excused(j)
    BY DEF ConnInv
  <2>2. CASE clock' >= expiry
    BY <1>1, <1>6, <2>2
  <2>3. CASE ~(clock' >= expiry)
    BY <1>1, <1>5, <2>1, <2>3
  <2> QED BY <2>2, <2>3
<1>8. \A j \in DOMAIN conns' : C!Ts(j)' <= clock' /\ C!Ts(j)' + R <= expiry'
  BY <1>1, <1>2, <1>3, <1>4 DEF ConnInv
<1>9. \E t \in 0 .. clock' :
         /\ \A j \in DOMAIN conns' : C!Ts(j)' <= t
         /\ t = 0 \/ \E j \in DOMAIN conns' : C!Ts(j)' = t
  <2>1. PICK t \in 0 .. clock : /\ \A j \in DOMAIN conns : C!Ts(j) <= t
                                /\ t = 0 \/ \E j \in DOMAIN conns : C!Ts(j) = t
    BY DEF ConnInv
  <2>2. t \in 0 .. clock'
    BY <1>3
  <2> QED BY <1>1, <1>2, <2>1, <2>2
<1>10. /\ clock' \in Nat \ {0} /\ expiry' \in Nat /\ conns' \in Seq([ts : Nat, bytes : Bytes])
  BY <1>1, <1>3 DEF ConnInv
<1> QED BY ONLY <1>7, <1>8, <1>9, <1>10 DEF ConnInv

LEMMA ConnStep == ConnInv /\ [C!Next]_conn => ConnInv'
<1> SUFFICES ASSUME ConnInv, [C!Next]_conn PROVE ConnInv'
  OBVIOUS
<1>1. CASE UNCHANGED conn
  <2>1. /\ conns' = conns /\ stored' = stored /\ expiry' = expiry /\ clock' = clock
    BY <1>1 DEF conn
  <2>2. \A j : (Excused(j)' <=> Excused(j)) /\ C!Ts(j)' = C!Ts(j)
    BY <2>1 DEF Excused, C!Ts
  <2>. QED BY <2>1, <2>2 DEF ConnInv
<1>2. ASSUME NEW lag \in 0 .. Lag, NEW bytes \in Bytes,
             clock > lag /\ C!Record(clock - lag, bytes)
      PROVE  ConnInv'
  BY <1>2, RecordStep
<1>3. CASE C!Tick
  BY <1>3, SecondStep
<1> QED BY <1>1, <1>2, <1>3 DEF C!Next

\* A connection in the window of a check is in the set: none of what excuses
\* its absence applies.
LEMMA ConnInvIsComplete == ConnInv => C!WindowsComplete
<1> SUFFICES ASSUME ConnInv, NEW k \in DOMAIN conns, NEW w \in C!Windows,
                    C!Newest - R < C!Ts(k) - w,
                    Cardinality({j \in DOMAIN conns : C!Ts(j) >= C!Ts(k) - w}) <= Cap,
                    clock - C!Ts(k) < R
             PROVE  C!In(stored, C!Ts(k), w) = C!In(DOMAIN conns, C!Ts(k), w)
  BY SameCardinality DEF C!WindowsComplete, C!All, R
<1>1. /\ \A j \in DOMAIN conns : C!Ts(j) \in Nat
      /\ IsFiniteSet(DOMAIN conns)
  BY ConnFacts
<1>2. /\ clock \in Nat \ {0} /\ stored \subseteq DOMAIN conns
      /\ \A j \in DOMAIN conns \ stored : Excused(j)
  BY DEF ConnInv
<1>3. R \in Nat \ {0} /\ Lag \in Nat /\ Cap \in Nat /\ w \in Nat /\ (w = R \/ w + Lag < R)
  BY ConnConstants
<1>4. C!Newest \in 0 .. clock /\ \A j \in DOMAIN conns : C!Ts(j) <= C!Newest
  <2>1. C!Newest \in 0 .. clock /\ \A j \in C!All : C!Ts(j) <= C!Newest
    BY DEF ConnInv, C!Newest, C!All
  <2> QED BY <2>1 DEF C!All
<1>5. C!Ts(k) \in Nat /\ C!Ts(k) <= C!Newest
  BY <1>1, <1>4
<1>6. w + Lag < R
  BY <1>3, <1>4, <1>5
<1>7. ASSUME NEW j \in DOMAIN conns, C!Ts(j) >= C!Ts(k) - w, j \notin stored
      PROVE  FALSE
  <2>1. Excused(j) /\ C!Ts(j) \in Nat
    BY <1>1, <1>2, <1>7
  <2>2. CASE \E i \in DOMAIN conns : C!Ts(j) <= C!Ts(i) - R
    <3>1. PICK i \in DOMAIN conns : C!Ts(j) <= C!Ts(i) - R
      BY <2>2
    <3>2. C!Ts(i) <= C!Newest /\ C!Ts(i) \in Nat
      BY <1>1, <1>4
    <3> QED BY <1>3, <1>4, <1>5, <1>7, <2>1, <3>1, <3>2
  <2>3. CASE Cardinality({i \in DOMAIN conns : C!Ts(i) >= C!Ts(j)}) > Cap
    <3> DEFINE younger == {i \in DOMAIN conns : C!Ts(i) >= C!Ts(j)}
               window == {i \in DOMAIN conns : C!Ts(i) >= C!Ts(k) - w}
    <3>1. younger \subseteq window
      BY <1>1, <1>3, <1>5, <1>7, <2>1
    <3>2. IsFiniteSet(window)
      BY <1>1, FS_Subset
    <3>3. Cardinality(window) <= Cap /\ Cardinality(younger) > Cap
      BY <2>3
    <3> HIDE DEF younger, window
    <3>4. /\ Cardinality(younger) <= Cardinality(window)
          /\ Cardinality(younger) \in Nat /\ Cardinality(window) \in Nat
      BY <3>1, <3>2, FS_Subset, FS_CardinalityType
    <3> QED BY <1>3, <3>3, <3>4
  <2>4. CASE \E e \in 1 .. clock :
               /\ C!Ts(j) <= e - R
               /\ \A i \in DOMAIN conns : C!Ts(i) <= e - R \/ C!Ts(i) >= e - Lag
    <3>1. PICK e \in 1 .. clock :
                 /\ C!Ts(j) <= e - R
                 /\ \A i \in DOMAIN conns : C!Ts(i) <= e - R \/ C!Ts(i) >= e - Lag
      BY <2>4
    <3>2. ~(C!Ts(k) <= e - R)
      BY <1>2, <1>3, <1>5, <3>1
    <3>3. C!Ts(k) >= e - Lag
      BY <3>1, <3>2
    <3> QED BY <1>2, <1>3, <1>5, <1>6, <1>7, <2>1, <3>1, <3>3
  <2> QED BY <2>1, <2>2, <2>3, <2>4 DEF Excused
<1>8. \A j \in DOMAIN conns : C!Ts(j) \in C!Ts(k) - w .. C!Ts(k) => j \in stored
  BY <1>1, <1>3, <1>5, <1>7
<1> QED BY <1>2, <1>8 DEF C!In

-----------------------------------------------------------------------------
(* Induction                                                               *)

LEMMA LeastNumber ==
  ASSUME NEW T, T \subseteq Nat, T # {}
  PROVE  \E n \in T : \A m \in T : n <= m
<1> DEFINE below == OpToRel(<, Nat)
<1>1. IsWellFoundedOn(below, Nat)
  BY NatLessThanWellFounded
<1>2. \A x, y \in Nat : x < y => <<x, y>> \in below
  BY DEF OpToRel
<1> HIDE DEF below
<1>3. PICK n \in T : \A m \in T : ~(<<m, n>> \in below)
  BY <1>1, WFMin
<1>4. ASSUME NEW m \in T PROVE n <= m
  <2>1. ~(m < n)
    BY <1>2, <1>3, Zenon
  <2>. QED BY <2>1
<1>. QED BY <1>3, <1>4, Zenon

\* Induction, on the set of the numbers that have a property.
LEMMA Induction ==
  ASSUME NEW S, 0 \in S, \A n \in Nat : n \in S => n + 1 \in S
  PROVE  Nat \subseteq S
<1>1. ASSUME Nat \ S # {} PROVE FALSE
  <2>1. PICK n \in Nat \ S : \A m \in Nat \ S : n <= m
    BY <1>1, LeastNumber
  <2>2. n - 1 \in Nat /\ n - 1 \in S
    BY <2>1
  <2>. QED BY <2>1, <2>2
<1>. QED BY <1>1

\* f starts with base and goes on from its last value, by the steps given.
Runs(f, N, V, base, step) ==
  /\ f \in [0 .. N -> V] /\ f[0] = base
  /\ \A n \in 1 .. N : f[n] = step[n][f[n - 1]]

LEMMA Recursion ==
  ASSUME NEW N \in Nat, NEW V, NEW base \in V, NEW step \in [1 .. N -> [V -> V]]
  PROVE  \E f : Runs(f, N, V, base, step)
<1> DEFINE S == {k \in Nat : k <= N => \E f : Runs(f, k, V, base, step)}
<1>1. 0 \in S
  <2>1. Runs([n \in 0 .. 0 |-> base], 0, V, base, step)
    BY DEF Runs
  <2>. QED BY <2>1
<1>2. ASSUME NEW k \in Nat, NEW f, Runs(f, k, V, base, step), k + 1 <= N
      PROVE  \E g : Runs(g, k + 1, V, base, step)
  <2>1. step[k + 1][f[k]] \in V
    BY <1>2 DEF Runs
  <2> DEFINE g == [n \in 0 .. k + 1 |-> IF n = k + 1 THEN step[k + 1][f[k]] ELSE f[n]]
  <2>2. /\ g \in [0 .. k + 1 -> V] /\ g[k + 1] = step[k + 1][f[k]]
        /\ \A n \in 0 .. k : g[n] = f[n]
    BY <1>2, <2>1 DEF Runs
  <2> HIDE DEF g
  <2>3. ASSUME NEW n \in 1 .. k + 1 PROVE g[n] = step[n][g[n - 1]]
    <3>1. n - 1 \in 0 .. k /\ (n # k + 1 => n \in 1 .. k)
      BY <2>3
    <3>2. CASE n = k + 1
      BY <2>2, <3>1, <3>2
    <3>3. CASE n # k + 1
      BY <1>2, <2>2, <3>1, <3>3 DEF Runs
    <3>. QED BY <3>2, <3>3
  <2>4. Runs(g, k + 1, V, base, step)
    BY <1>2, <2>2, <2>3 DEF Runs
  <2>. QED BY <2>4
<1>3. N \in S
  <2>1. \A k \in Nat : k \in S => k + 1 \in S
    BY <1>2
  <2> HIDE DEF S
  <2>. QED BY <1>1, <2>1, Induction
<1>. QED BY <1>3

-----------------------------------------------------------------------------
(* Sums *)

LEMMA SumFacts ==
  ASSUME NEW N \in Nat, NEW f, \A m \in 1 .. N : f[m] \in Int
  PROVE  /\ C!Sum(f, 0) = 0
         /\ \A m \in 0 .. N : C!Sum(f, m) \in Int
         /\ \A m \in 1 .. N : C!Sum(f, m) = C!Sum(f, m - 1) + f[m]
<1> DEFINE Eq(h, n) == h = [m \in 0 .. n |-> IF m = 0 THEN 0 ELSE h[m - 1] + f[m]]
           step == [m \in 1 .. N |-> [v \in Int |-> v + f[m]]]
           b(n) == CHOOSE h : Eq(h, n)
<1>1. \A n : C!Sum(f, n) = b(n)[n]
  BY Zenon DEF C!Sum
<1>2. \A m \in 1 .. N, v \in Int : step[m][v] = v + f[m]
  OBVIOUS
<1>3. PICK g : Runs(g, N, Int, 0, step)
  <2>1. step \in [1 .. N -> [Int -> Int]] /\ 0 \in Int
    OBVIOUS
  <2> HIDE DEF step
  <2>. QED BY <2>1, Recursion
<1> HIDE DEF step
<1>4. /\ \A m \in 0 .. N : g[m] \in Int
      /\ g[0] = 0 /\ \A m \in 1 .. N : g[m] = g[m - 1] + f[m]
  <2>1. (\A m \in 0 .. N : g[m] \in Int) /\ \A m \in 1 .. N : g[m - 1] \in Int
    BY <1>3 DEF Runs
  <2>. QED BY <1>2, <1>3, <2>1 DEF Runs
<1>5. ASSUME NEW n \in 0 .. N PROVE b(n)[n] = g[n]
  <2> DEFINE h == [m \in 0 .. n |-> g[m]]
  <2>1. Eq(h, n)
    <3>1. \A m \in 0 .. n : h[m] = IF m = 0 THEN 0 ELSE h[m - 1] + f[m]
      BY <1>4
    <3>. QED BY <3>1
  <2>2. Eq(b(n), n)
    <3> HIDE DEF Eq, h
    <3>. QED BY <2>1
  <2> HIDE DEF b
  <2>3. b(n)[0] = 0 /\ \A m \in 1 .. n : b(n)[m] = b(n)[m - 1] + f[m]
    BY <2>2
  <2> DEFINE U == {m \in Nat : m <= n => b(n)[m] = g[m]}
  <2>4. 0 \in U
    BY <1>4, <2>3
  <2>5. ASSUME NEW m \in Nat, m \in U PROVE m + 1 \in U
    <3> SUFFICES ASSUME m + 1 <= n PROVE b(n)[m + 1] = g[m + 1]
      OBVIOUS
    <3>1. m + 1 \in 1 .. n /\ m + 1 \in 1 .. N /\ (m + 1) - 1 = m /\ b(n)[m] = g[m]
      BY <2>5
    <3>2. b(n)[m + 1] = b(n)[m] + f[m + 1] /\ g[m + 1] = g[m] + f[m + 1]
      BY <1>4, <2>3, <3>1
    <3>. QED BY <3>1, <3>2
  <2>6. n \in U
    <3> HIDE DEF U
    <3>. QED BY <2>4, <2>5, Induction
  <2>. QED BY <2>6
<1> HIDE DEF b
<1>6. \A n \in 0 .. N : C!Sum(f, n) = g[n]
  BY <1>1, <1>5
<1>. QED BY <1>4, <1>6

\* A sum is the sum of the first d members and of the rest; that of zeros is
\* zero.
LEMMA SumSplit ==
  ASSUME NEW N \in Nat, NEW d \in 0 .. N, NEW f, \A m \in 1 .. N : f[m] \in Int,
         NEW g, \A m \in 1 .. N - d : g[m] = f[m + d]
  PROVE  C!Sum(f, N) = C!Sum(f, d) + C!Sum(g, N - d)
<1>1. /\ \A m \in 0 .. N : C!Sum(f, m) \in Int
      /\ \A m \in 1 .. N : C!Sum(f, m) = C!Sum(f, m - 1) + f[m]
  BY SumFacts
<1>2. N - d \in Nat /\ \A m \in 1 .. N - d : g[m] \in Int
  OBVIOUS
<1>3. /\ C!Sum(g, 0) = 0
      /\ \A m \in 0 .. N - d : C!Sum(g, m) \in Int
      /\ \A m \in 1 .. N - d : C!Sum(g, m) = C!Sum(g, m - 1) + g[m]
  BY <1>2, SumFacts
<1> DEFINE U == {k \in Nat : k <= N - d => C!Sum(f, k + d) = C!Sum(f, d) + C!Sum(g, k)}
<1>4. 0 \in U
  BY <1>1, <1>3
<1>5. ASSUME NEW k \in Nat, k \in U PROVE k + 1 \in U
  <2> SUFFICES ASSUME k + 1 <= N - d
               PROVE  C!Sum(f, k + 1 + d) = C!Sum(f, d) + C!Sum(g, k + 1)
    OBVIOUS
  <2>1. /\ k + 1 \in 1 .. N - d /\ (k + 1) - 1 = k /\ k \in 0 .. N - d
        /\ k + 1 + d \in 1 .. N /\ (k + 1 + d) - 1 = k + d /\ k + d \in 0 .. N
    OBVIOUS
  <2>2. C!Sum(f, k + d) = C!Sum(f, d) + C!Sum(g, k)
    BY <1>5
  <2>3. C!Sum(f, k + 1 + d) = C!Sum(f, k + d) + f[k + 1 + d]
    BY <1>1, <2>1
  <2>4. C!Sum(g, k + 1) = C!Sum(g, k) + f[k + 1 + d]
    BY <1>3, <2>1
  <2>5. C!Sum(f, d) \in Int /\ C!Sum(g, k) \in Int /\ f[k + 1 + d] \in Int
    BY <1>1, <1>3, <2>1
  <2>. QED BY <2>2, <2>3, <2>4, <2>5
<1>6. N - d \in U
  <2> HIDE DEF U
  <2>. QED BY <1>2, <1>4, <1>5, Induction
<1>. QED BY <1>2, <1>6

LEMMA SumOfNumbers ==
  ASSUME NEW N \in Nat, NEW f, \A m \in 1 .. N : f[m] \in Nat
  PROVE  /\ C!Sum(f, N) \in Nat
         /\ (\A m \in 1 .. N : f[m] = 0) => C!Sum(f, N) = 0
<1>1. /\ C!Sum(f, 0) = 0
      /\ \A m \in 1 .. N : C!Sum(f, m) = C!Sum(f, m - 1) + f[m]
  BY SumFacts
<1> DEFINE U == {k \in Nat : k <= N => /\ C!Sum(f, k) \in Nat
                                       /\ (\A m \in 1 .. N : f[m] = 0) => C!Sum(f, k) = 0}
<1>2. 0 \in U
  BY <1>1
<1>3. ASSUME NEW k \in Nat, k \in U PROVE k + 1 \in U
  <2>1. k + 1 <= N => C!Sum(f, k + 1) = C!Sum(f, k) + f[k + 1] /\ k + 1 \in 1 .. N
    BY <1>1
  <2>. QED BY <1>3, <2>1
<1>4. N \in U
  <2> HIDE DEF U
  <2>. QED BY <1>2, <1>3, Induction
<1>. QED BY <1>4

-----------------------------------------------------------------------------
(* The tracker of the evaluations: its queues                              *)

Queues == Seq(Nat \X Nat)

LEMMA QueueFields ==
  ASSUME NEW q \in Queues
  PROVE  /\ Len(q) \in Nat /\ DOMAIN q = 1 .. Len(q)
         /\ \A n \in 1 .. Len(q) :
              q[n] \in Nat \X Nat /\ q[n][1] \in Nat /\ q[n][2] \in Nat
BY DEF Queues

\* What has to leave a queue is a part at its head.
LEMMA StaleFacts ==
  ASSUME NEW q \in Queues, NEW ts \in Int, NEW w \in Int
  PROVE  LET e == C!Stale(q, ts, w) IN
         /\ e \in 0 .. Len(q)
         /\ \A n \in 1 .. e : q[n][1] < ts - w
         /\ e < Len(q) => ~(q[e + 1][1] < ts - w)
<1> DEFINE N == Len(q)
           Old(n) == q[n][1] < ts - w
           old == {n \in 1 .. N : \A m \in 1 .. n : Old(m)}
           young == {n \in 1 .. N : ~Old(n)}
<1>1. N \in Nat
  BY QueueFields
<1>2. C!Stale(q, ts, w) = Cardinality(old)
  <2>1. C!Stale(q, ts, w) = C!Cardinality(old)
    BY Zenon DEF C!Stale
  <2>. QED BY <2>1, SameCardinality
<1> HIDE DEF N, Old
<1>3. PICK e \in 0 .. N : (\A n \in 1 .. e : Old(n)) /\ (e < N => ~Old(e + 1))
  <2>1. CASE young = {}
    <3>1. N \in 0 .. N /\ \A n \in 1 .. N : Old(n)
      BY <1>1, <2>1
    <3>. QED BY <1>1, <3>1
  <2>2. CASE young # {}
    <3>1. young \subseteq Nat
      BY <1>1
    <3> HIDE DEF young
    <3>2. PICK n \in young : \A m \in young : n <= m
      BY <2>2, <3>1, LeastNumber
    <3>3. n \in 1 .. N /\ ~Old(n) /\ \A m \in 1 .. N : ~Old(m) => n <= m
      BY <3>2 DEF young
    <3>4. n - 1 \in 0 .. N /\ (n - 1) + 1 = n /\ \A m \in 1 .. n - 1 : Old(m)
      BY <1>1, <3>3
    <3>. QED BY <3>3, <3>4
  <2>. QED BY <2>1, <2>2
<1>4. old = 1 .. e
  <2>1. ASSUME NEW n \in old PROVE n \in 1 .. e
    <3>1. n \in 1 .. N /\ \A m \in 1 .. n : Old(m)
      OBVIOUS
    <3>2. CASE n > e
      <4>1. e + 1 \in 1 .. n /\ e < N
        BY <1>1, <3>1, <3>2
      <4>. QED BY <1>3, <3>1, <4>1
    <3>. QED BY <3>1, <3>2
  <2>2. ASSUME NEW n \in 1 .. e PROVE n \in old
    BY <1>1, <1>3
  <2> HIDE DEF old
  <2>. QED BY <2>1, <2>2
<1>5. Cardinality(1 .. e) = e
  <2>1. e \in Nat /\ 1 \in Int
    OBVIOUS
  <2>2. Cardinality(1 .. e) = IF 1 > e THEN 0 ELSE e - 1 + 1
    BY <2>1, FS_Interval
  <2>. QED BY <2>1, <2>2
<1>. QED BY <1>2, <1>3, <1>4, <1>5 DEF N, Old

\* What stays and what goes of it
LEMMA FreshFacts ==
  ASSUME NEW q \in Queues, NEW ts \in Int, NEW w \in Int
  PROVE  LET e == C!Stale(q, ts, w)
             N == Len(q) IN
         /\ C!Fresh(q, ts, w) \in Queues /\ C!Lost(q, ts, w) \in Queues
         /\ Len(C!Fresh(q, ts, w)) = N - e /\ Len(C!Lost(q, ts, w)) = e
         /\ \A n \in 1 .. N - e : C!Fresh(q, ts, w)[n] = q[n + e]
         /\ \A n \in 1 .. e : C!Lost(q, ts, w)[n] = q[n]
<1> DEFINE e == C!Stale(q, ts, w)
           N == Len(q)
<1>1. N \in Nat /\ e \in 0 .. N /\ \A n \in 1 .. N : q[n] \in Nat \X Nat
  BY QueueFields, StaleFacts
<1>2. C!Fresh(q, ts, w) = SubSeq(q, e + 1, N) /\ C!Lost(q, ts, w) = SubSeq(q, 1, e)
  BY DEF C!Fresh, C!Lost
<1> HIDE DEF e, N
<1>3. /\ SubSeq(q, e + 1, N) \in Queues /\ Len(SubSeq(q, e + 1, N)) = N - e
      /\ \A n \in 1 .. N - e : SubSeq(q, e + 1, N)[n] = q[n + e]
  <2>1. /\ e + 1 \in Int /\ N \in Int /\ \A i \in e + 1 .. N : q[i] \in Nat \X Nat
        /\ (IF e + 1 <= N THEN N - (e + 1) + 1 ELSE 0) = N - e
        /\ \A n \in 1 .. N - e : e + 1 + n - 1 = n + e
    <3>1. \A i \in e + 1 .. N : i \in 1 .. N
      BY <1>1
    <3>2. /\ e + 1 \in Int /\ N \in Int
          /\ (IF e + 1 <= N THEN N - (e + 1) + 1 ELSE 0) = N - e
      BY <1>1
    <3>3. \A n \in 1 .. N - e : e + 1 + n - 1 = n + e
      BY <1>1
    <3>. QED BY <1>1, <3>1, <3>2, <3>3
  <2>2. /\ SubSeq(q, e + 1, N) \in Seq(Nat \X Nat)
        /\ Len(SubSeq(q, e + 1, N)) = N - e
        /\ \A n \in 1 .. N - e : SubSeq(q, e + 1, N)[n] = q[e + 1 + n - 1]
    BY <2>1, SubSeqProperties
  <2>. QED BY <2>1, <2>2 DEF Queues
<1>4. /\ SubSeq(q, 1, e) \in Queues /\ Len(SubSeq(q, 1, e)) = e
      /\ \A n \in 1 .. e : SubSeq(q, 1, e)[n] = q[n]
  <2>1. /\ 1 \in Int /\ e \in Int /\ \A i \in 1 .. e : q[i] \in Nat \X Nat
        /\ (IF 1 <= e THEN e - 1 + 1 ELSE 0) = e
        /\ \A n \in 1 .. e : 1 + n - 1 = n
    BY <1>1
  <2>2. /\ SubSeq(q, 1, e) \in Seq(Nat \X Nat) /\ Len(SubSeq(q, 1, e)) = e
        /\ \A n \in 1 .. e : SubSeq(q, 1, e)[n] = q[1 + n - 1]
    BY <2>1, SubSeqProperties
  <2>. QED BY <2>1, <2>2 DEF Queues
<1>. QED BY <1>2, <1>3, <1>4 DEF e, N

\* Both at once, for a queue whose length and parts have names
LEMMA FreshPart ==
  ASSUME NEW q \in Queues, NEW ts \in Int, NEW w \in Int, NEW N, N = Len(q),
         NEW f, f = C!Fresh(q, ts, w), NEW e, e = C!Stale(q, ts, w)
  PROVE  /\ e \in 0 .. N
         /\ \A n \in 1 .. e : q[n][1] < ts - w
         /\ e < N => ~(q[e + 1][1] < ts - w)
         /\ Len(f) = N - e
         /\ \A n \in 1 .. N - e : f[n] = q[n + e]
<1>1. e \in 0 .. N /\ (\A n \in 1 .. e : q[n][1] < ts - w)
  BY StaleFacts
<1>2. e < N => ~(q[e + 1][1] < ts - w)
  BY StaleFacts
<1>3. Len(f) = N - e /\ \A n \in 1 .. N - e : f[n] = q[n + e]
  BY FreshFacts
<1>. QED BY <1>1, <1>2, <1>3

LEMMA AppendedQueue ==
  ASSUME NEW q \in Queues, NEW x \in Nat, NEW y \in Nat
  PROVE  LET p == Append(q, <<x, y>>) IN
         /\ p \in Queues /\ Len(p) = Len(q) + 1
         /\ \A n \in 1 .. Len(q) : p[n] = q[n]
         /\ p[Len(q) + 1] = <<x, y>>
<1>1. <<x, y>> \in Nat \X Nat
  OBVIOUS
<1>. QED BY <1>1, AppendProperties DEF Queues

\* The sum of what weight makes of the entries of a queue
Weighed(q, weight) == C!Sum([n \in 1 .. Len(q) |-> weight[q[n]]], Len(q))

Amount == [x \in Nat \X Nat |-> x[2]]
Square == [x \in Nat \X Nat |-> x[2] * x[2]]

LEMMA WeighedFacts ==
  /\ Amount \in [Nat \X Nat -> Nat] /\ Square \in [Nat \X Nat -> Nat]
  /\ \A q \in Queues : C!Total(q) = Weighed(q, Amount)
  /\ \A q \in Queues : C!Squares(q) = Weighed(q, Square)
<1>1. \A x \in Nat \X Nat : x[2] \in Nat /\ x[2] * x[2] \in Nat
  OBVIOUS
<1>2. Amount \in [Nat \X Nat -> Nat] /\ Square \in [Nat \X Nat -> Nat]
  BY <1>1 DEF Amount, Square
<1>3. ASSUME NEW q \in Queues
      PROVE  C!Total(q) = Weighed(q, Amount) /\ C!Squares(q) = Weighed(q, Square)
  <2>1. \A n \in 1 .. Len(q) : q[n] \in Nat \X Nat
    BY QueueFields
  <2>2. /\ [n \in 1 .. Len(q) |-> Amount[q[n]]] = [n \in 1 .. Len(q) |-> q[n][2]]
        /\ [n \in 1 .. Len(q) |-> Square[q[n]]] = [n \in 1 .. Len(q) |-> q[n][2] * q[n][2]]
    BY <2>1 DEF Amount, Square
  <2>. QED BY <2>2 DEF C!Total, C!Squares, Weighed
<1>. QED BY <1>2, <1>3

\* Running sums: what is appended adds to the sum, what leaves is taken off it.
LEMMA WeighedSteps ==
  ASSUME NEW weight \in [Nat \X Nat -> Nat], NEW q \in Queues
  PROVE  /\ Weighed(q, weight) \in Nat
         /\ \A x, y \in Nat :
              Weighed(Append(q, <<x, y>>), weight) = Weighed(q, weight) + weight[<<x, y>>]
         /\ \A ts, w \in Int :
              Weighed(q, weight) = Weighed(C!Lost(q, ts, w), weight)
                                     + Weighed(C!Fresh(q, ts, w), weight)
<1> DEFINE F(p) == [n \in 1 .. Len(p) |-> weight[p[n]]]
<1>1. ASSUME NEW p \in Queues
      PROVE  Len(p) \in Nat /\ \A n \in 1 .. Len(p) : F(p)[n] = weight[p[n]] /\ F(p)[n] \in Nat
  BY <1>1, QueueFields
<1>2. \A p : Weighed(p, weight) = C!Sum(F(p), Len(p))
  BY DEF Weighed
<1> HIDE DEF F
<1>3. \A p \in Queues : Weighed(p, weight) \in Nat
  BY <1>1, <1>2, SumOfNumbers
<1>4. ASSUME NEW x \in Nat, NEW y \in Nat
      PROVE  Weighed(Append(q, <<x, y>>), weight) = Weighed(q, weight) + weight[<<x, y>>]
  <2>1. PICK p : p = Append(q, <<x, y>>)
    OBVIOUS
  <2>2. PICK N \in Nat : N = Len(q)
    BY <1>1
  <2>3. /\ p \in Queues /\ Len(p) = N + 1 /\ p[N + 1] = <<x, y>>
        /\ \A n \in 1 .. N : p[n] = q[n]
    BY <2>1, <2>2, AppendedQueue
  <2>4. /\ \A n \in 1 .. N + 1 : F(p)[n] \in Int
        /\ \A n \in 1 .. N : F(p)[n] = F(q)[n]
        /\ F(p)[N + 1] = weight[<<x, y>>]
    <3>1. \A n \in 1 .. N + 1 : F(p)[n] = weight[p[n]] /\ F(p)[n] \in Nat
      BY <1>1, <2>3
    <3>2. \A n \in 1 .. N : F(q)[n] = weight[q[n]]
      BY <1>1, <2>2
    <3>3. N + 1 \in 1 .. N + 1 /\ \A n \in 1 .. N : n \in 1 .. N + 1
      OBVIOUS
    <3>4. \A n \in 1 .. N + 1 : F(p)[n] \in Int
      BY <3>1
    <3>5. \A n \in 1 .. N : F(p)[n] = F(q)[n]
      BY <2>3, <3>1, <3>2, <3>3
    <3>6. F(p)[N + 1] = weight[<<x, y>>]
      BY <2>3, <3>1, <3>3
    <3>. QED BY <3>4, <3>5, <3>6
  <2>5. C!Sum(F(p), N + 1) = C!Sum(F(p), N) + weight[<<x, y>>]
    <3>1. N + 1 \in Nat /\ N + 1 \in 1 .. N + 1 /\ (N + 1) - 1 = N
      OBVIOUS
    <3>. QED BY <2>4, <3>1, SumFacts
  <2>6. C!Sum(F(p), N) = C!Sum(F(q), N)
    <3>1. /\ 0 \in 0 .. N /\ N - 0 = N /\ \A n \in 1 .. N : F(p)[n] \in Int
          /\ \A n \in 1 .. N - 0 : F(q)[n] = F(p)[n + 0]
      BY <2>4
    <3>2. C!Sum(F(p), N) = C!Sum(F(p), 0) + C!Sum(F(q), N - 0)
      BY <3>1, SumSplit
    <3>3. C!Sum(F(p), 0) = 0
      BY <3>1, SumFacts
    <3>4. C!Sum(F(q), N) \in Int
      BY <1>2, <1>3, <2>2
    <3>. QED BY <3>1, <3>2, <3>3, <3>4
  <2>. QED BY <1>2, <2>1, <2>2, <2>3, <2>5, <2>6
<1>5. ASSUME NEW ts \in Int, NEW w \in Int
      PROVE  Weighed(q, weight) = Weighed(C!Lost(q, ts, w), weight)
                                    + Weighed(C!Fresh(q, ts, w), weight)
  <2>1. PICK N \in Nat : N = Len(q)
    BY <1>1
  <2>2. PICK e \in 0 .. N : e = C!Stale(q, ts, w)
    BY <2>1, StaleFacts
  <2>3. PICK lost, fresh : lost = C!Lost(q, ts, w) /\ fresh = C!Fresh(q, ts, w)
    OBVIOUS
  <2>4. /\ fresh \in Queues /\ lost \in Queues /\ Len(fresh) = N - e /\ Len(lost) = e
        /\ \A n \in 1 .. N - e : fresh[n] = q[n + e]
        /\ \A n \in 1 .. e : lost[n] = q[n]
    BY <2>1, <2>2, <2>3, FreshFacts
  <2>5. /\ \A n \in 1 .. N : F(q)[n] \in Int
        /\ \A n \in 1 .. N - e : F(fresh)[n] = F(q)[n + e]
        /\ \A n \in 1 .. e : F(lost)[n] = F(q)[n] /\ F(lost)[n] \in Int
    <3>1. \A n \in 1 .. N : F(q)[n] = weight[q[n]] /\ F(q)[n] \in Nat
      BY <1>1, <2>1
    <3>2. \A n \in 1 .. N - e : F(fresh)[n] = weight[fresh[n]]
      BY <1>1, <2>4
    <3>3. \A n \in 1 .. e : F(lost)[n] = weight[lost[n]] /\ F(lost)[n] \in Nat
      BY <1>1, <2>4
    <3>4. /\ \A n \in 1 .. N - e : n + e \in 1 .. N
          /\ \A n \in 1 .. e : n \in 1 .. N
      BY <2>2
    <3>5. \A n \in 1 .. N : F(q)[n] \in Int
      BY <3>1
    <3>6. ASSUME NEW n \in 1 .. N - e PROVE F(fresh)[n] = F(q)[n + e]
      <4>1. PICK i \in 1 .. N : i = n + e
        BY <3>4
      <4>2. F(q)[i] = weight[q[i]] /\ fresh[n] = q[i]
        BY <2>4, <3>1, <4>1
      <4>. QED BY <3>2, <4>1, <4>2
    <3>7. ASSUME NEW n \in 1 .. e PROVE F(lost)[n] = F(q)[n]
      <4>1. n \in 1 .. N /\ lost[n] = q[n]
        BY <2>4, <3>4
      <4>. QED BY <3>1, <3>3, <4>1
    <3>8. \A n \in 1 .. e : F(lost)[n] \in Int
      BY <3>3
    <3>. QED BY <3>5, <3>6, <3>7, <3>8
  <2>6. C!Sum(F(q), N) = C!Sum(F(q), e) + C!Sum(F(fresh), N - e)
    BY <2>5, SumSplit
  <2>7. C!Sum(F(lost), e) = C!Sum(F(q), e)
    <3>1. /\ e \in Nat /\ 0 \in 0 .. e /\ e - 0 = e /\ \A n \in 1 .. e : F(lost)[n] \in Int
          /\ \A n \in 1 .. e - 0 : F(q)[n] = F(lost)[n + 0]
      BY <2>5
    <3>2. C!Sum(F(lost), e) = C!Sum(F(lost), 0) + C!Sum(F(q), e - 0)
      BY <3>1, SumSplit
    <3>3. C!Sum(F(lost), 0) = 0 /\ C!Sum(F(q), e) \in Int
      BY <2>5, <3>1, SumFacts
    <3>. QED BY <3>1, <3>2, <3>3
  <2>. QED BY <1>2, <2>1, <2>3, <2>4, <2>6, <2>7
<1>. QED BY <1>3, <1>4, <1>5

LEMMA WeighedAppended ==
  ASSUME NEW weight \in [Nat \X Nat -> Nat], NEW q \in Queues, NEW x \in Nat, NEW y \in Nat
  PROVE  Weighed(Append(q, <<x, y>>), weight) = Weighed(q, weight) + weight[<<x, y>>]
BY WeighedSteps

-----------------------------------------------------------------------------
(* The tracker of the evaluations: types and sums                          *)

FastTypes == [ddos : Queues, beacon : Queues, intervals : Queues, exfil : Queues,
              last : Nat, sum : Nat, sumsq : Nat, bytes : Nat]

\* The running sums are those of the queues.
FastInv ==
  /\ fast \in FastTypes
  /\ fast.sum = C!Total(fast.intervals) /\ fast.sumsq = C!Squares(fast.intervals)
  /\ fast.bytes = C!Total(fast.exfil)
  /\ Len(conns) <= MaxConns /\ Len(fast.ddos) <= Len(conns)
  /\ IF conns = <<>> THEN fast.last = 0 /\ fast.intervals = <<>>
     ELSE Len(fast.intervals) < Len(conns)
  /\ IsFiniteSet(stored) /\ Cardinality(stored) <= Cap

LEMMA EmptyQueue ==
  /\ <<>> \in Queues /\ Len(<<>>) = 0 /\ C!Total(<<>>) = 0 /\ C!Squares(<<>>) = 0
<1>1. <<>> \in Queues /\ Len(<<>>) = 0
  BY DEF Queues
<1>2. \A f : C!Sum(f, 0) = 0
  <2> TAKE f
  <2>1. \A m \in 1 .. 0 : f[m] \in Int
    OBVIOUS
  <2>. QED BY <2>1, SumFacts
<1>. QED BY <1>1, <1>2 DEF C!Total, C!Squares

LEMMA FastInit == C!Init => FastInv
<1> SUFFICES ASSUME C!Init PROVE FastInv
  OBVIOUS
<1>1. /\ conns = <<>> /\ stored = {}
      /\ fast = [ddos |-> <<>>, beacon |-> <<>>, intervals |-> <<>>, last |-> 0,
                 exfil |-> <<>>, sum |-> 0, sumsq |-> 0, bytes |-> 0]
  BY DEF C!Init
<1>2. MaxConns \in Nat /\ Cap \in Nat
  BY SignalsAssumption DEF C!ConnAssumption
<1>3. IsFiniteSet(stored) /\ Cardinality(stored) = 0
  BY <1>1, FS_EmptySet
<1>. QED BY <1>1, <1>2, <1>3, EmptyQueue DEF FastInv, FastTypes

\* The entries that leave a queue take from its running sums what they are worth.
LEMMA RecordedFacts ==
  ASSUME NEW f \in FastTypes, NEW ts \in Nat, NEW bytes \in Nat,
         f.sum = C!Total(f.intervals), f.sumsq = C!Squares(f.intervals),
         f.bytes = C!Total(f.exfil)
  PROVE  LET g == C!Recorded(f, ts, bytes)
             gap == IF f.last # 0 THEN ts - f.last ELSE 0
             timed == IF gap > 0 THEN Append(f.intervals, <<ts, gap>>) ELSE f.intervals IN
         /\ g \in FastTypes /\ timed \in Queues
         /\ g.sum = C!Total(g.intervals) /\ g.sumsq = C!Squares(g.intervals)
         /\ g.bytes = C!Total(g.exfil)
         /\ g.ddos = C!Fresh(Append(f.ddos, <<ts, 0>>), ts, DdosWindow)
         /\ g.beacon = C!Fresh(Append(f.beacon, <<ts, 0>>), ts, BeaconWindow)
         /\ g.exfil = C!Fresh(Append(f.exfil, <<ts, bytes>>), ts, ExfilWindow)
         /\ g.intervals = C!Fresh(timed, ts, BeaconWindow)
         /\ g.last = ts
<1> DEFINE gap == IF f.last # 0 THEN ts - f.last ELSE 0
           timed == IF gap > 0 THEN Append(f.intervals, <<ts, gap>>) ELSE f.intervals
           more == IF gap > 0 THEN gap ELSE 0
           late == C!Lost(timed, ts, BeaconWindow)
           kept == C!Fresh(timed, ts, BeaconWindow)
           sent == Append(f.exfil, <<ts, bytes>>)
           out == C!Lost(sent, ts, ExfilWindow)
           left == C!Fresh(sent, ts, ExfilWindow)
           ddos == C!Fresh(Append(f.ddos, <<ts, 0>>), ts, DdosWindow)
           beacon == C!Fresh(Append(f.beacon, <<ts, 0>>), ts, BeaconWindow)
           sum == f.sum + more - C!Total(late)
           sumsq == f.sumsq + more * more - C!Squares(late)
           all == f.bytes + bytes - C!Total(out)
<1>1. C!Recorded(f, ts, bytes) =
        [ddos |-> ddos, beacon |-> beacon, intervals |-> kept, last |-> ts, exfil |-> left,
         sum |-> sum, sumsq |-> sumsq, bytes |-> all]
  BY Zenon DEF C!Recorded, C!Less
<1>2. /\ f.ddos \in Queues /\ f.beacon \in Queues /\ f.intervals \in Queues
      /\ f.exfil \in Queues /\ f.last \in Nat /\ f.sum \in Nat /\ f.sumsq \in Nat
      /\ f.bytes \in Nat
  BY DEF FastTypes
<1>3. DdosWindow \in Int /\ BeaconWindow \in Int /\ ExfilWindow \in Int
  BY SignalsAssumption DEF C!ConnAssumption, C!Windows
<1>4. /\ gap \in Int /\ more \in Nat /\ more * more \in Nat /\ (gap > 0 => gap \in Nat)
  BY <1>2
<1> HIDE DEF gap
<1>5. /\ timed \in Queues
      /\ C!Total(timed) = f.sum + more /\ C!Squares(timed) = f.sumsq + more * more
  <2>1. CASE gap > 0
    <3>1. PICK y \in Nat : y = gap
      BY <1>4, <2>1
    <3>2. timed = Append(f.intervals, <<ts, y>>) /\ more = y
      BY <2>1, <3>1
    <3>3. timed \in Queues
      BY <1>2, <3>2, AppendedQueue
    <3>4. /\ Weighed(timed, Amount) = Weighed(f.intervals, Amount) + Amount[<<ts, y>>]
          /\ Weighed(timed, Square) = Weighed(f.intervals, Square) + Square[<<ts, y>>]
      <4>1. /\ Amount \in [Nat \X Nat -> Nat] /\ Square \in [Nat \X Nat -> Nat]
            /\ f.intervals \in Queues
        BY <1>2, WeighedFacts
      <4>2. PICK q \in Queues : q = f.intervals
        BY <4>1
      <4>3. Weighed(Append(q, <<ts, y>>), Amount) = Weighed(q, Amount) + Amount[<<ts, y>>]
        BY <4>1, WeighedAppended
      <4>4. Weighed(Append(q, <<ts, y>>), Square) = Weighed(q, Square) + Square[<<ts, y>>]
        BY <4>1, WeighedAppended
      <4>. QED BY <3>2, <4>2, <4>3, <4>4
    <3>5. Amount[<<ts, y>>] = y /\ Square[<<ts, y>>] = y * y
      BY DEF Amount, Square
    <3> HIDE DEF timed, more
    <3>. QED BY <1>2, <3>2, <3>3, <3>4, <3>5, WeighedFacts
  <2>2. CASE ~(gap > 0)
    BY <1>2, <2>2
  <2>. QED BY <2>1, <2>2
<1>6. sent \in Queues /\ C!Total(sent) = f.bytes + bytes
  <2>1. sent \in Queues
    BY <1>2, AppendedQueue
  <2>2. Weighed(sent, Amount) = Weighed(f.exfil, Amount) + Amount[<<ts, bytes>>]
    BY <1>2, WeighedFacts, WeighedSteps
  <2>3. Amount[<<ts, bytes>>] = bytes
    BY DEF Amount
  <2> HIDE DEF sent
  <2>. QED BY <1>2, <2>1, <2>2, <2>3, WeighedFacts
<1> HIDE DEF timed, more, sent
<1>7. ASSUME NEW q \in Queues, NEW w \in Int
      PROVE  /\ C!Fresh(q, ts, w) \in Queues
             /\ C!Total(C!Lost(q, ts, w)) \in Nat /\ C!Squares(C!Lost(q, ts, w)) \in Nat
             /\ C!Total(C!Fresh(q, ts, w)) = C!Total(q) - C!Total(C!Lost(q, ts, w))
             /\ C!Squares(C!Fresh(q, ts, w)) = C!Squares(q) - C!Squares(C!Lost(q, ts, w))
             /\ C!Total(C!Fresh(q, ts, w)) \in Nat /\ C!Squares(C!Fresh(q, ts, w)) \in Nat
  <2>1. PICK fresh, lost : fresh = C!Fresh(q, ts, w) /\ lost = C!Lost(q, ts, w)
    OBVIOUS
  <2>2. fresh \in Queues /\ lost \in Queues
    BY <2>1, FreshFacts
  <2>3. /\ Weighed(q, Amount) = Weighed(lost, Amount) + Weighed(fresh, Amount)
        /\ Weighed(q, Square) = Weighed(lost, Square) + Weighed(fresh, Square)
    BY <2>1, WeighedFacts, WeighedSteps
  <2>4. /\ Weighed(q, Amount) \in Nat /\ Weighed(lost, Amount) \in Nat
        /\ Weighed(fresh, Amount) \in Nat
        /\ Weighed(q, Square) \in Nat /\ Weighed(lost, Square) \in Nat
        /\ Weighed(fresh, Square) \in Nat
    BY <2>2, WeighedFacts, WeighedSteps
  <2>5. /\ C!Total(q) = Weighed(q, Amount) /\ C!Squares(q) = Weighed(q, Square)
        /\ C!Total(lost) = Weighed(lost, Amount) /\ C!Squares(lost) = Weighed(lost, Square)
        /\ C!Total(fresh) = Weighed(fresh, Amount) /\ C!Squares(fresh) = Weighed(fresh, Square)
    BY <2>2, WeighedFacts
  <2>. QED BY <2>1, <2>2, <2>3, <2>4, <2>5
<1>8. /\ kept \in Queues /\ sum = C!Total(kept) /\ sumsq = C!Squares(kept)
      /\ sum \in Nat /\ sumsq \in Nat
  <2>1. /\ kept \in Queues
        /\ C!Total(kept) = C!Total(timed) - C!Total(late)
        /\ C!Squares(kept) = C!Squares(timed) - C!Squares(late)
        /\ C!Total(kept) \in Nat /\ C!Squares(kept) \in Nat
        /\ C!Total(late) \in Nat /\ C!Squares(late) \in Nat
    BY <1>3, <1>5, <1>7
  <2> HIDE DEF kept, late
  <2>. QED BY <1>2, <1>4, <1>5, <2>1
<1>9. left \in Queues /\ all = C!Total(left) /\ all \in Nat
  <2>1. /\ left \in Queues
        /\ C!Total(left) = C!Total(sent) - C!Total(out) /\ C!Total(left) \in Nat
        /\ C!Total(out) \in Nat
    BY <1>3, <1>6, <1>7
  <2> HIDE DEF left, out
  <2>. QED BY <1>2, <1>6, <2>1
<1>10. ddos \in Queues /\ beacon \in Queues
  <2>1. Append(f.ddos, <<ts, 0>>) \in Queues /\ Append(f.beacon, <<ts, 0>>) \in Queues
    BY <1>2, AppendedQueue
  <2>. QED BY <1>3, <1>7, <2>1
<1> HIDE DEF ddos, beacon, kept, left, sum, sumsq, all
<1>11. PICK g : g = C!Recorded(f, ts, bytes)
  OBVIOUS
<1>12. /\ g \in FastTypes /\ g.sum = C!Total(g.intervals)
       /\ g.sumsq = C!Squares(g.intervals) /\ g.bytes = C!Total(g.exfil)
       /\ g.ddos = ddos /\ g.beacon = beacon /\ g.exfil = left /\ g.intervals = kept
       /\ g.last = ts
  BY <1>1, <1>8, <1>9, <1>10, <1>11 DEF FastTypes
<1>. QED BY <1>5, <1>11, <1>12 DEF ddos, beacon, left, kept, timed, gap, sent

LEMMA FreshShorter ==
  ASSUME NEW q \in Queues, NEW ts \in Int, NEW w \in Int
  PROVE  Len(C!Fresh(q, ts, w)) \in Nat /\ Len(C!Fresh(q, ts, w)) <= Len(q)
<1>1. PICK N \in Nat : N = Len(q)
  BY QueueFields
<1>2. PICK f, e : f = C!Fresh(q, ts, w) /\ e = C!Stale(q, ts, w)
  OBVIOUS
<1>3. e \in 0 .. N /\ Len(f) = N - e
  BY <1>1, <1>2, FreshPart
<1>4. N - e \in Nat /\ N - e <= N
  BY <1>3
<1>. QED BY <1>1, <1>2, <1>3, <1>4

\* The queues never hold more than there were connections, the sums are theirs,
\* and the set of the other tracker stays within its cap.
LEMMA FastRecord ==
  ASSUME ConnInv, FastInv, NEW lag \in 0 .. Lag, NEW bytes \in Bytes, clock > lag,
         C!Record(clock - lag, bytes)
  PROVE  FastInv'
<1>1. PICK ts \in Nat \ {0} : ts = clock - lag
  BY ConnConstants DEF ConnInv
<1>2. /\ Len(conns) < MaxConns /\ conns' = Append(conns, [ts |-> ts, bytes |-> bytes])
      /\ stored' \in C!Capped(C!Pruned(stored \cup {Len(conns')}, conns', ts), conns')
      /\ fast' = C!Recorded(fast, ts, bytes)
  BY <1>1 DEF C!Record
<1>3. /\ bytes \in Nat /\ MaxConns \in Nat /\ Cap \in Nat
      /\ DdosWindow \in Int /\ BeaconWindow \in Int
  BY SignalsAssumption DEF C!ConnAssumption, C!Windows
<1>4. Len(conns) \in Nat /\ Len(conns') = Len(conns) + 1 /\ conns' # <<>>
  <2>1. conns \in Seq([ts : Nat, bytes : Bytes]) /\ Len(conns) \in Nat
    BY ConnFacts DEF ConnInv
  <2>2. [ts |-> ts, bytes |-> bytes] \in [ts : Nat, bytes : Bytes]
    OBVIOUS
  <2>3. Len(conns') = Len(conns) + 1
    BY <1>2, <2>1, <2>2, AppendProperties
  <2>. QED BY <2>1, <2>3
<1> DEFINE gap == IF fast.last # 0 THEN ts - fast.last ELSE 0
           timed == IF gap > 0 THEN Append(fast.intervals, <<ts, gap>>) ELSE fast.intervals
<1>5. /\ fast' \in FastTypes /\ timed \in Queues
      /\ fast'.sum = C!Total(fast'.intervals) /\ fast'.sumsq = C!Squares(fast'.intervals)
      /\ fast'.bytes = C!Total(fast'.exfil)
      /\ fast'.ddos = C!Fresh(Append(fast.ddos, <<ts, 0>>), ts, DdosWindow)
      /\ fast'.intervals = C!Fresh(timed, ts, BeaconWindow)
  <2>1. /\ fast \in FastTypes
        /\ fast.sum = C!Total(fast.intervals) /\ fast.sumsq = C!Squares(fast.intervals)
        /\ fast.bytes = C!Total(fast.exfil)
    BY DEF FastInv
  <2>2. PICK f \in FastTypes : f = fast
    BY <2>1
  <2>3. /\ f.sum = C!Total(f.intervals) /\ f.sumsq = C!Squares(f.intervals)
        /\ f.bytes = C!Total(f.exfil) /\ ts \in Nat /\ bytes \in Nat
    BY <1>3, <2>1, <2>2
  <2> DEFINE gapOf == IF f.last # 0 THEN ts - f.last ELSE 0
             timedOf == IF gapOf > 0 THEN Append(f.intervals, <<ts, gapOf>>) ELSE f.intervals
  <2>4. PICK g : g = C!Recorded(f, ts, bytes)
    OBVIOUS
  <2>5. /\ g \in FastTypes /\ timedOf \in Queues
        /\ g.sum = C!Total(g.intervals) /\ g.sumsq = C!Squares(g.intervals)
        /\ g.bytes = C!Total(g.exfil)
        /\ g.ddos = C!Fresh(Append(f.ddos, <<ts, 0>>), ts, DdosWindow)
        /\ g.intervals = C!Fresh(timedOf, ts, BeaconWindow)
    <3>1. g \in FastTypes
      BY <2>3, <2>4, RecordedFacts
    <3>2. timedOf \in Queues
      BY <2>3, RecordedFacts
    <3>3. /\ g.sum = C!Total(g.intervals) /\ g.sumsq = C!Squares(g.intervals)
          /\ g.bytes = C!Total(g.exfil)
      <4>1. g.sum = C!Total(g.intervals)
        BY <2>3, <2>4, RecordedFacts
      <4>2. g.sumsq = C!Squares(g.intervals)
        BY <2>3, <2>4, RecordedFacts
      <4>3. g.bytes = C!Total(g.exfil)
        BY <2>3, <2>4, RecordedFacts
      <4>. QED BY <4>1, <4>2, <4>3
    <3>4. /\ g.ddos = C!Fresh(Append(f.ddos, <<ts, 0>>), ts, DdosWindow)
          /\ g.intervals = C!Fresh(timedOf, ts, BeaconWindow)
      BY <2>3, <2>4, RecordedFacts
    <3>. QED BY <3>1, <3>2, <3>3, <3>4
  <2>6. g = fast' /\ timedOf = timed
    BY <1>2, <2>2, <2>4
  <2> HIDE DEF timedOf, timed
  <2>. QED BY <2>2, <2>5, <2>6
<1>6. /\ fast.ddos \in Queues /\ fast.intervals \in Queues /\ fast.last \in Nat
  BY DEF FastInv, FastTypes
<1>7. Len(fast'.ddos) <= Len(conns')
  <2>1. PICK q : q = Append(fast.ddos, <<ts, 0>>)
    OBVIOUS
  <2>2. q \in Queues /\ Len(q) = Len(fast.ddos) + 1
    BY <1>6, <2>1, AppendedQueue
  <2>3. Len(fast'.ddos) <= Len(q) /\ Len(fast'.ddos) \in Nat
    <3>1. fast'.ddos = C!Fresh(q, ts, DdosWindow) /\ ts \in Int
      BY <1>5, <2>1
    <3>. QED BY <1>3, <2>2, <3>1, FreshShorter
  <2>4. Len(fast.ddos) \in Nat
    BY <1>6, QueueFields
  <2>5. Len(fast.ddos) <= Len(conns)
    BY DEF FastInv
  <2>. QED BY <1>4, <2>2, <2>3, <2>4, <2>5
<1>8. Len(fast'.intervals) < Len(conns')
  <2>1. Len(fast'.intervals) <= Len(timed) /\ Len(fast'.intervals) \in Nat
    <3>1. PICK q \in Queues : q = timed
      BY <1>5
    <3>2. fast'.intervals = C!Fresh(q, ts, BeaconWindow) /\ ts \in Int
      BY <1>5, <3>1
    <3>. QED BY <1>3, <3>1, <3>2, FreshShorter
  <2>2. Len(timed) \in Nat /\ Len(timed) <= Len(conns)
    <3>1. CASE conns = <<>>
      <4>1. fast.last = 0 /\ fast.intervals = <<>>
        BY <3>1 DEF FastInv
      <4>. QED BY <1>4, <4>1, EmptyQueue
    <3>2. CASE conns # <<>>
      <4>1. Len(fast.intervals) < Len(conns) /\ Len(fast.intervals) \in Nat
        BY <1>6, <3>2, QueueFields DEF FastInv
      <4>2. CASE gap > 0
        <5>1. PICK y \in Nat : y = gap
          BY <1>6, <4>2
        <5>2. Len(timed) = Len(fast.intervals) + 1
          BY <1>6, <4>2, <5>1, AppendedQueue
        <5>. QED BY <1>4, <4>1, <5>2
      <4>3. CASE ~(gap > 0)
        BY <1>4, <4>1, <4>3
      <4>. QED BY <4>2, <4>3
    <3>. QED BY <3>1, <3>2
  <2> HIDE DEF timed
  <2>. QED BY <1>4, <2>1, <2>2
<1>9. IsFiniteSet(stored') /\ Cardinality(stored') <= Cap
  <2>1. PICK P : P = C!Pruned(stored \cup {Len(conns')}, conns', ts)
    OBVIOUS
  <2>2. IsFiniteSet(P)
    <3>1. IsFiniteSet(stored \cup {Len(conns')})
      BY FS_AddElement DEF FastInv
    <3>2. P \subseteq stored \cup {Len(conns')}
      BY <2>1 DEF C!Pruned
    <3>. QED BY <3>1, <3>2, FS_Subset
  <2>3. /\ stored' \subseteq P
        /\ Cardinality(stored') = IF Cardinality(P) > Cap THEN Cap ELSE Cardinality(P)
    BY <1>2, <2>1, SameCardinality DEF C!Capped
  <2>. QED BY <1>3, <2>2, <2>3, FS_Subset, FS_CardinalityType
<1>10. Len(conns') <= MaxConns
  BY <1>2, <1>3, <1>4
<1> HIDE DEF timed
<1>. QED BY <1>4, <1>5, <1>7, <1>8, <1>9, <1>10 DEF FastInv

LEMMA FastStep == ConnInv /\ FastInv /\ [C!Next]_conn => FastInv'
<1> SUFFICES ASSUME ConnInv, FastInv, [C!Next]_conn PROVE FastInv'
  OBVIOUS
<1>1. CASE UNCHANGED conn
  BY <1>1 DEF conn, FastInv
<1>2. ASSUME NEW lag \in 0 .. Lag, NEW bytes \in Bytes,
             clock > lag /\ C!Record(clock - lag, bytes)
      PROVE  FastInv'
  BY <1>2, FastRecord
<1>3. CASE C!Tick
  <2>1. /\ conns' = conns /\ fast' = fast
        /\ stored' = {} \/ stored' = stored
    BY <1>3 DEF C!Tick
  <2>2. IsFiniteSet({}) /\ Cardinality({}) = 0 /\ Cap \in Nat
    BY FS_EmptySet, SignalsAssumption DEF C!ConnAssumption
  <2>3. IsFiniteSet(stored') /\ Cardinality(stored') <= Cap
    <3>1. CASE stored' = {}
      BY <2>2, <3>1
    <3>2. CASE stored' = stored
      BY <3>2 DEF FastInv
    <3>. QED BY <2>1, <3>1, <3>2
  <2>. QED BY <2>1, <2>3 DEF FastInv
<1>. QED BY <1>1, <1>2, <1>3 DEF C!Next

\* What the type invariant says of the two trackers
LEMMA FastInvIsTyped == ConnInv /\ FastInv => C!TypeOK
<1> SUFFICES ASSUME ConnInv, FastInv PROVE C!TypeOK
  OBVIOUS
<1>1. stored \subseteq C!All /\ C!Cardinality(stored) <= Cap
  BY SameCardinality DEF ConnInv, FastInv, C!All
<1>2. fast.sum >= 0 /\ fast.bytes >= 0 /\ Len(fast.ddos) <= Len(conns)
  BY DEF FastInv, FastTypes
<1>3. Len(fast.intervals) < MaxConns
  <2>1. MaxConns \in Nat \ {0}
    BY SignalsAssumption DEF C!ConnAssumption
  <2>2. Len(conns) \in Nat /\ Len(conns) <= MaxConns
    BY ConnFacts DEF FastInv
  <2>3. Len(fast.intervals) \in Nat
    BY QueueFields DEF FastInv, FastTypes
  <2>. QED BY <2>1, <2>2, <2>3, EmptyQueue DEF FastInv
<1>. QED BY <1>1, <1>2, <1>3 DEF C!TypeOK

-----------------------------------------------------------------------------
(* The trackers of the evaluations and of Redis, in the order of stamps    *)

\* Queue q holds the end of a list of n entries, from the first one that is not
\* older than low.
Suffix(q, list, n, low) ==
  \E d \in 0 .. n : /\ Len(q) = n - d
                    /\ \A k \in 1 .. n - d : q[k] = list[k + d]
                    /\ \A k \in 1 .. d : list[k][1] < low
                    /\ \A k \in d + 1 .. n : ~(list[k][1] < low)

LEMMA SuffixStep ==
  ASSUME NEW N \in Nat, NEW list, \A k \in 1 .. N + 1 : list[k] \in Nat \X Nat,
         \A j, k \in 1 .. N + 1 : j < k => list[j][1] <= list[k][1],
         NEW old, \A k \in 1 .. N : old[k] = list[k],
         NEW q \in Queues, NEW low \in Int, Suffix(q, old, N, low),
         NEW ts \in Int, NEW w \in Int, low <= ts - w,
         NEW x \in Nat, NEW y \in Nat, list[N + 1] = <<x, y>>
  PROVE  Suffix(C!Fresh(Append(q, <<x, y>>), ts, w), list, N + 1, ts - w)
<1>1. PICK d \in 0 .. N : /\ Len(q) = N - d
                          /\ \A k \in 1 .. N - d : q[k] = old[k + d]
                          /\ \A k \in 1 .. d : old[k][1] < low
  BY DEF Suffix
<1>2. PICK p : p = Append(q, <<x, y>>)
  OBVIOUS
<1>3. PICK M \in Nat : M = N + 1 - d
  BY <1>1
<1>4. p \in Queues /\ Len(p) = M
  BY <1>1, <1>2, <1>3, AppendedQueue
<1>5. ASSUME NEW k \in 1 .. M PROVE p[k] = list[k + d] /\ k + d \in 1 .. N + 1
  <2>1. k + d \in 1 .. N + 1
    BY <1>3
  <2>2. CASE k = M
    <3>1. k = Len(q) + 1 /\ k + d = N + 1
      BY <1>1, <1>3, <2>2
    <3>. QED BY <1>2, <2>1, <3>1, AppendedQueue
  <2>3. CASE k # M
    <3>1. k \in 1 .. N - d /\ k \in 1 .. Len(q) /\ k + d \in 1 .. N
      BY <1>1, <1>3, <2>3
    <3>2. p[k] = q[k] /\ q[k] = old[k + d] /\ old[k + d] = list[k + d]
      BY <1>1, <1>2, <3>1, AppendedQueue
    <3>. QED BY <2>1, <3>2
  <2>. QED BY <2>2, <2>3
<1>6. PICK e \in 0 .. M : e = C!Stale(p, ts, w)
  BY <1>4, StaleFacts
<1>f. PICK f : f = C!Fresh(p, ts, w)
  OBVIOUS
<1>7. /\ e \in 0 .. M /\ \A k \in 1 .. e : p[k][1] < ts - w
      /\ e < M => ~(p[e + 1][1] < ts - w)
  <2>1. e \in 0 .. M
    OBVIOUS
  <2>2. ASSUME NEW k \in 1 .. e PROVE p[k][1] < ts - w
    BY <1>4, <1>6, StaleFacts
  <2>3. e < M => ~(p[e + 1][1] < ts - w)
    BY <1>4, <1>6, StaleFacts
  <2>. QED BY <2>1, <2>2, <2>3
<1>8. Len(f) = M - e /\ \A k \in 1 .. M - e : f[k] = p[k + e]
  <2>1. Len(f) = M - e
    BY <1>4, <1>6, <1>f, FreshFacts
  <2>2. \A k \in 1 .. M - e : f[k] = p[k + e]
    BY <1>4, <1>6, <1>f, FreshFacts
  <2>. QED BY <2>1, <2>2
<1> DEFINE c == d + e
<1>9. c \in 0 .. N + 1 /\ Len(f) = N + 1 - c
  <2>1. d \in 0 .. N /\ e \in 0 .. M /\ M = N + 1 - d
    BY <1>1, <1>3, <1>7
  <2>2. c \in 0 .. N + 1 /\ M - e = N + 1 - c
    BY <2>1
  <2>. QED BY <1>8, <2>2
<1>10. ASSUME NEW k \in 1 .. N + 1 - c PROVE f[k] = list[k + c]
  <2>1. k \in 1 .. M - e /\ k + e \in 1 .. M /\ (k + e) + d = k + c
    BY <1>3, <1>7
  <2>2. PICK i \in 1 .. M : i = k + e
    BY <2>1
  <2>. QED BY <1>5, <1>8, <2>1, <2>2
<1>11. ASSUME NEW k \in 1 .. c PROVE list[k][1] < ts - w
  <2>1. CASE k <= d
    <3>1. k \in 1 .. d /\ k \in 1 .. N /\ k \in 1 .. N + 1
      BY <2>1
    <3>2. list[k][1] < low
      <4>1. old[k] = list[k] /\ old[k][1] < low
        BY <1>1, <3>1
      <4>. QED BY <4>1
    <3>3. PICK t \in Nat : t = list[k][1]
      <4>1. list[k] \in Nat \X Nat
        BY <3>1
      <4>. QED BY <4>1
    <3>. QED BY <3>2, <3>3
  <2>2. CASE ~(k <= d)
    <3>1. k - d \in 1 .. e /\ k - d \in 1 .. M /\ (k - d) + d = k
      BY <1>7, <2>2
    <3>2. PICK i \in 1 .. e : i = k - d
      BY <3>1
    <3>. QED BY <1>5, <1>7, <3>1, <3>2
  <2>. QED BY <2>1, <2>2
<1>12. ASSUME NEW k \in c + 1 .. N + 1 PROVE ~(list[k][1] < ts - w)
  <2>1. e < M /\ e + 1 \in 1 .. M /\ k \in 1 .. N + 1
    BY <1>3, <1>7
  <2>2. PICK i \in 1 .. N + 1 : i = c + 1
    BY <1>9
  <2>3. ~(list[i][1] < ts - w)
    <3>1. PICK j \in 1 .. M : j = e + 1
      BY <2>1
    <3>2. p[j] = list[j + d] /\ j + d = i
      BY <1>5, <2>2, <3>1
    <3>3. ~(p[j][1] < ts - w)
      BY <1>7, <2>1, <3>1
    <3>. QED BY <3>2, <3>3
  <2>4. list[i][1] <= list[k][1] /\ list[i][1] \in Nat /\ list[k][1] \in Nat
    <3>1. list[i] \in Nat \X Nat /\ list[k] \in Nat \X Nat
      BY <2>1
    <3>2. i = k \/ i < k
      BY <1>9, <2>2
    <3>. QED BY <2>1, <3>1, <3>2
  <2>. QED BY <2>3, <2>4
<1> HIDE DEF c
<1>13. Suffix(f, list, N + 1, ts - w)
  <2>1. PICK n, bound : n = N + 1 /\ bound = ts - w
    OBVIOUS
  <2>2. Suffix(f, list, n, bound)
    BY <1>9, <1>10, <1>11, <1>12, <2>1 DEF Suffix
  <2>. QED BY <2>1, <2>2
<1>. QED BY <1>2, <1>f, <1>13

\* What the queues of floods and beacons, of transfers and of intervals would
\* hold if nothing ever left them
Floods == [k \in 1 .. Len(conns) |-> <<conns[k].ts, 0>>]
Sent == [k \in 1 .. Len(conns) |-> <<conns[k].ts, conns[k].bytes>>]
Gap(k) == <<conns[k + 1].ts, conns[k + 1].ts - conns[k].ts>>

Rising == \A j, k \in 1 .. Len(conns) : j < k => conns[j].ts <= conns[k].ts
Climbing == \A j, k \in 1 .. Len(conns) : j < k => conns[j].ts < conns[k].ts

\* As long as the stamps rise each queue holds the end of its list, and the
\* sorted set what is not older than the retention, but for a record that came
\* late: the key can have expired before it.  As long as nothing left the window
\* of beacons every interval is there.
TrackInv ==
  /\ \A k \in 1 .. Len(conns) : conns[k].ts >= 1
  /\ conns # <<>> => fast.last = conns[Len(conns)].ts
  /\ Rising =>
       /\ Suffix(fast.ddos, Floods, Len(conns), fast.last - DdosWindow)
       /\ Suffix(fast.beacon, Floods, Len(conns), fast.last - BeaconWindow)
       /\ Suffix(fast.exfil, Sent, Len(conns), fast.last - ExfilWindow)
       /\ Len(conns) <= Cap /\ expiry > clock =>
            \A k \in 1 .. Len(conns) : k \in stored \/ conns[k].ts <= fast.last - R + Lag
  /\ Climbing /\ conns # <<>> /\ fast.last <= conns[1].ts + R =>
       /\ Len(fast.intervals) = Len(conns) - 1
       /\ \A k \in 1 .. Len(conns) - 1 : fast.intervals[k] = Gap(k)

LEMMA TrackInit == C!Init => TrackInv
<1> SUFFICES ASSUME C!Init PROVE TrackInv
  OBVIOUS
<1>1. /\ conns = <<>> /\ Len(conns) = 0
      /\ fast = [ddos |-> <<>>, beacon |-> <<>>, intervals |-> <<>>, last |-> 0,
                 exfil |-> <<>>, sum |-> 0, sumsq |-> 0, bytes |-> 0]
  BY DEF C!Init
<1>2. ASSUME NEW list, NEW low PROVE Suffix(<<>>, list, 0, low)
  <2>1. /\ 0 \in 0 .. 0 /\ Len(<<>>) = 0 - 0
        /\ \A k \in 1 .. 0 - 0 : <<>>[k] = list[k + 0]
        /\ \A k \in 1 .. 0 : list[k][1] < low
        /\ \A k \in 0 + 1 .. 0 : ~(list[k][1] < low)
    OBVIOUS
  <2>. QED BY <2>1 DEF Suffix
<1>3. /\ fast.ddos = <<>> /\ fast.beacon = <<>> /\ fast.exfil = <<>>
  BY <1>1
<1>4. \A k \in 1 .. Len(conns) : FALSE
  BY <1>1
<1>. QED BY <1>1, <1>2, <1>3, <1>4 DEF TrackInv

\* What a record does to the history and to the fast tracker
LEMMA FastRecorded ==
  ASSUME ConnInv, FastInv, NEW ts \in Nat \ {0}, NEW bytes \in Bytes, C!Record(ts, bytes)
  PROVE  /\ Len(conns) \in Nat /\ Len(conns') = Len(conns) + 1
         /\ \A k \in 1 .. Len(conns) : conns'[k] = conns[k] /\ conns[k].ts \in Nat
                                       /\ conns[k].bytes \in Nat
         /\ conns'[Len(conns) + 1] = [ts |-> ts, bytes |-> bytes] /\ bytes \in Nat
         /\ fast'.last = ts
         /\ fast'.ddos = C!Fresh(Append(fast.ddos, <<ts, 0>>), ts, DdosWindow)
         /\ fast'.beacon = C!Fresh(Append(fast.beacon, <<ts, 0>>), ts, BeaconWindow)
         /\ fast'.exfil = C!Fresh(Append(fast.exfil, <<ts, bytes>>), ts, ExfilWindow)
         /\ (fast.last = 0 => fast'.intervals = C!Fresh(fast.intervals, ts, BeaconWindow))
         /\ (fast.last # 0 /\ fast.last < ts =>
               fast'.intervals = C!Fresh(Append(fast.intervals, <<ts, ts - fast.last>>),
                                         ts, BeaconWindow))
<1>1. /\ conns' = Append(conns, [ts |-> ts, bytes |-> bytes])
      /\ fast' = C!Recorded(fast, ts, bytes)
  BY DEF C!Record
<1>2. bytes \in Nat /\ Bytes \subseteq Nat
  BY SignalsAssumption DEF C!ConnAssumption
<1>3. /\ Len(conns) \in Nat /\ Len(conns') = Len(conns) + 1
      /\ \A k \in 1 .. Len(conns) : conns'[k] = conns[k] /\ conns[k].ts \in Nat
                                    /\ conns[k].bytes \in Nat
      /\ conns'[Len(conns) + 1] = [ts |-> ts, bytes |-> bytes]
  <2>1. conns \in Seq([ts : Nat, bytes : Bytes]) /\ Len(conns) \in Nat
        /\ DOMAIN conns = 1 .. Len(conns)
    BY ConnFacts DEF ConnInv
  <2>2. [ts |-> ts, bytes |-> bytes] \in [ts : Nat, bytes : Bytes]
    OBVIOUS
  <2>3. \A k \in 1 .. Len(conns) : conns[k] \in [ts : Nat, bytes : Bytes]
    BY <2>1, ElementOfSeq
  <2>4. /\ Len(conns') = Len(conns) + 1
        /\ \A k \in 1 .. Len(conns) : conns'[k] = conns[k]
        /\ conns'[Len(conns) + 1] = [ts |-> ts, bytes |-> bytes]
    BY <1>1, <2>1, <2>2, AppendProperties
  <2>. QED BY <1>2, <2>1, <2>3, <2>4
<1>4. /\ fast \in FastTypes
      /\ fast.sum = C!Total(fast.intervals) /\ fast.sumsq = C!Squares(fast.intervals)
      /\ fast.bytes = C!Total(fast.exfil)
  BY DEF FastInv
<1>5. PICK f \in FastTypes : f = fast
  BY <1>4
<1>6. /\ f.sum = C!Total(f.intervals) /\ f.sumsq = C!Squares(f.intervals)
      /\ f.bytes = C!Total(f.exfil) /\ ts \in Nat /\ f.last \in Nat
  BY <1>4, <1>5 DEF FastTypes
<1> DEFINE gap == IF f.last # 0 THEN ts - f.last ELSE 0
           timed == IF gap > 0 THEN Append(f.intervals, <<ts, gap>>) ELSE f.intervals
<1>7. PICK g : g = C!Recorded(f, ts, bytes)
  OBVIOUS
<1>8. /\ g.ddos = C!Fresh(Append(f.ddos, <<ts, 0>>), ts, DdosWindow)
      /\ g.beacon = C!Fresh(Append(f.beacon, <<ts, 0>>), ts, BeaconWindow)
      /\ g.exfil = C!Fresh(Append(f.exfil, <<ts, bytes>>), ts, ExfilWindow)
      /\ g.intervals = C!Fresh(timed, ts, BeaconWindow)
      /\ g.last = ts
  BY <1>2, <1>6, <1>7, RecordedFacts
<1>9. /\ f.last = 0 => timed = f.intervals
      /\ f.last # 0 /\ f.last < ts => timed = Append(f.intervals, <<ts, ts - f.last>>)
  BY <1>6
<1> HIDE DEF timed
<1>10. g = fast'
  BY <1>1, <1>5, <1>7
<1>11. /\ fast'.last = ts
       /\ fast'.ddos = C!Fresh(Append(fast.ddos, <<ts, 0>>), ts, DdosWindow)
       /\ fast'.beacon = C!Fresh(Append(fast.beacon, <<ts, 0>>), ts, BeaconWindow)
       /\ fast'.exfil = C!Fresh(Append(fast.exfil, <<ts, bytes>>), ts, ExfilWindow)
  BY <1>5, <1>8, <1>10
<1>12. /\ fast.last = 0 => fast'.intervals = C!Fresh(fast.intervals, ts, BeaconWindow)
       /\ fast.last # 0 /\ fast.last < ts =>
            fast'.intervals = C!Fresh(Append(fast.intervals, <<ts, ts - fast.last>>),
                                      ts, BeaconWindow)
  BY <1>5, <1>8, <1>9, <1>10
<1>. QED BY <1>2, <1>3, <1>11, <1>12

\* A queue that loses nothing
LEMMA AllFresh ==
  ASSUME NEW q \in Queues, NEW ts \in Int, NEW w \in Int,
         \A k \in 1 .. Len(q) : ~(q[k][1] < ts - w)
  PROVE  /\ Len(C!Fresh(q, ts, w)) = Len(q)
         /\ \A k \in 1 .. Len(q) : C!Fresh(q, ts, w)[k] = q[k]
<1>1. PICK N \in Nat : N = Len(q)
  BY QueueFields
<1>2. PICK f, e : f = C!Fresh(q, ts, w) /\ e = C!Stale(q, ts, w)
  OBVIOUS
<1>3. /\ e \in 0 .. N /\ \A k \in 1 .. e : q[k][1] < ts - w
      /\ Len(f) = N - e
      /\ \A k \in 1 .. N - e : f[k] = q[k + e]
  <2>1. e \in 0 .. N /\ Len(f) = N - e
    BY <1>1, <1>2, FreshPart
  <2>2. ASSUME NEW k \in 1 .. e PROVE q[k][1] < ts - w
    BY <1>2, StaleFacts
  <2>3. ASSUME NEW k \in 1 .. N - e PROVE f[k] = q[k + e]
    BY <1>1, <1>2, FreshPart
  <2>. QED BY <2>1, <2>2, <2>3
<1>4. e = 0
  <2>1. e > 0 => 1 \in 1 .. e /\ 1 \in 1 .. N
    BY <1>3
  <2>. QED BY <1>1, <1>3, <2>1
<1>5. N - e = N /\ \A k \in 1 .. N : k + e = k
  BY <1>4
<1>. QED BY <1>1, <1>2, <1>3, <1>5

\* The queues after a record in the order of stamps
LEMMA QueuesRecord ==
  ASSUME ConnInv, FastInv, TrackInv, NEW ts \in Nat \ {0}, NEW bytes \in Bytes,
         C!Record(ts, bytes), Rising'
  PROVE  /\ Rising /\ fast.last \in Nat /\ fast.last <= ts
         /\ Suffix(fast'.ddos, Floods', Len(conns'), ts - DdosWindow)
         /\ Suffix(fast'.beacon, Floods', Len(conns'), ts - BeaconWindow)
         /\ Suffix(fast'.exfil, Sent', Len(conns'), ts - ExfilWindow)
<1>1. PICK N \in Nat : N = Len(conns)
  BY FastRecorded
<1>2. /\ Len(conns') = N + 1
      /\ \A k \in 1 .. N : conns'[k] = conns[k] /\ conns[k].ts \in Nat
                           /\ conns[k].bytes \in Nat
      /\ conns'[N + 1] = [ts |-> ts, bytes |-> bytes] /\ bytes \in Nat
      /\ fast'.ddos = C!Fresh(Append(fast.ddos, <<ts, 0>>), ts, DdosWindow)
      /\ fast'.beacon = C!Fresh(Append(fast.beacon, <<ts, 0>>), ts, BeaconWindow)
      /\ fast'.exfil = C!Fresh(Append(fast.exfil, <<ts, bytes>>), ts, ExfilWindow)
  BY <1>1, FastRecorded
<1>3. \A k \in 1 .. N + 1 : conns'[k].ts \in Nat /\ conns'[k].bytes \in Nat
  <2>1. conns'[N + 1].ts = ts /\ conns'[N + 1].bytes = bytes
    BY <1>2
  <2>. QED BY <1>2, <2>1
<1>4. \A j, k \in 1 .. N + 1 : j < k => conns'[j].ts <= conns'[k].ts
  BY <1>2 DEF Rising
<1>5. Rising
  <2>1. \A k \in 1 .. N : k \in 1 .. N + 1
    OBVIOUS
  <2>. QED BY <1>1, <1>2, <1>4, <2>1 DEF Rising
<1>6. /\ fast.ddos \in Queues /\ fast.beacon \in Queues /\ fast.exfil \in Queues
      /\ fast.last \in Nat
  BY DEF FastInv, FastTypes
<1>7. fast.last <= ts
  <2>1. CASE N = 0
    <3>1. conns = <<>>
      BY <1>1, <2>1, ConnFacts, EmptySeq DEF ConnInv
    <3>. QED BY <1>6, <3>1 DEF FastInv
  <2>2. CASE N # 0
    <3>1. conns # <<>> /\ N \in 1 .. N
      BY <1>1, <2>2
    <3>2. fast.last = conns[N].ts
      BY <1>1, <3>1 DEF TrackInv
    <3>3. conns'[N].ts <= conns'[N + 1].ts
      <4>1. N \in 1 .. N + 1 /\ N + 1 \in 1 .. N + 1 /\ N < N + 1
        BY <3>1
      <4>. QED BY <1>4, <4>1
    <3>. QED BY <1>2, <3>1, <3>2, <3>3
  <2>. QED BY <2>1, <2>2
<1>8. /\ DdosWindow \in Int /\ BeaconWindow \in Int /\ ExfilWindow \in Int
  BY SignalsAssumption DEF C!ConnAssumption, C!Windows
<1>9. ASSUME NEW w \in Int
      PROVE  /\ fast.last - w \in Int /\ fast.last - w <= ts - w
             /\ ts \in Int /\ ts \in Nat /\ 0 \in Nat
  BY <1>6, <1>7
<1>10. /\ \A k \in 1 .. N : Floods[k] = <<conns[k].ts, 0>>
       /\ \A k \in 1 .. N : Sent[k] = <<conns[k].ts, conns[k].bytes>>
       /\ \A k \in 1 .. N + 1 : (Floods')[k] = <<conns'[k].ts, 0>>
       /\ \A k \in 1 .. N + 1 : (Sent')[k] = <<conns'[k].ts, conns'[k].bytes>>
  BY <1>1, <1>2 DEF Floods, Sent
<1>11. PICK fl, se, flo, sen : /\ fl = Floods /\ se = Sent
                               /\ flo = Floods' /\ sen = Sent'
  OBVIOUS
<1>12. /\ \A k \in 1 .. N + 1 : flo[k] \in Nat \X Nat /\ sen[k] \in Nat \X Nat
       /\ \A k \in 1 .. N + 1 : flo[k][1] = conns'[k].ts /\ sen[k][1] = conns'[k].ts
       /\ \A k \in 1 .. N : fl[k] = flo[k]
       /\ \A k \in 1 .. N : se[k] = sen[k]
       /\ flo[N + 1] = <<ts, 0>> /\ sen[N + 1] = <<ts, bytes>>
  <2>1. \A k \in 1 .. N : k \in 1 .. N + 1
    OBVIOUS
  <2>2. N + 1 \in 1 .. N + 1
    OBVIOUS
  <2>3. ASSUME NEW k \in 1 .. N + 1
        PROVE  /\ flo[k] \in Nat \X Nat /\ flo[k][1] = conns'[k].ts
               /\ sen[k] \in Nat \X Nat /\ sen[k][1] = conns'[k].ts
    <3>1. PICK t \in Nat, b \in Nat : t = conns'[k].ts /\ b = conns'[k].bytes
      BY <1>3
    <3>2. flo[k] = <<t, 0>> /\ sen[k] = <<t, b>>
      BY <1>10, <1>11, <3>1
    <3>3. /\ <<t, 0>> \in Nat \X Nat /\ <<t, 0>>[1] = t
          /\ <<t, b>> \in Nat \X Nat /\ <<t, b>>[1] = t
      OBVIOUS
    <3>. QED BY <3>1, <3>2, <3>3
  <2>5. \A k \in 1 .. N : fl[k] = flo[k]
    BY <1>2, <1>10, <1>11, <2>1
  <2>6. \A k \in 1 .. N : se[k] = sen[k]
    BY <1>2, <1>10, <1>11, <2>1
  <2>7. flo[N + 1] = <<ts, 0>> /\ sen[N + 1] = <<ts, bytes>>
    BY <1>2, <1>10, <1>11, <2>2
  <2>. QED BY <2>3, <2>5, <2>6, <2>7
<1>13. /\ \A j, k \in 1 .. N + 1 : j < k => flo[j][1] <= flo[k][1]
       /\ \A j, k \in 1 .. N + 1 : j < k => sen[j][1] <= sen[k][1]
  BY <1>4, <1>12
<1>14. /\ Suffix(fast.ddos, fl, N, fast.last - DdosWindow)
       /\ Suffix(fast.beacon, fl, N, fast.last - BeaconWindow)
       /\ Suffix(fast.exfil, se, N, fast.last - ExfilWindow)
  BY <1>1, <1>5, <1>11 DEF TrackInv
<1>15. Suffix(C!Fresh(Append(fast.ddos, <<ts, 0>>), ts, DdosWindow), flo, N + 1, ts - DdosWindow)
  <2>1. PICK q \in Queues, low \in Int : q = fast.ddos /\ low = fast.last - DdosWindow
    BY <1>6, <1>8, <1>9
  <2>2. Suffix(q, fl, N, low) /\ low <= ts - DdosWindow
    BY <1>8, <1>9, <1>14, <2>1
  <2>3. Suffix(C!Fresh(Append(q, <<ts, 0>>), ts, DdosWindow), flo, N + 1, ts - DdosWindow)
    BY <1>8, <1>9, <1>12, <1>13, <2>2, SuffixStep
  <2>. QED BY <2>1, <2>3
<1>16. Suffix(C!Fresh(Append(fast.beacon, <<ts, 0>>), ts, BeaconWindow), flo, N + 1,
              ts - BeaconWindow)
  <2>1. PICK q \in Queues, low \in Int : q = fast.beacon /\ low = fast.last - BeaconWindow
    BY <1>6, <1>8, <1>9
  <2>2. Suffix(q, fl, N, low) /\ low <= ts - BeaconWindow
    BY <1>8, <1>9, <1>14, <2>1
  <2>3. Suffix(C!Fresh(Append(q, <<ts, 0>>), ts, BeaconWindow), flo, N + 1, ts - BeaconWindow)
    BY <1>8, <1>9, <1>12, <1>13, <2>2, SuffixStep
  <2>. QED BY <2>1, <2>3
<1>17. Suffix(C!Fresh(Append(fast.exfil, <<ts, bytes>>), ts, ExfilWindow), sen, N + 1,
              ts - ExfilWindow)
  <2>1. PICK q \in Queues, low \in Int : q = fast.exfil /\ low = fast.last - ExfilWindow
    BY <1>6, <1>8, <1>9
  <2>2. Suffix(q, se, N, low) /\ low <= ts - ExfilWindow
    BY <1>8, <1>9, <1>14, <2>1
  <2>3. Suffix(C!Fresh(Append(q, <<ts, bytes>>), ts, ExfilWindow), sen, N + 1, ts - ExfilWindow)
    BY <1>2, <1>8, <1>9, <1>12, <1>13, <2>2, SuffixStep
  <2>. QED BY <2>1, <2>3
<1>. QED BY <1>2, <1>5, <1>6, <1>7, <1>11, <1>15, <1>16, <1>17

\* Under the cap a record prunes what is older than the retention; what is gone
\* before it went with the key, which lives a retention longer than a stamp.
LEMMA StoredRecord ==
  ASSUME ConnInv, FastInv, TrackInv, NEW ts \in Nat \ {0}, NEW bytes \in Bytes,
         C!Record(ts, bytes), clock <= ts + Lag, Rising, fast.last <= ts,
         Len(conns') <= Cap, NEW k \in 1 .. Len(conns')
  PROVE  k \in stored' \/ conns'[k].ts <= ts - R + Lag
<1>1. PICK N \in Nat : N = Len(conns)
  BY FastRecorded
<1>2. /\ Len(conns') = N + 1 /\ N + 1 <= Cap
      /\ \A j \in 1 .. N : conns'[j] = conns[j] /\ conns[j].ts \in Nat
      /\ conns'[N + 1] = [ts |-> ts, bytes |-> bytes]
  BY <1>1, FastRecorded
<1>3. Cap \in Nat /\ Lag \in Nat /\ R \in Nat /\ fast.last \in Nat
  BY ConnConstants DEF FastInv, FastTypes
<1> DEFINE all == stored \cup {N + 1}
<1>4. PICK P : P = C!Pruned(all, conns', ts)
  OBVIOUS
<1>5. stored' \in C!Capped(P, conns')
  BY <1>2, <1>4 DEF C!Record
<1>6. \A j \in all : j \in P \/ ~(conns'[j].ts > ts - R)
  BY <1>4 DEF C!Pruned, R
<1>7. stored' = P
  <2>1. stored \subseteq 1 .. N
    BY <1>1, ConnFacts DEF ConnInv
  <2>2. P \subseteq 1 .. N + 1
    <3>1. P \subseteq all
      BY <1>4 DEF C!Pruned
    <3>. QED BY <2>1, <3>1
  <2>3. IsFiniteSet(1 .. N + 1) /\ Cardinality(1 .. N + 1) = N + 1
    <3>1. N + 1 \in Nat /\ 1 \in Int /\ N + 1 \in Int
      OBVIOUS
    <3>2. Cardinality(1 .. N + 1) = IF 1 > N + 1 THEN 0 ELSE (N + 1) - 1 + 1
      BY <3>1, FS_Interval
    <3>. QED BY <3>1, <3>2, FS_Interval
  <2>4. IsFiniteSet(P) /\ Cardinality(P) <= N + 1 /\ Cardinality(P) \in Nat
    <3>1. IsFiniteSet(P) /\ Cardinality(P) <= Cardinality(1 .. N + 1)
      BY <2>2, <2>3, FS_Subset
    <3>2. Cardinality(P) \in Nat
      BY <3>1, FS_CardinalityType
    <3>. QED BY <2>3, <3>1, <3>2
  <2>5. /\ stored' \subseteq P
        /\ Cardinality(stored') = IF Cardinality(P) > Cap THEN Cap ELSE Cardinality(P)
    BY <1>5, SameCardinality DEF C!Capped
  <2>6. Cardinality(stored') = Cardinality(P)
    BY <1>2, <1>3, <2>4, <2>5
  <2>. QED BY <2>4, <2>5, <2>6, FS_Subset
<1>8. CASE k \in all
  <2>1. conns'[k].ts \in Nat
    <3>1. k \in 1 .. N \/ k = N + 1
      BY <1>2
    <3>. QED BY <1>2, <3>1
  <2>. QED BY <1>3, <1>6, <1>7, <1>8, <2>1
<1>9. CASE k \notin all
  <2>1. k \in 1 .. N /\ k \notin stored
    BY <1>2, <1>9
  <2>2. PICK t \in Nat : t = conns[k].ts /\ t = conns'[k].ts
    BY <1>2, <2>1
  <2>3. CASE expiry > clock
    <3>1. t <= fast.last - R + Lag
      BY <1>1, <1>2, <1>3, <2>1, <2>2, <2>3 DEF TrackInv
    <3>. QED BY <1>3, <2>2, <3>1
  <2>4. CASE ~(expiry > clock)
    <3>1. t + R <= expiry /\ expiry \in Nat /\ clock \in Nat
      <4>1. k \in DOMAIN conns /\ C!Ts(k) = t
        BY <1>1, <2>1, <2>2, ConnFacts DEF C!Ts
      <4>. QED BY <4>1 DEF ConnInv
    <3>2. t <= ts - R + Lag
      BY <1>3, <2>4, <3>1
    <3>. QED BY <2>2, <3>2
  <2>. QED BY <2>3, <2>4
<1>. QED BY <1>8, <1>9

\* The intervals between stamps that climb
LEMMA GapsRecord ==
  ASSUME ConnInv, FastInv, TrackInv, NEW ts \in Nat \ {0}, NEW bytes \in Bytes,
         C!Record(ts, bytes), Climbing', ts <= conns'[1].ts + R
  PROVE  /\ Len(fast'.intervals) = Len(conns') - 1
         /\ \A k \in 1 .. Len(conns') - 1 : fast'.intervals[k] = (Gap(k))'
<1>1. PICK N \in Nat : N = Len(conns)
  BY FastRecorded
<1>2. /\ Len(conns') = N + 1
      /\ \A j \in 1 .. N : conns'[j] = conns[j] /\ conns[j].ts \in Nat
      /\ conns'[N + 1].ts = ts
      /\ fast.last = 0 => fast'.intervals = C!Fresh(fast.intervals, ts, BeaconWindow)
      /\ fast.last # 0 /\ fast.last < ts =>
           fast'.intervals = C!Fresh(Append(fast.intervals, <<ts, ts - fast.last>>),
                                     ts, BeaconWindow)
  <2>1. conns'[N + 1].ts = ts
    <3>1. conns'[N + 1] = [ts |-> ts, bytes |-> bytes]
      BY <1>1, FastRecorded
    <3>. QED BY <3>1
  <2>2. /\ Len(conns') = N + 1
        /\ \A j \in 1 .. N : conns'[j] = conns[j] /\ conns[j].ts \in Nat
    BY <1>1, FastRecorded
  <2>3. fast.last = 0 => fast'.intervals = C!Fresh(fast.intervals, ts, BeaconWindow)
    BY FastRecorded
  <2>4. fast.last # 0 /\ fast.last < ts =>
          fast'.intervals = C!Fresh(Append(fast.intervals, <<ts, ts - fast.last>>),
                                    ts, BeaconWindow)
    BY FastRecorded
  <2>. QED BY <2>1, <2>2, <2>3, <2>4
<1>3. /\ BeaconWindow \in Int /\ R = BeaconWindow /\ R \in Nat
      /\ fast.intervals \in Queues /\ fast.last \in Nat
  BY ConnConstants DEF FastInv, FastTypes
<1>4. CASE N = 0
  <2>1. conns = <<>>
    BY <1>1, <1>4, ConnFacts, EmptySeq DEF ConnInv
  <2>2. fast.last = 0 /\ fast.intervals = <<>>
    BY <2>1 DEF FastInv
  <2>3. Len(fast.intervals) = 0
    BY <2>2
  <2>4. Len(fast'.intervals) = 0
    <3>1. \A k \in 1 .. Len(fast.intervals) : ~(fast.intervals[k][1] < ts - BeaconWindow)
      BY <2>3
    <3>. QED BY <1>2, <1>3, <2>2, <2>3, <3>1, AllFresh
  <2>. QED BY <1>2, <1>4, <2>4
<1>5. CASE N # 0
  <2>1. /\ conns # <<>> /\ N \in 1 .. N /\ 1 \in 1 .. N /\ \A j \in 1 .. N : j \in 1 .. N + 1
        /\ N + 1 \in 1 .. N + 1
    BY <1>1, <1>5
  <2>2. \A j, k \in 1 .. N + 1 : j < k => conns'[j].ts < conns'[k].ts
    BY <1>2 DEF Climbing
  <2>3. Climbing
    BY <1>1, <1>2, <2>1, <2>2 DEF Climbing
  <2>4. /\ fast.last = conns[N].ts /\ fast.last # 0 /\ fast.last < ts
        /\ fast.last <= conns[1].ts + R
    <3>1. fast.last = conns[N].ts /\ conns[N].ts >= 1
      BY <1>1, <2>1 DEF TrackInv
    <3>2. conns'[N].ts < conns'[N + 1].ts
      BY <2>1, <2>2
    <3>3. fast.last < ts /\ conns'[1].ts = conns[1].ts /\ conns[1].ts \in Nat
      BY <1>2, <2>1, <3>1, <3>2
    <3>. QED BY <1>3, <3>1, <3>3
  <2>5. PICK q \in Queues : q = fast.intervals
    BY <1>3
  <2>6. /\ Len(q) = N - 1
        /\ \A k \in 1 .. N - 1 : q[k] = <<conns[k + 1].ts, conns[k + 1].ts - conns[k].ts>>
    BY <1>1, <2>1, <2>3, <2>4, <2>5 DEF TrackInv, Gap
  <2>7. PICK y \in Nat : y = ts - fast.last
    BY <1>3, <2>4
  <2>8. PICK p : p = Append(q, <<ts, y>>)
    OBVIOUS
  <2>9. /\ p \in Queues /\ Len(p) = N /\ p[N] = <<ts, y>>
        /\ \A k \in 1 .. N - 1 : p[k] = q[k]
    BY <2>6, <2>8, AppendedQueue
  <2>10. ASSUME NEW k \in 1 .. N
         PROVE  p[k] = <<conns'[k + 1].ts, conns'[k + 1].ts - conns'[k].ts>>
    <3>1. CASE k = N
      BY <1>2, <2>1, <2>4, <2>7, <2>9, <3>1
    <3>2. CASE k # N
      <4>1. k \in 1 .. N - 1 /\ k \in 1 .. N /\ k + 1 \in 1 .. N
        BY <3>2
      <4>2. conns'[k] = conns[k] /\ conns'[k + 1] = conns[k + 1]
        BY <1>2, <4>1
      <4>. QED BY <2>6, <2>9, <4>1, <4>2
    <3>. QED BY <3>1, <3>2
  <2>11. ASSUME NEW k \in 1 .. N PROVE ~(p[k][1] < ts - BeaconWindow)
    <3>1. PICK i \in 1 .. N + 1 : i = k + 1
      OBVIOUS
    <3>2. conns'[1].ts < conns'[i].ts
      <4>1. 1 < i /\ 1 \in 1 .. N + 1
        BY <3>1
      <4>. QED BY <2>2, <4>1
    <3>3. conns'[1].ts \in Nat /\ conns'[i].ts \in Nat
      <4>1. \A j \in 1 .. N + 1 : j \in 1 .. N \/ j = N + 1
        OBVIOUS
      <4>2. \A j \in 1 .. N + 1 : conns'[j].ts \in Nat
        BY <1>2, <4>1
      <4>. QED BY <2>1, <4>2
    <3>4. p[k][1] = conns'[i].ts
      BY <2>10, <3>1
    <3>. QED BY <1>3, <3>2, <3>3, <3>4
  <2>12. PICK f : f = C!Fresh(p, ts, BeaconWindow)
    OBVIOUS
  <2>13. Len(f) = N /\ \A k \in 1 .. N : f[k] = p[k]
    BY <1>3, <2>9, <2>11, <2>12, AllFresh
  <2>14. fast'.intervals = f
    BY <1>2, <2>4, <2>5, <2>7, <2>8, <2>12
  <2>15. N + 1 - 1 = N
    OBVIOUS
  <2>16. \A k \in 1 .. N : fast'.intervals[k] = (Gap(k))'
    BY <2>10, <2>13, <2>14 DEF Gap
  <2>. QED BY <1>2, <2>13, <2>14, <2>15, <2>16
<1>. QED BY <1>4, <1>5

LEMMA TrackRecord ==
  ASSUME ConnInv, FastInv, TrackInv, NEW lag \in 0 .. Lag, NEW bytes \in Bytes,
         clock > lag, C!Record(clock - lag, bytes)
  PROVE  TrackInv'
<1>1. PICK ts \in Nat \ {0} : ts = clock - lag
  BY ConnConstants DEF ConnInv
<1>2. C!Record(ts, bytes) /\ clock <= ts + Lag
  BY <1>1, ConnConstants DEF ConnInv
<1>3. /\ Len(conns) \in Nat /\ Len(conns') = Len(conns) + 1 /\ fast'.last = ts
      /\ \A k \in 1 .. Len(conns) : conns'[k] = conns[k]
      /\ conns'[Len(conns) + 1].ts = ts
  <2>1. conns'[Len(conns) + 1].ts = ts
    <3>1. conns'[Len(conns) + 1] = [ts |-> ts, bytes |-> bytes]
      BY <1>2, FastRecorded
    <3>. QED BY <3>1
  <2>2. /\ Len(conns) \in Nat /\ Len(conns') = Len(conns) + 1 /\ fast'.last = ts
        /\ \A k \in 1 .. Len(conns) : conns'[k] = conns[k]
    BY <1>2, FastRecorded
  <2>. QED BY <2>1, <2>2
<1>4. \A k \in 1 .. Len(conns') : conns'[k].ts >= 1
  <2>1. \A k \in 1 .. Len(conns') : k \in 1 .. Len(conns) \/ k = Len(conns) + 1
    BY <1>3
  <2>2. \A k \in 1 .. Len(conns) : conns'[k].ts >= 1
    BY <1>3 DEF TrackInv
  <2>. QED BY <1>3, <2>1, <2>2
<1>5. fast'.last = conns'[Len(conns')].ts
  BY <1>3
<1>6. ASSUME Rising'
      PROVE  /\ Suffix(fast'.ddos, Floods', Len(conns'), fast'.last - DdosWindow)
             /\ Suffix(fast'.beacon, Floods', Len(conns'), fast'.last - BeaconWindow)
             /\ Suffix(fast'.exfil, Sent', Len(conns'), fast'.last - ExfilWindow)
             /\ Len(conns') <= Cap =>
                  \A k \in 1 .. Len(conns') :
                    k \in stored' \/ conns'[k].ts <= fast'.last - R + Lag
  <2>1. /\ Rising /\ fast.last \in Nat /\ fast.last <= ts
        /\ Suffix(fast'.ddos, Floods', Len(conns'), ts - DdosWindow)
        /\ Suffix(fast'.beacon, Floods', Len(conns'), ts - BeaconWindow)
        /\ Suffix(fast'.exfil, Sent', Len(conns'), ts - ExfilWindow)
    BY <1>2, <1>6, QueuesRecord
  <2>2. ASSUME Len(conns') <= Cap, NEW k \in 1 .. Len(conns')
        PROVE  k \in stored' \/ conns'[k].ts <= ts - R + Lag
    BY <1>2, <2>1, <2>2, StoredRecord
  <2>. QED BY <1>3, <2>1, <2>2
<1>7. ASSUME Climbing', fast'.last <= conns'[1].ts + R
      PROVE  /\ Len(fast'.intervals) = Len(conns') - 1
             /\ \A k \in 1 .. Len(conns') - 1 : fast'.intervals[k] = (Gap(k))'
  BY <1>2, <1>3, <1>7, GapsRecord
<1>. QED BY <1>4, <1>5, <1>6, <1>7 DEF TrackInv

LEMMA TrackStep == ConnInv /\ FastInv /\ TrackInv /\ [C!Next]_conn => TrackInv'
<1> SUFFICES ASSUME ConnInv, FastInv, TrackInv, [C!Next]_conn PROVE TrackInv'
  OBVIOUS
<1>1. ASSUME NEW lag \in 0 .. Lag, NEW bytes \in Bytes,
             clock > lag /\ C!Record(clock - lag, bytes)
      PROVE  TrackInv'
  BY <1>1, TrackRecord
<1>2. CASE conns' = conns /\ fast' = fast /\ (expiry' > clock' => expiry > clock /\ stored' = stored)
  <2>1. /\ Rising' <=> Rising
        /\ Climbing' <=> Climbing
        /\ Floods' = Floods /\ Sent' = Sent
        /\ \A k : (Gap(k))' = Gap(k)
    BY <1>2 DEF Rising, Climbing, Floods, Sent, Gap
  <2>. QED BY <1>2, <2>1 DEF TrackInv
<1>3. CASE C!Tick
  <2>1. /\ conns' = conns /\ fast' = fast /\ expiry' = expiry /\ clock' = clock + 1
        /\ stored' = IF clock' >= expiry THEN {} ELSE stored
    BY <1>3 DEF C!Tick
  <2>2. clock \in Nat /\ expiry \in Nat
    BY DEF ConnInv
  <2>3. expiry' > clock' => expiry > clock /\ stored' = stored
    BY <2>1, <2>2
  <2>. QED BY <1>2, <2>1, <2>3
<1>4. CASE UNCHANGED conn
  <2>1. conns' = conns /\ fast' = fast /\ expiry' = expiry /\ clock' = clock /\ stored' = stored
    BY <1>4 DEF conn
  <2>. QED BY <1>2, <2>1
<1>. QED BY <1>1, <1>3, <1>4 DEF C!Next

-----------------------------------------------------------------------------
(* Both trackers answer the same                                           *)

\* What holds from each member to the next holds between any two.
LEMMA FromNextToAll ==
  ASSUME NEW N \in Nat, NEW f, \A k \in 1 .. N : f[k] \in Nat
  PROVE  /\ (\A k \in 1 .. N - 1 : f[k] <= f[k + 1]) =>
              \A j, k \in 1 .. N : j < k => f[j] <= f[k]
         /\ (\A k \in 1 .. N - 1 : f[k] < f[k + 1]) =>
              \A j, k \in 1 .. N : j < k => f[j] < f[k]
<1> DEFINE U(n) == \A j \in 1 .. N : j < n => f[j] <= f[n]
           V(n) == \A j \in 1 .. N : j < n => f[j] < f[n]
<1>1. ASSUME \A k \in 1 .. N - 1 : f[k] <= f[k + 1]
      PROVE  \A j, k \in 1 .. N : j < k => f[j] <= f[k]
  <2> DEFINE S == {n \in Nat : n \in 1 .. N => U(n)}
  <2>1. 0 \in S
    OBVIOUS
  <2>2. ASSUME NEW n \in Nat, n \in S PROVE n + 1 \in S
    <3> SUFFICES ASSUME n + 1 \in 1 .. N, NEW j \in 1 .. N, j < n + 1
                 PROVE  f[j] <= f[n + 1]
      OBVIOUS
    <3>1. n \in 1 .. N - 1 /\ n \in 1 .. N /\ (j = n \/ j < n)
      OBVIOUS
    <3>2. PICK i \in 1 .. N : i = n + 1
      OBVIOUS
    <3>3. f[n] <= f[i] /\ f[j] <= f[n]
      BY <1>1, <2>2, <3>1, <3>2
    <3>4. f[j] \in Nat /\ f[n] \in Nat /\ f[i] \in Nat
      BY <3>1
    <3>. QED BY <3>2, <3>3, <3>4
  <2> HIDE DEF S
  <2>3. \A n \in Nat : n \in S
    BY <2>1, <2>2, Induction
  <2>. QED BY <2>3 DEF S
<1>2. ASSUME \A k \in 1 .. N - 1 : f[k] < f[k + 1]
      PROVE  \A j, k \in 1 .. N : j < k => f[j] < f[k]
  <2> DEFINE S == {n \in Nat : n \in 1 .. N => V(n)}
  <2>1. 0 \in S
    OBVIOUS
  <2>2. ASSUME NEW n \in Nat, n \in S PROVE n + 1 \in S
    <3> SUFFICES ASSUME n + 1 \in 1 .. N, NEW j \in 1 .. N, j < n + 1
                 PROVE  f[j] < f[n + 1]
      OBVIOUS
    <3>1. n \in 1 .. N - 1 /\ n \in 1 .. N /\ (j = n \/ j < n)
      OBVIOUS
    <3>2. PICK i \in 1 .. N : i = n + 1
      OBVIOUS
    <3>3. f[n] < f[i] /\ (j < n => f[j] < f[n])
      BY <1>2, <2>2, <3>1, <3>2
    <3>4. f[j] \in Nat /\ f[n] \in Nat /\ f[i] \in Nat
      BY <3>1
    <3>. QED BY <3>1, <3>2, <3>3, <3>4
  <2> HIDE DEF S
  <2>3. \A n \in Nat : n \in S
    BY <2>1, <2>2, Induction
  <2>. QED BY <2>3 DEF S
<1>. QED BY <1>1, <1>2

\* What the order of an evaluation means for the invariants
LEMMA OrderedFacts ==
  ASSUME ConnInv, FastInv, TrackInv, C!Ordered
  PROVE  /\ Len(conns) \in Nat \ {0} /\ DOMAIN conns = 1 .. Len(conns)
         /\ Rising /\ (C!Steady => Climbing)
         /\ fast.last \in Nat /\ fast.last = conns[Len(conns)].ts
         /\ \A k \in 1 .. Len(conns) :
              /\ conns[k].ts \in Nat /\ conns[k].bytes \in Nat /\ C!Ts(k) = conns[k].ts
              /\ conns[1].ts <= conns[k].ts /\ conns[k].ts <= fast.last
              /\ k \in stored \/ conns[k].ts <= fast.last - R + Lag
<1>1. PICK N \in Nat : N = Len(conns)
  BY ConnFacts
<1>2. /\ conns # <<>> /\ expiry > clock /\ N <= Cap
      /\ \A k \in 1 .. N - 1 : C!Ts(k) <= C!Ts(k + 1)
  BY <1>1 DEF C!Ordered
<1>3. N # 0 /\ DOMAIN conns = 1 .. N
  BY <1>1, <1>2, ConnFacts, EmptySeq DEF ConnInv
<1>4. \A k \in 1 .. N : conns[k].ts \in Nat /\ conns[k].bytes \in Nat
  <2>1. conns \in Seq([ts : Nat, bytes : Bytes])
    BY DEF ConnInv
  <2>2. \A k \in 1 .. N : conns[k] \in [ts : Nat, bytes : Bytes]
    BY <1>1, <2>1, ElementOfSeq
  <2>3. Bytes \subseteq Nat
    BY SignalsAssumption DEF C!ConnAssumption
  <2>. QED BY <2>2, <2>3
<1>5. PICK f : f = [k \in 1 .. N |-> conns[k].ts]
  OBVIOUS
<1>6. \A k \in 1 .. N : f[k] = conns[k].ts /\ f[k] = C!Ts(k) /\ f[k] \in Nat
  BY <1>4, <1>5 DEF C!Ts
<1>7. \A k \in 1 .. N - 1 : k \in 1 .. N /\ k + 1 \in 1 .. N
  OBVIOUS
<1>8. Rising
  <2>1. \A k \in 1 .. N - 1 : f[k] <= f[k + 1]
    BY <1>2, <1>6, <1>7
  <2>2. \A j, k \in 1 .. N : j < k => f[j] <= f[k]
    BY <1>6, <2>1, FromNextToAll
  <2>. QED BY <1>1, <1>6, <2>2 DEF Rising
<1>9. C!Steady => Climbing
  <2> SUFFICES ASSUME C!Steady PROVE Climbing
    OBVIOUS
  <2>1. \A k \in 1 .. N - 1 : C!Ts(k) < C!Ts(k + 1)
    BY <1>1 DEF C!Steady
  <2>2. \A k \in 1 .. N - 1 : f[k] < f[k + 1]
    BY <1>6, <1>7, <2>1
  <2>3. \A j, k \in 1 .. N : j < k => f[j] < f[k]
    BY <1>6, <2>2, FromNextToAll
  <2>. QED BY <1>1, <1>6, <2>3 DEF Climbing
<1>10. fast.last \in Nat /\ fast.last = conns[N].ts
  BY <1>1, <1>2 DEF FastInv, FastTypes, TrackInv
<1>11. ASSUME NEW k \in 1 .. N
       PROVE  /\ conns[1].ts <= conns[k].ts /\ conns[k].ts <= fast.last
              /\ k \in stored \/ conns[k].ts <= fast.last - R + Lag
  <2>1. 1 \in 1 .. N /\ N \in 1 .. N /\ (k = 1 \/ 1 < k) /\ (k = N \/ k < N)
    BY <1>3
  <2>2. conns[1].ts \in Nat /\ conns[k].ts \in Nat /\ conns[N].ts \in Nat
    BY <1>4, <2>1
  <2>3. conns[1].ts <= conns[k].ts
    BY <1>1, <1>8, <2>1, <2>2 DEF Rising
  <2>4. conns[k].ts <= fast.last
    BY <1>1, <1>8, <1>10, <2>1, <2>2 DEF Rising
  <2>5. k \in stored \/ conns[k].ts <= fast.last - R + Lag
    BY <1>1, <1>2, <1>8 DEF TrackInv
  <2>. QED BY <2>3, <2>4, <2>5
<1>. QED BY <1>1, <1>3, <1>4, <1>6, <1>8, <1>9, <1>10, <1>11

\* A window that is short of the retention holds what its queue holds.
LEMMA WindowFacts ==
  ASSUME ConnInv, FastInv, TrackInv, C!Ordered, NEW w \in Nat,
         NEW d \in 0 .. Len(conns),
         \A k \in 1 .. d : conns[k].ts < fast.last - w,
         \A k \in d + 1 .. Len(conns) :
           k \in stored /\ ~(conns[k].ts < fast.last - w)
  PROVE  C!In(stored, fast.last, w) = d + 1 .. Len(conns)
<1>1. PICK N \in Nat : N = Len(conns)
  BY ConnFacts
<1>2. /\ \A k \in 1 .. N : /\ conns[k].ts \in Nat /\ C!Ts(k) = conns[k].ts
                           /\ conns[k].ts <= fast.last
      /\ fast.last \in Nat
  BY <1>1, OrderedFacts
<1>3. stored \subseteq 1 .. N
  BY <1>1, ConnFacts DEF ConnInv
<1>4. ASSUME NEW k \in C!In(stored, fast.last, w) PROVE k \in d + 1 .. N
  <2>1. k \in 1 .. N /\ conns[k].ts \in fast.last - w .. fast.last
    BY <1>2, <1>3 DEF C!In
  <2>2. ~(conns[k].ts < fast.last - w)
    BY <1>2, <2>1
  <2>3. k \notin 1 .. d
    BY <2>2
  <2>. QED BY <1>1, <2>1, <2>3
<1>5. ASSUME NEW k \in d + 1 .. N PROVE k \in C!In(stored, fast.last, w)
  <2>1. k \in stored /\ ~(conns[k].ts < fast.last - w) /\ k \in 1 .. N
    BY <1>1
  <2>2. C!Ts(k) \in fast.last - w .. fast.last
    BY <1>2, <2>1
  <2>. QED BY <2>1, <2>2 DEF C!In
<1>. QED BY <1>1, <1>4, <1>5

\* Nothing that is in a window shorter than the retention is gone.
LEMMA ShortWindow ==
  ASSUME ConnInv, FastInv, TrackInv, C!Ordered, NEW w \in Nat, w + Lag < R,
         NEW d \in 0 .. Len(conns),
         \A k \in 1 .. d : conns[k].ts < fast.last - w,
         \A k \in d + 1 .. Len(conns) : ~(conns[k].ts < fast.last - w)
  PROVE  C!In(stored, fast.last, w) = d + 1 .. Len(conns)
<1>1. PICK N \in Nat : N = Len(conns)
  BY ConnFacts
<1>2. ASSUME NEW k \in d + 1 .. N
      PROVE  k \in stored /\ ~(conns[k].ts < fast.last - w)
  <2>1. k \in 1 .. N
    BY <1>1
  <2>2. ~(conns[k].ts < fast.last - w)
    BY <1>1
  <2>3. /\ conns[k].ts \in Nat /\ fast.last \in Nat
        /\ k \in stored \/ conns[k].ts <= fast.last - R + Lag
    BY <1>1, <2>1, OrderedFacts
  <2>4. R \in Nat /\ Lag \in Nat
    BY ConnConstants
  <2>5. PICK t \in Nat, last \in Nat : t = conns[k].ts /\ last = fast.last
    BY <2>3
  <2>6. ~(t < last - w)
    BY <2>2, <2>5
  <2>7. ~(t <= last - R + Lag)
    BY <2>4, <2>6
  <2>. QED BY <2>2, <2>3, <2>5, <2>7
<1>. QED BY <1>1, <1>2, WindowFacts

LEMMA FloodsAgree ==
  ASSUME ConnInv, FastInv, TrackInv, C!Ordered
  PROVE  C!FastFlood = C!Flood(fast.last)
<1>1. PICK N \in Nat : N = Len(conns)
  BY ConnFacts
<1>2. DdosWindow \in Nat /\ DdosWindow + Lag < R
  BY ConnConstants
<1>3. Suffix(fast.ddos, Floods, N, fast.last - DdosWindow)
  BY <1>1, OrderedFacts DEF TrackInv
<1>4. \A k \in 1 .. N : Floods[k][1] = conns[k].ts
  BY <1>1 DEF Floods
<1>5. PICK d \in 0 .. N : /\ C!In(stored, fast.last, DdosWindow) = d + 1 .. N
                          /\ Len(fast.ddos) = N - d
  <2>1. PICK d \in 0 .. N :
          /\ Len(fast.ddos) = N - d
          /\ \A k \in 1 .. N - d : fast.ddos[k] = Floods[k + d]
          /\ \A k \in 1 .. d : Floods[k][1] < fast.last - DdosWindow
          /\ \A k \in d + 1 .. N : ~(Floods[k][1] < fast.last - DdosWindow)
    BY <1>3 DEF Suffix
  <2>2. /\ \A k \in 1 .. d : conns[k].ts < fast.last - DdosWindow
        /\ \A k \in d + 1 .. N : ~(conns[k].ts < fast.last - DdosWindow)
    <3>1. /\ \A k \in 1 .. d : k \in 1 .. N
          /\ \A k \in d + 1 .. N : k \in 1 .. N
      OBVIOUS
    <3>. QED BY <1>4, <2>1, <3>1
  <2>3. C!In(stored, fast.last, DdosWindow) = d + 1 .. N
    BY <1>1, <1>2, <2>2, ShortWindow
  <2>. QED BY <2>1, <2>3
<1>6. Cardinality(d + 1 .. N) = N - d
  <2>1. d + 1 \in Int /\ N \in Int
    OBVIOUS
  <2>2. Cardinality(d + 1 .. N) = IF d + 1 > N THEN 0 ELSE N - (d + 1) + 1
    BY <2>1, FS_Interval
  <2>. QED BY <2>2
<1>7. C!Cardinality(C!In(stored, fast.last, DdosWindow)) = Len(fast.ddos)
  BY <1>5, <1>6, SameCardinality
<1>. QED BY Zenon, <1>7 DEF C!FastFlood, C!Flood

\* The bytes outside of the window count nothing, and those in it are those of
\* the queue, whose sum the fast tracker keeps.
LEMMA TransfersAgree ==
  ASSUME ConnInv, FastInv, TrackInv, C!Ordered
  PROVE  C!FastExfil = C!Exfil(fast.last)
<1>1. PICK N \in Nat : N = Len(conns)
  BY ConnFacts
<1>2. ExfilWindow \in Nat /\ ExfilWindow + Lag < R
  BY ConnConstants
<1>3. Suffix(fast.exfil, Sent, N, fast.last - ExfilWindow)
  BY <1>1, OrderedFacts DEF TrackInv
<1>4. \A k \in 1 .. N : Sent[k] = <<conns[k].ts, conns[k].bytes>>
  BY <1>1 DEF Sent
<1>5. \A k \in 1 .. N : Sent[k][1] = conns[k].ts
  BY <1>4
<1>6. PICK d \in 0 .. N : /\ C!In(stored, fast.last, ExfilWindow) = d + 1 .. N
                          /\ Len(fast.exfil) = N - d
                          /\ \A k \in 1 .. N - d : fast.exfil[k] = Sent[k + d]
  <2>1. PICK d \in 0 .. N :
          /\ Len(fast.exfil) = N - d
          /\ \A k \in 1 .. N - d : fast.exfil[k] = Sent[k + d]
          /\ \A k \in 1 .. d : Sent[k][1] < fast.last - ExfilWindow
          /\ \A k \in d + 1 .. N : ~(Sent[k][1] < fast.last - ExfilWindow)
    BY <1>3 DEF Suffix
  <2>2. /\ \A k \in 1 .. d : conns[k].ts < fast.last - ExfilWindow
        /\ \A k \in d + 1 .. N : ~(conns[k].ts < fast.last - ExfilWindow)
    <3>1. /\ \A k \in 1 .. d : k \in 1 .. N
          /\ \A k \in d + 1 .. N : k \in 1 .. N
      OBVIOUS
    <3>. QED BY <1>5, <2>1, <3>1
  <2>3. C!In(stored, fast.last, ExfilWindow) = d + 1 .. N
    BY <1>1, <1>2, <2>2, ShortWindow
  <2>. QED BY <2>1, <2>3
<1> DEFINE window == C!In(stored, fast.last, ExfilWindow)
<1>7. PICK counted :
        counted = [k \in DOMAIN conns |-> IF k \in window THEN conns[k].bytes ELSE 0]
  OBVIOUS
<1>8. PICK g : g = [n \in 1 .. Len(fast.exfil) |-> fast.exfil[n][2]]
  OBVIOUS
<1>9. \A k \in 1 .. N : counted[k] = IF k > d THEN conns[k].bytes ELSE 0
  <2>1. DOMAIN conns = 1 .. N
    BY <1>1, OrderedFacts
  <2>2. \A k \in 1 .. N : k \in d + 1 .. N <=> k > d
    OBVIOUS
  <2>. QED BY <1>6, <1>7, <2>1, <2>2
<1>10. \A k \in 1 .. N : counted[k] \in Nat
  BY <1>1, <1>9, OrderedFacts
<1>11. ASSUME NEW m \in 1 .. N - d PROVE g[m] = counted[m + d]
  <2>1. PICK i \in 1 .. N : i = m + d /\ i > d
    OBVIOUS
  <2>2. fast.exfil[m] = <<conns[i].ts, conns[i].bytes>>
    BY <1>4, <1>6, <2>1
  <2>3. g[m] = fast.exfil[m][2]
    BY <1>6, <1>8
  <2>. QED BY <1>9, <2>1, <2>2, <2>3
<1>12. C!Sum(counted, N) = C!Sum(counted, d) + C!Sum(g, N - d)
  <2>1. \A k \in 1 .. N : counted[k] \in Int
    BY <1>10
  <2>. QED BY <1>11, <2>1, SumSplit
<1>13. C!Sum(counted, d) = 0
  <2>1. d \in Nat /\ \A k \in 1 .. d : k \in 1 .. N /\ ~(k > d)
    OBVIOUS
  <2>2. \A k \in 1 .. d : counted[k] = 0
    BY <1>9, <2>1
  <2>. QED BY <2>1, <2>2, SumOfNumbers
<1>14. C!Sum(g, N - d) = fast.bytes /\ fast.bytes \in Nat
  BY <1>6, <1>8 DEF FastInv, FastTypes, C!Total
<1>15. C!Sum(counted, N) = fast.bytes
  BY <1>12, <1>13, <1>14
<1>16. C!Exfil(fast.last) = (C!Sum(counted, N) >= ExfilBytes)
  BY Zenon, <1>1, <1>7 DEF C!Exfil
<1>. QED BY <1>15, <1>16 DEF C!FastExfil

\* A list of n numbers up to n that climbs is 1, 2, ..., n.
LEMMA ClimbingIsIdentity ==
  ASSUME NEW N \in Nat, NEW o \in [1 .. N -> 1 .. N],
         \A m, n \in 1 .. N : m < n => o[m] < o[n], NEW k \in 1 .. N
  PROVE  o[k] = k
<1>1. \A n \in 1 .. N : o[n] \in 1 .. N
  OBVIOUS
<1> DEFINE U == {n \in Nat : n \in 1 .. N => o[n] >= n}
           V == {n \in Nat : n < N => o[N - n] <= N - n}
<1>2. 0 \in U
  OBVIOUS
<1>3. ASSUME NEW n \in Nat, n \in U PROVE n + 1 \in U
  <2> SUFFICES ASSUME n + 1 \in 1 .. N PROVE o[n + 1] >= n + 1
    OBVIOUS
  <2>1. PICK i \in 1 .. N : i = n + 1
    OBVIOUS
  <2>2. CASE n = 0
    BY <1>1, <2>1, <2>2
  <2>3. CASE n # 0
    <3>1. n \in 1 .. N /\ n < i
      BY <2>1, <2>3
    <3>2. o[n] < o[i] /\ o[n] >= n
      BY <1>3, <3>1
    <3>. QED BY <1>1, <2>1, <3>1, <3>2
  <2>. QED BY <2>2, <2>3
<1>4. 0 \in V
  <2>1. N > 0 => N \in 1 .. N /\ N - 0 = N
    OBVIOUS
  <2>. QED BY <1>1, <2>1
<1>5. ASSUME NEW n \in Nat, n \in V PROVE n + 1 \in V
  <2> SUFFICES ASSUME n + 1 < N PROVE o[N - (n + 1)] <= N - (n + 1)
    OBVIOUS
  <2>1. PICK i \in 1 .. N, j \in 1 .. N : i = N - (n + 1) /\ j = N - n /\ i < j
    <3>1. N - (n + 1) \in 1 .. N /\ N - n \in 1 .. N /\ N - (n + 1) < N - n
      OBVIOUS
    <3>. QED BY <3>1
  <2>2. o[j] <= j
    <3>1. n < N => o[N - n] <= N - n
      BY <1>5
    <3>2. n < N
      OBVIOUS
    <3>. QED BY <2>1, <3>1, <3>2
  <2>3. o[i] < o[j]
    BY <2>1
  <2>. QED BY <1>1, <2>1, <2>2, <2>3
<1> HIDE DEF U, V
<1>6. \A n \in Nat : n \in U /\ n \in V
  <2>1. \A n \in Nat : n \in U
    BY <1>2, <1>3, Induction
  <2>2. \A n \in Nat : n \in V
    BY <1>4, <1>5, Induction
  <2>. QED BY <2>1, <2>2
<1>7. o[k] >= k
  <2>1. k \in Nat
    OBVIOUS
  <2>. QED BY <1>6, <2>1 DEF U
<1>8. o[k] <= k
  <2>1. N - k \in Nat /\ N - k < N /\ N - (N - k) = k
    OBVIOUS
  <2>2. N - k \in V
    BY <1>6, <2>1
  <2>. QED BY <2>1, <2>2 DEF V
<1>. QED BY <1>1, <1>7, <1>8

\* When the stamps climb and none is at the start of the window, the window is
\* all there was, its order is that of the records, and the intervals of the
\* fast tracker are those of the other one.
LEMMA BeaconsAgree ==
  ASSUME ConnInv, FastInv, TrackInv, C!Ordered, C!Steady
  PROVE  C!FastBeacon = C!Beacon(fast.last)
<1>1. PICK N \in Nat \ {0} : N = Len(conns)
  BY OrderedFacts
<1>2. /\ Rising /\ Climbing /\ fast.last \in Nat
      /\ \A k \in 1 .. N :
           /\ conns[k].ts \in Nat /\ C!Ts(k) = conns[k].ts
           /\ conns[1].ts <= conns[k].ts /\ conns[k].ts <= fast.last
           /\ k \in stored \/ conns[k].ts <= fast.last - R + Lag
  BY <1>1, OrderedFacts
<1>3. BeaconWindow \in Nat /\ R = BeaconWindow /\ Lag \in Nat
  BY ConnConstants
<1>4. conns[1].ts + BeaconWindow > fast.last + Lag
  <2>1. 1 \in 1 .. N
    BY <1>1
  <2>2. C!Ts(1) = conns[1].ts
    BY <1>2, <2>1
  <2>. QED BY <2>2 DEF C!Steady
<1>5. ASSUME NEW k \in 1 .. N
      PROVE  k \in stored /\ ~(conns[k].ts < fast.last - BeaconWindow)
  <2>1. /\ conns[k].ts \in Nat /\ conns[1].ts \in Nat /\ conns[1].ts <= conns[k].ts
        /\ k \in stored \/ conns[k].ts <= fast.last - R + Lag
    <3>1. 1 \in 1 .. N
      BY <1>1
    <3>. QED BY <1>2, <3>1
  <2>. QED BY <1>2, <1>3, <1>4, <2>1
<1>6. C!In(stored, fast.last, BeaconWindow) = 1 .. N
  <2>1. PICK d \in 0 .. N : d = 0
    OBVIOUS
  <2>2. /\ \A k \in 1 .. d : conns[k].ts < fast.last - BeaconWindow
        /\ \A k \in d + 1 .. N : k \in stored /\ ~(conns[k].ts < fast.last - BeaconWindow)
    BY <1>5, <2>1
  <2>3. C!In(stored, fast.last, BeaconWindow) = d + 1 .. N
    BY <1>1, <1>3, <2>2, WindowFacts
  <2>. QED BY <2>1, <2>3
<1>7. C!Cardinality(1 .. N) = N
  <2>1. 1 \in Int /\ N \in Int
    OBVIOUS
  <2>2. Cardinality(1 .. N) = IF 1 > N THEN 0 ELSE N - 1 + 1
    BY <2>1, FS_Interval
  <2>3. Cardinality(1 .. N) = N
    BY <2>2
  <2>. QED BY <2>3, SameCardinality
<1>8. Len(fast.beacon) = N
  <2>1. Suffix(fast.beacon, Floods, N, fast.last - BeaconWindow)
    BY <1>1, <1>2 DEF TrackInv
  <2>2. PICK d \in 0 .. N :
          /\ Len(fast.beacon) = N - d
          /\ \A k \in 1 .. d : Floods[k][1] < fast.last - BeaconWindow
    BY <2>1 DEF Suffix
  <2>3. d = 0
    <3>1. d # 0 => 1 \in 1 .. d /\ 1 \in 1 .. N
      OBVIOUS
    <3>2. \A k \in 1 .. N : Floods[k][1] = conns[k].ts
      BY <1>1 DEF Floods
    <3>. QED BY <1>5, <2>2, <3>1, <3>2
  <2>. QED BY <2>2, <2>3
<1> DEFINE S == C!In(stored, fast.last, BeaconWindow)
           size == C!Cardinality(S)
           Sorted(o) == \A m, n \in 1 .. size :
             m < n => \/ C!Ts(o[m]) < C!Ts(o[n])
                      \/ C!Ts(o[m]) = C!Ts(o[n]) /\ o[m] < o[n]
           order == CHOOSE o \in [1 .. size -> S] : Sorted(o)
           ivs == [n \in 1 .. size - 1 |-> <<0, C!Ts(order[n + 1]) - C!Ts(order[n])>>]
<1>9. C!Beacon(fast.last) =
        (size >= BeaconObservations /\ C!Regular(Len(ivs), C!Total(ivs), C!Squares(ivs)))
  BY Zenon DEF C!Beacon
<1>10. S = 1 .. N /\ size = N
  BY <1>6, <1>7
<1> HIDE DEF S, size
<1>11. \A n \in 1 .. N : order[n] = n
  <2>1. [k \in 1 .. N |-> k] \in [1 .. N -> 1 .. N]
    OBVIOUS
  <2>2. Sorted([k \in 1 .. N |-> k])
    <3>1. \A m, n \in 1 .. N : m < n => C!Ts(m) < C!Ts(n)
      BY <1>1, <1>2 DEF Climbing
    <3>. QED BY <1>10, <3>1
  <2>3. order \in [1 .. N -> 1 .. N] /\ Sorted(order)
    <3>1. \E o \in [1 .. size -> S] : Sorted(o)
      BY <1>10, <2>1, <2>2
    <3> HIDE DEF Sorted
    <3>2. order \in [1 .. size -> S] /\ Sorted(order)
      BY <3>1
    <3> HIDE DEF order
    <3>. QED BY <1>10, <3>2
  <2>4. ASSUME NEW m \in 1 .. N, NEW n \in 1 .. N, m < n PROVE order[m] < order[n]
    <3> HIDE DEF order
    <3>1. PICK i \in 1 .. N, j \in 1 .. N : i = order[m] /\ j = order[n]
      BY <2>3
    <3>2. C!Ts(i) < C!Ts(j) \/ (C!Ts(i) = C!Ts(j) /\ i < j)
      BY <1>10, <2>3, <2>4, <3>1
    <3>3. conns[i].ts < conns[j].ts \/ i < j
      BY <1>2, <3>2
    <3>4. i >= j => conns[j].ts <= conns[i].ts
      <4>1. i >= j => i = j \/ j < i
        OBVIOUS
      <4>2. j < i => conns[j].ts < conns[i].ts
        BY <1>1, <1>2 DEF Climbing
      <4>. QED BY <1>2, <4>1, <4>2
    <3>5. conns[i].ts \in Nat /\ conns[j].ts \in Nat
      BY <1>2
    <3>. QED BY <3>1, <3>3, <3>4, <3>5
  <2>5. N \in Nat
    OBVIOUS
  <2>. QED BY <2>3, <2>4, <2>5, ClimbingIsIdentity
<1> HIDE DEF order
<1>12. ivs = [n \in 1 .. N - 1 |-> <<0, C!Ts(order[n + 1]) - C!Ts(order[n])>>]
  BY <1>10
<1> HIDE DEF ivs
<1>13. /\ Len(fast.intervals) = N - 1
       /\ \A k \in 1 .. N - 1 :
            fast.intervals[k] = <<conns[k + 1].ts, conns[k + 1].ts - conns[k].ts>>
  <2>1. conns # <<>> /\ fast.last <= conns[1].ts + R
    <3>1. 1 \in 1 .. N
      BY <1>1
    <3>2. conns[1].ts \in Nat
      BY <1>2, <3>1
    <3>3. conns # <<>>
      BY DEF C!Ordered
    <3>. QED BY <1>2, <1>3, <1>4, <3>2, <3>3
  <2>. QED BY <1>1, <1>2, <2>1 DEF TrackInv, Gap
<1>14. Len(ivs) = N - 1 /\ \A n \in 1 .. N - 1 : ivs[n][2] = fast.intervals[n][2]
  <2>1. N - 1 \in Nat /\ DOMAIN ivs = 1 .. N - 1
    BY <1>12
  <2>2. Len(ivs) = N - 1
    <3>1. ivs \in Seq(Nat \X Int)
      <4>1. ASSUME NEW n \in 1 .. N - 1
            PROVE  <<0, C!Ts(order[n + 1]) - C!Ts(order[n])>> \in Nat \X Int
        <5>1. n \in 1 .. N /\ n + 1 \in 1 .. N
          OBVIOUS
        <5>2. PICK i \in 1 .. N : i = n + 1
          BY <5>1
        <5>3. order[i] = i /\ order[n] = n
          BY <1>11, <5>1
        <5>4. C!Ts(i) \in Nat /\ C!Ts(n) \in Nat
          BY <1>2, <5>1
        <5>. QED BY <5>2, <5>3, <5>4
      <4>. QED BY <1>12, <2>1, <4>1, IsASeq
    <3>. QED BY <2>1, <3>1, LenProperties
  <2>3. ASSUME NEW n \in 1 .. N - 1 PROVE ivs[n][2] = fast.intervals[n][2]
    <3>1. n \in 1 .. N /\ n + 1 \in 1 .. N
      OBVIOUS
    <3>2. PICK i \in 1 .. N : i = n + 1
      BY <3>1
    <3>3. order[i] = i /\ order[n] = n
      BY <1>11, <3>1
    <3>4. ivs[n] = <<0, C!Ts(i) - C!Ts(n)>>
      BY <1>12, <3>2, <3>3
    <3>5. fast.intervals[n] = <<conns[i].ts, conns[i].ts - conns[n].ts>>
      BY <1>13, <3>2
    <3>6. C!Ts(i) = conns[i].ts /\ C!Ts(n) = conns[n].ts
      BY <1>2, <3>1
    <3>. QED BY <3>4, <3>5, <3>6
  <2>. QED BY <2>2, <2>3
<1>15. C!Total(ivs) = fast.sum /\ C!Squares(ivs) = fast.sumsq
  <2>1. /\ fast.sum = C!Total(fast.intervals) /\ fast.sumsq = C!Squares(fast.intervals)
    BY DEF FastInv
  <2>2. PICK q : q = fast.intervals
    OBVIOUS
  <2>3. Len(q) = N - 1 /\ Len(ivs) = N - 1 /\ \A n \in 1 .. N - 1 : ivs[n][2] = q[n][2]
    BY <1>13, <1>14, <2>2
  <2>4. /\ [n \in 1 .. Len(ivs) |-> ivs[n][2]] = [n \in 1 .. Len(q) |-> q[n][2]]
        /\ [n \in 1 .. Len(ivs) |-> ivs[n][2] * ivs[n][2]]
             = [n \in 1 .. Len(q) |-> q[n][2] * q[n][2]]
    BY <2>3
  <2>5. C!Total(ivs) = C!Total(q) /\ C!Squares(ivs) = C!Squares(q)
    BY <2>3, <2>4 DEF C!Total, C!Squares
  <2>. QED BY <2>1, <2>2, <2>5
<1>16. C!FastBeacon =
         (size >= BeaconObservations /\ C!Regular(Len(ivs), C!Total(ivs), C!Squares(ivs)))
  BY <1>8, <1>10, <1>13, <1>14, <1>15 DEF C!FastBeacon
<1>. QED BY <1>9, <1>16

LEMMA FastTrackerAgrees == ConnInv /\ FastInv /\ TrackInv => C!FastAgrees
<1> SUFFICES ASSUME ConnInv, FastInv, TrackInv, C!Ordered
             PROVE  /\ C!FastFlood = C!Flood(fast.last)
                    /\ C!FastExfil = C!Exfil(fast.last)
                    /\ C!Steady => (C!FastBeacon = C!Beacon(fast.last))
  BY DEF C!FastAgrees
<1>. QED BY FloodsAgree, TransfersAgree, BeaconsAgree

-----------------------------------------------------------------------------
(* A behaviour of the signals                                              *)

\* Whatever commands of other threads come between those of a call, whenever a
\* key expires and whichever misses race: Signals keeps what it promises.
THEOREM SignalsIsSound == Spec => SignalsSound
<1> DEFINE SignalsInv == DnsInv /\ ConnInv /\ LookupInv
<1>1. Init => SignalsInv
  BY DnsInit, ConnInit, LookupInit DEF Init
<1>2. SignalsInv /\ [Next]_<<part, dns, conn, lookup>> => SignalsInv'
  <2> SUFFICES ASSUME SignalsInv, [Next]_<<part, dns, conn, lookup>>
               PROVE  SignalsInv'
    OBVIOUS
  <2>1. [D!Next]_dns /\ [C!Next]_conn /\ [L!Next]_lookup
    BY DEF Next
  <2> QED BY <2>1, DnsStep, ConnStep, LookupStep
<1>3. SignalsInv =>
        /\ D!TypeOK /\ D!SetBounded /\ D!ForgottenUnlessFailed /\ D!RateSound
        /\ C!WindowsComplete
        /\ L!TypeOK /\ L!OnlyPublicLeaves /\ L!AnswersFresh
  BY DnsInvIsSound, ConnInvIsComplete, LookupInvIsSound
<1>4. SignalsInv /\ [Next]_<<part, dns, conn, lookup>> => [AnswersLost]_lookup
  <2> SUFFICES ASSUME SignalsInv, [Next]_<<part, dns, conn, lookup>>
               PROVE  [AnswersLost]_lookup
    OBVIOUS
  <2>1. [L!Next]_lookup
    BY DEF Next
  <2> QED BY <2>1, LookupStep
<1>5. Spec => []SignalsInv
  BY <1>1, <1>2, PTL DEF Spec
<1>6. Spec => [][AnswersLost]_lookup
  BY <1>4, <1>5, PTL DEF Spec
<1>7. [][AnswersLost]_lookup => L!OnlyRacesLoseAnswers
  <2>1. [AnswersLost]_lookup =>
          [\A m \in DOMAIN cache, n \in DOMAIN cache' :
             /\ cache[m].key = cache'[n].key
             /\ cache[m].value = "found" /\ cache'[n].value = "failed"
             /\ L!Fresh(cache[m])
             => cache'[n].by <= cache[m].at]_(L!vars)
    BY DEF AnswersLost, lookup, L!vars
  <2> QED BY <2>1, PTL DEF L!OnlyRacesLoseAnswers
<1> QED BY <1>3, <1>5, <1>6, <1>7, PTL DEF SignalsSound

\* The tracker of the evaluations, whose running sums are never recomputed,
\* finds the floods, the transfers and (while no interval has left the window)
\* the beacons that the tracker in Redis finds; and the set in Redis stays
\* within its cap.
THEOREM EvaluationsDoAgree == Spec => []EvaluationsAgree
<1> DEFINE TrackersInv == ConnInv /\ FastInv /\ TrackInv
<1>1. Init => TrackersInv
  BY ConnInit, FastInit, TrackInit DEF Init
<1>2. TrackersInv /\ [Next]_<<part, dns, conn, lookup>> => TrackersInv'
  <2> SUFFICES ASSUME TrackersInv, [Next]_<<part, dns, conn, lookup>>
               PROVE  TrackersInv'
    OBVIOUS
  <2>1. [C!Next]_conn
    BY DEF Next
  <2>. QED BY <2>1, ConnStep, FastStep, TrackStep
<1>3. TrackersInv => EvaluationsAgree
  BY FastInvIsTyped, FastTrackerAgrees DEF EvaluationsAgree
<1>. QED BY <1>1, <1>2, <1>3, PTL DEF Spec
=============================================================================
