---------------------------- MODULE DnsBehavior -----------------------------
(***************************************************************************)
(* DnsBehaviorTracker (inference/dns_behavior.py) for one client: what it  *)
(* keeps in Redis, and the threads of the stream processor that record     *)
(* queries and responses and ask whether there is a burst.                 *)
(*                                                                         *)
(* Queries are recorded and statistics read by single commands, which      *)
(* other threads come between and each of which may raise; responses are   *)
(* recorded by one transaction.  Keys expire on their own.                 *)
(***************************************************************************)
EXTENDS Integers, FiniteSets

CONSTANTS
  Threads,
  Domains,
  MaxTracked,     \* MAX_TRACKED_DOMAINS
  Window,         \* window_seconds
  MaxResponses,   \* bound: responses a key counts
  MaxRedisErrors  \* bound: commands that raise

\* An assumption; the module that instantiates this one makes it.
DnsAssumption ==
  /\ MaxTracked \in Nat /\ Window \in Nat \ {0}
  /\ MaxResponses \in Nat /\ MaxRedisErrors \in Nat
  /\ IsFiniteSet(Threads)

VARIABLES
  domains,    \* the set dns_domains
  ttl,        \* ttl of each key, Forever if it has none, 0 without a key
  total, nx,  \* the counters dns_responses and dns_nxdomain
  thread,     \* what each thread is doing
  redisErrors

vars == <<domains, ttl, total, nx, thread, redisErrors>>

Keys == {"domains", "total", "nx"}
Forever == Window + 1
Free == [pc |-> "idle", total |-> 0, late |-> 0, rate |-> 0]

Init ==
  /\ domains = {} /\ total = 0 /\ nx = 0
  /\ ttl = [k \in Keys |-> 0]
  /\ thread = [t \in Threads |-> Free]
  /\ redisErrors = 0

At(t, pc) == thread[t].pc = pc
Ready(t) == thread[t].pc \in {"idle", "asked"}
Goto(t, pc) == thread' = [thread EXCEPT ![t].pc = pc]

-----------------------------------------------------------------------------
(* record_query                                                            *)

\* SADD: a new key has no ttl
Sadd(t) ==
  /\ Ready(t)
  /\ \E d \in Domains : domains' = domains \cup {d}
  /\ ttl' = IF domains = {} THEN [ttl EXCEPT !["domains"] = Forever] ELSE ttl
  /\ thread' = [thread EXCEPT ![t] = [Free EXCEPT !.pc = "expire"]]
  /\ UNCHANGED <<total, nx, redisErrors>>

\* Fault: the ttl is left to the command that made the key.
RefreshedNot(k) == ttl

\* EXPIRE: no effect without a key
Refreshed(k) == [ttl EXCEPT ![k] = IF @ = 0 THEN 0 ELSE Window]

Expire(t) ==
  /\ At(t, "expire")
  /\ ttl' = Refreshed("domains")
  /\ Goto(t, "card")
  /\ UNCHANGED <<domains, total, nx, redisErrors>>

\* Fault: the set may grow to twice its size.
TooManyTwice == Cardinality(domains) > 2 * MaxTracked

TooMany == Cardinality(domains) > MaxTracked

\* SCARD
Card(t) ==
  /\ At(t, "card")
  /\ Goto(t, IF TooMany THEN "pop" ELSE "idle")
  /\ UNCHANGED <<domains, ttl, total, nx, redisErrors>>

\* SPOP: any one; an empty set has no key
Pop(t) ==
  /\ At(t, "pop")
  /\ \/ domains = {} /\ UNCHANGED <<domains, ttl>>
     \/ \E d \in domains :
          /\ domains' = domains \ {d}
          /\ ttl' = IF domains = {d} THEN [ttl EXCEPT !["domains"] = 0] ELSE ttl
  /\ Goto(t, "idle")
  /\ UNCHANGED <<total, nx, redisErrors>>

-----------------------------------------------------------------------------
(* record_response and is_burst                                            *)

Counters == {"total", "nx"}

\* Fault: the ttl of the responses is not refreshed.
KeptFirst(K) ==
  [k \in Keys |-> IF k \in K /\ ttl[k] = 0 THEN Window ELSE ttl[k]]

Kept(K) == [k \in Keys |-> IF k \in K THEN Window ELSE ttl[k]]

More(n) == IF n < MaxResponses THEN n + 1 ELSE n

\* INCR and EXPIRE of one counter or of both, in one transaction
Respond(t) ==
  /\ Ready(t) /\ total < MaxResponses
  /\ \E isNx \in BOOLEAN :
       /\ total' = total + 1
       /\ nx' = IF isNx THEN nx + 1 ELSE nx
       /\ ttl' = Kept(IF isNx THEN Counters ELSE {"total"})
  /\ thread' = [u \in Threads |-> IF At(u, "nx")
                                  THEN [thread[u] EXCEPT !.late = More(@)]
                                  ELSE thread[u]]
  /\ UNCHANGED <<domains, redisErrors>>

\* get_stats reads the responses first ...
GetTotal(t) ==
  /\ Ready(t)
  /\ thread' = [thread EXCEPT ![t] = [Free EXCEPT !.pc = "nx", !.total = total]]
  /\ UNCHANGED <<domains, ttl, total, nx, redisErrors>>

\* ... then those that were NXDOMAIN, and is_burst compares the two
GetNx(t) ==
  /\ At(t, "nx")
  /\ thread' = [thread EXCEPT ![t].pc = "asked", ![t].rate = nx]
  /\ UNCHANGED <<domains, ttl, total, nx, redisErrors>>

\* A command raises: the rest of the call is skipped
Raise(t) ==
  /\ thread[t].pc \in {"expire", "card", "pop", "nx"}
  /\ redisErrors < MaxRedisErrors /\ redisErrors' = redisErrors + 1
  /\ thread' = [thread EXCEPT ![t] = Free]
  /\ UNCHANGED <<domains, ttl, total, nx>>

\* A second passes
Tick ==
  /\ ttl' = [k \in Keys |-> IF ttl[k] \in 1..Window THEN ttl[k] - 1 ELSE ttl[k]]
  /\ domains' = IF ttl'["domains"] = 0 THEN {} ELSE domains
  /\ total' = IF ttl'["total"] = 0 THEN 0 ELSE total
  /\ nx' = IF ttl'["nx"] = 0 THEN 0 ELSE nx
  /\ UNCHANGED <<thread, redisErrors>>

Track(t) ==
  \/ Sadd(t) \/ Expire(t) \/ Card(t) \/ Pop(t) \/ Respond(t)
  \/ GetTotal(t) \/ GetNx(t) \/ Raise(t)

Next == Tick \/ \E t \in Threads : Track(t)

Spec == Init /\ [][Next]_vars

-----------------------------------------------------------------------------
(* Properties                                                              *)

TypeOK ==
  /\ domains \subseteq Domains
  /\ ttl \in [Keys -> 0..Forever]
  /\ \A k \in Counters : ttl[k] # Forever
  /\ total \in 0..MaxResponses /\ nx \in Nat

\* However many threads add at the same time, the set is over its cap only
\* by those that have not removed theirs yet, and by one for each that
\* failed to.
SetBounded ==
  Cardinality(domains) <=
    MaxTracked + redisErrors
      + Cardinality({t \in Threads : thread[t].pc \in {"expire", "card", "pop"}})

\* A set that nobody adds to is forgotten in the end: it has no ttl only
\* while the thread that made it is about to give it one, or after that
\* failed.
ForgottenUnlessFailed ==
  ttl["domains"] = Forever =>
    redisErrors > 0 \/ \E t \in Threads : At(t, "expire")

\* Although the two counters expire apart and are read one after the other,
\* a reader that finds more NXDOMAIN answers than responses finds no more
\* than those that came between its two reads.
RateSound ==
  \A t \in Threads : At(t, "asked") =>
    thread[t].rate <= thread[t].total + thread[t].late
=============================================================================
