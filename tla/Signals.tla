------------------------------ MODULE Signals -------------------------------
(***************************************************************************)
(* What the stream processor asks about an event besides its rules and     *)
(* models: the DNS tracker (D), the connection tracker (C), both over the  *)
(* Redis connection of the correlator, and the lookups at third parties    *)
(* (L).  None reads what another one wrote; so a behaviour is about one of *)
(* them, and their states are not multiplied.                              *)
(***************************************************************************)
EXTENDS Integers, Sequences, FiniteSets

CONSTANTS
  Threads, Names, MaxTracked, Window, MaxResponses,
  MaxRedisErrors,
  DdosWindow, BeaconWindow, ExfilWindow, DdosCount, ExfilBytes,
  BeaconObservations, BeaconInterval, Cap, Bytes, Lag, MaxConns,
  Coroutines, Public, Private, Special, Malformed, Queries, Proper, MaxCache, Ttl,
  MaxClock, None

VARIABLES
  part,      \* the tracker or lookup a behaviour is about
  domains, ttl, total, nx, thread, redisErrors,
  conns, stored, expiry, fast, clock,
  kind, cache, co, asked, time

D == INSTANCE DnsBehavior WITH Domains <- Names
C == INSTANCE ConnBehavior
L == INSTANCE LookupCache WITH clock <- time, MaxClock <- Ttl + 1

ASSUME SignalsAssumption ==
  D!DnsAssumption /\ C!ConnAssumption /\ L!LookupAssumption

dns == <<domains, ttl, total, nx, thread, redisErrors>>
conn == <<conns, stored, expiry, fast, clock>>
lookup == <<kind, cache, co, asked, time>>

Init ==
  /\ D!Init /\ C!Init /\ L!Init
  /\ part \in {"dns", "conn", "lookup"}

Next ==
  /\ \/ part = "dns" /\ D!Next /\ UNCHANGED <<conn, lookup>>
     \/ part = "conn" /\ C!Next /\ UNCHANGED <<dns, lookup>>
     \/ part = "lookup" /\ L!Next /\ UNCHANGED <<dns, conn>>
  /\ UNCHANGED part

Spec == Init /\ [][Next]_<<part, dns, conn, lookup>>

-----------------------------------------------------------------------------
\* The keys of the trackers, whatever commands come between those of a call:
\* the DNS set is bounded and forgotten in the end, a rate compares what
\* belongs together, and every window of connections is complete.  The caches:
\* no address of ours leaves, no answer is too old, and nothing but the race of
\* two misses costs an answer that is still good.
SignalsSound ==
  /\ [](D!TypeOK /\ D!SetBounded /\ D!ForgottenUnlessFailed /\ D!RateSound)
  /\ []C!WindowsComplete
  /\ [](L!TypeOK /\ L!OnlyPublicLeaves /\ L!AnswersFresh)
  /\ L!OnlyRacesLoseAnswers

\* The tracker of the evaluations finds what the one in Redis finds, by sums
\* that it keeps and never recomputes.
EvaluationsAgree == C!TypeOK /\ C!FastAgrees
=============================================================================
