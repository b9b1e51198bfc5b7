---------------------------- MODULE LookupCache -----------------------------
(***************************************************************************)
(* The two caches of what third parties were asked: ThreatEnricher         *)
(* (inference/enrichment.py) of addresses, DomainAgeLookup                 *)
(* (inference/domain_age.py) of domains.  Each is one OrderedDict, used    *)
(* by many coroutines that wait for the network between the miss and the   *)
(* write.  A behaviour is about one of the two.                            *)
(***************************************************************************)
EXTENDS Integers, Sequences, FiniteSets, SequencesExt

CONSTANTS
  Coroutines,
  Public, Private, Special, Malformed,   \* addresses by what ipaddress says:
                                         \* Special are neither of the first
  Queries,                      \* DNS names, as sequences of labels
  Proper,                       \* labels that _DOMAIN_LABEL_RE matches
  MaxCache,                     \* max_cache_size
  Ttl,                          \* cache_ttl_sec
  MaxClock,                     \* bound: time
  None

Addresses == Public \cup Private \cup Special \cup Malformed

\* An assumption; the module that instantiates this one makes it.
LookupAssumption ==
  /\ MaxCache \in Nat \ {0} /\ Ttl \in Nat \ {0} /\ MaxClock \in Nat
  /\ None \notin Addresses /\ \A q \in Queries : q \in Seq({q[n] : n \in DOMAIN q})
  /\ Cardinality(Addresses) =
       Cardinality(Public) + Cardinality(Private) + Cardinality(Special)
         + Cardinality(Malformed)

VARIABLES
  kind,    \* which of the two caches this is
  cache,   \* its entries, least recently used first
  co,      \* what each coroutine is doing
  asked,   \* keys a third party was asked about
  clock

vars == <<kind, cache, co, asked, clock>>

Idle == [pc |-> "idle", key |-> None, since |-> 0, answer |-> None, at |-> 0]

Init ==
  /\ kind \in {"intel", "age"}
  /\ cache = <<>>
  /\ co = [c \in Coroutines |-> Idle]
  /\ asked = {} /\ clock = 0

-----------------------------------------------------------------------------
(* The cache                                                               *)

\* Fault: keys are looked up in another form than they are stored in.
CachedNot(k) == FALSE

Cached(k) == \E n \in DOMAIN cache : cache[n].key = k
PlaceOf(k) == CHOOSE n \in DOMAIN cache : cache[n].key = k
EntryOf(k) == cache[PlaceOf(k)]
Without(k) == IF Cached(k) THEN RemoveAt(cache, PlaceOf(k)) ELSE cache

\* Fault: an entry does not expire.
FreshAlways(e) == TRUE

Fresh(e) == clock < e.exp

Hit(k) == Cached(k) /\ Fresh(EntryOf(k))

\* _get_cached: a hit moves to the end, an expired entry goes
Used(k) ==
  IF ~Cached(k) THEN cache ELSE
  IF Hit(k) THEN Append(Without(k), EntryOf(k)) ELSE Without(k)

\* Fault: the cache may outgrow its size by one.
TrimmedLate(s) == IF Len(s) > MaxCache + 1 THEN Tail(s) ELSE s

Trimmed(s) == IF Len(s) > MaxCache THEN Tail(s) ELSE s

\* _set_cached; `by' is when the lookup that writes it began
Stored(k, value, by) ==
  Trimmed(Append(Without(k),
                 [key |-> k, value |-> value, exp |-> clock + Ttl,
                  at |-> clock, by |-> by]))

-----------------------------------------------------------------------------
(* What is looked up                                                       *)

\* enrich: the source, or the destination if the source is private or no
\* address at all
Target(src, dst) ==
  IF src \in Public \cup Special \/ dst = None THEN src ELSE dst

\* Fault: any address is sent to the third party.
LookedUpAny(ip) == IF ip \in Malformed THEN None ELSE ip

\* _fetch_intel: only public addresses leave the network
LookedUp(ip) == IF ip \in Public THEN ip ELSE None

\* extract_registrable_domain: the last two labels
Registrable(q) ==
  IF Len(q) >= 2 /\ {q[Len(q) - 1], q[Len(q)]} \subseteq Proper
  THEN SubSeq(q, Len(q) - 1, Len(q)) ELSE None

Keys ==
  IF kind = "age" THEN {Registrable(q) : q \in Queries} ELSE
  {LookedUp(Target(s, d)) : s \in Addresses, d \in Addresses \cup {None}}

-----------------------------------------------------------------------------
(* One coroutine                                                           *)

Goto(c, pc, k) ==
  co' = [co EXCEPT ![c] = [pc |-> pc, key |-> k, since |-> clock,
                           answer |-> None, at |-> clock]]

\* No key, no answer
Refuse(c) ==
  /\ co[c].pc # "wait" /\ None \in Keys
  /\ Goto(c, "done", None)
  /\ UNCHANGED <<kind, cache, asked, clock>>

GetCached(c) ==
  /\ co[c].pc # "wait"
  /\ \E k \in Keys \ {None} :
       /\ cache' = Used(k)
       /\ IF Hit(k)
          THEN /\ co' = [co EXCEPT ![c] = [pc |-> "done", key |-> k,
                           since |-> clock, answer |-> EntryOf(k).value,
                           at |-> EntryOf(k).at]]
               /\ UNCHANGED asked
          ELSE /\ Goto(c, "wait", k)
               /\ asked' = asked \cup {k}
  /\ UNCHANGED <<kind, clock>>

\* The answer, or what stands for it when the request failed (the offline
\* heuristic, no age at all): cached alike
Fetched(c) ==
  /\ co[c].pc = "wait"
  /\ \E value \in {"found", "failed"} :
       /\ cache' = Stored(co[c].key, value, co[c].since)
       /\ co' = [co EXCEPT ![c].pc = "done", ![c].answer = value,
                           ![c].at = clock]
  /\ UNCHANGED <<kind, asked, clock>>

\* The caller's timeout cancels the lookup of an age, or the answer about an
\* address is refused for its size: nothing is cached
Dropped(c) ==
  /\ co[c].pc = "wait"
  /\ co' = [co EXCEPT ![c].pc = "done"]
  /\ UNCHANGED <<kind, cache, asked, clock>>

Tick == clock < MaxClock /\ clock' = clock + 1 /\ UNCHANGED <<kind, cache, co, asked>>

LookUp(c) == Refuse(c) \/ GetCached(c) \/ Fetched(c) \/ Dropped(c)

Next == Tick \/ \E c \in Coroutines : LookUp(c)

Spec == Init /\ [][Next]_vars

-----------------------------------------------------------------------------
(* Properties                                                              *)

TypeOK ==
  /\ \A n \in DOMAIN cache :
       cache[n].key \in Keys \ {None}
         /\ cache[n].value \in {"found", "failed"}
  /\ Cardinality({cache[n].key : n \in DOMAIN cache}) = Len(cache)
  /\ Len(cache) <= MaxCache
  /\ asked \subseteq Keys

\* No third party is asked about an address of the monitored network, or
\* one that is none of its business, whichever of the two addresses of an
\* alert was chosen.
OnlyPublicLeaves == kind = "intel" => asked \subseteq Public

\* An answer is never older than the ttl, whether the coroutine fetched it,
\* found it or was overtaken by another one.
AnswersFresh ==
  \A c \in Coroutines :
    co[c].pc = "done" /\ co[c].answer # None => co[c].since < co[c].at + Ttl

\* A failure only takes the place of an answer that is still good if its
\* lookup began before that answer was stored: the race of two misses, and
\* nothing else, costs the cache an answer.
OnlyRacesLoseAnswers ==
  [][\A m \in DOMAIN cache, n \in DOMAIN cache' :
       /\ cache[m].key = cache'[n].key
       /\ cache[m].value = "found" /\ cache'[n].value = "failed"
       /\ Fresh(cache[m])
       => cache'[n].by <= cache[m].at]_vars
=============================================================================
