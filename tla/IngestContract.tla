--------------------------- MODULE IngestContract ---------------------------
(***************************************************************************)
(* What the ingest endpoint promises its callers: a request stores alerts  *)
(* of its own tenant only, all at once or not at all; what its answer does *)
(* not list as failed is stored; what is stored stays.  What it does list  *)
(* may be stored all the same: by somebody else, or because the batch      *)
(* named it twice.  A request without an answer may have stored anything   *)
(* it was asked to.                                                        *)
(***************************************************************************)
CONSTANTS Requests, AllKeys, None

VARIABLES
  stored,   \* keys (tenant, alert_id) with a row
  asked,    \* what each request asks to store, None before it arrives
  failed    \* the answer: what was not stored, None while there is none

Init == /\ stored \subseteq AllKeys
        /\ asked = [r \in Requests |-> None]
        /\ failed = [r \in Requests |-> None]

Ask(r) ==
  /\ asked[r] = None
  /\ \E K \in SUBSET AllKeys : asked' = [asked EXCEPT ![r] = K]
  /\ UNCHANGED <<stored, failed>>

Answer(r) ==
  /\ asked[r] # None /\ failed[r] = None
  /\ \E F, S \in SUBSET asked[r] :
       /\ asked[r] \ F \subseteq S
       /\ failed' = [failed EXCEPT ![r] = F]
       /\ stored' = stored \cup S
  /\ UNCHANGED asked

Lose(r) ==
  /\ asked[r] # None /\ failed[r] = None
  /\ \E S \in SUBSET asked[r] : stored' = stored \cup S
  /\ UNCHANGED <<asked, failed>>

Next == \E r \in Requests : Ask(r) \/ Answer(r) \/ Lose(r)

Spec == Init /\ [][Next]_<<stored, asked, failed>>
=============================================================================
