------------------------------ MODULE Console -------------------------------
(***************************************************************************)
(* Those who read the API to show it: the poller of the terminal dashboard *)
(* (DataStreamManager of shared/data_access.py), which sees every tenant,  *)
(* and the sessions of the web dashboard (dashboard/session_data.py), in   *)
(* one process but each with the token of its user.  Of a tenant's alerts  *)
(* their number is kept; it grows.                                         *)
(***************************************************************************)
EXTENDS Naturals, FiniteSets

CONSTANTS
  Tenants,     \* a session's token is that of a tenant's user
  Sessions,
  None,
  MaxAlerts    \* bound: alerts of a tenant

VARIABLES
  api,       \* how the API answers at present
  stored,    \* stored[t]: alerts of t in the database
  poller,    \* what the polling thread does next
  shown,     \* what it has fetched: the alerts of every tenant, the statistics
  healthy,   \* broker_healthy
  round,     \* history: what the last round came to
  token,     \* token[s]: who is logged in
  cache,     \* st.cache_data of the process
  page       \* page[s]: what the session's page says

vars == <<api, stored, poller, shown, healthy, round, token, cache, page>>
manager == <<poller, shown, healthy, round>>
sessions == <<token, cache, page>>

\* A list; 200 with something else; 401, 422, 500; nobody there
Answers == {"ok", "odd", "refusing", "down"}
Reads == {"alerts", "stats"}
Nothing == [t \in Tenants |-> 0]
Blank == [healthy |-> FALSE, of |-> None, count |-> 0]

Init ==
  /\ api \in Answers
  /\ stored = Nothing
  /\ poller = "alerts"
  /\ shown = [alerts |-> Nothing, stats |-> Nothing]
  /\ healthy = FALSE
  /\ round = "none"
  /\ token = [s \in Sessions |-> None]
  /\ cache = [k \in Tenants \X Reads |-> None]
  /\ page = [s \in Sessions |-> Blank]

\* The API comes and goes, alerts come.
Environment ==
  /\ \/ api' \in Answers /\ UNCHANGED stored
     \/ \E t \in Tenants : /\ stored[t] < MaxAlerts
                           /\ stored' = [stored EXCEPT ![t] = @ + 1]
                           /\ UNCHANGED api
  /\ UNCHANGED <<manager, sessions>>

-----------------------------------------------------------------------------
(* DataStreamManager._poll_api                                             *)

\* Fault: only an exception is taken for ill health.
HealthIfRaised ==
  CASE api = "ok" -> TRUE [] api = "down" -> FALSE [] OTHER -> healthy

\* 200 with something that is no list changes nothing.
Health ==
  CASE api = "ok" -> TRUE [] api \in {"refusing", "down"} -> FALSE [] OTHER -> healthy

\* Fault: an error ends the thread.
AfterErrorNone == "ended"

\* Whatever went wrong, there is another round.
AfterError == "sleep"

FetchAlerts ==
  /\ poller = "alerts"
  /\ shown' = IF api = "ok" THEN [shown EXCEPT !.alerts = stored] ELSE shown
  /\ healthy' = Health
  /\ round' = api
  /\ poller' = IF api = "down" THEN AfterError ELSE "stats"
  /\ UNCHANGED <<api, stored, sessions>>

\* A refusal of /stats says nothing, an error does.
FetchStats ==
  /\ poller = "stats"
  /\ shown' = IF api = "ok" THEN [shown EXCEPT !.stats = stored] ELSE shown
  /\ healthy' = IF api = "down" THEN FALSE ELSE healthy
  /\ round' = IF api = "down" THEN "down" ELSE round
  /\ poller' = IF api = "down" THEN AfterError ELSE "sleep"
  /\ UNCHANGED <<api, stored, sessions>>

Sleep ==
  /\ poller = "sleep" /\ poller' = "alerts"
  /\ UNCHANGED <<api, stored, shown, healthy, round, sessions>>

Poll == FetchAlerts \/ FetchStats \/ Sleep

-----------------------------------------------------------------------------
(* Sessions                                                                *)

\* Another user of the same browser begins with an empty page.
Login(s, t) ==
  /\ token' = [token EXCEPT ![s] = t]
  /\ page' = [page EXCEPT ![s] = Blank]
  /\ UNCHANGED <<api, stored, manager, cache>>

\* Fault: what is cached is there for everybody.
KeyShared(s, r) == <<CHOOSE t \in Tenants : TRUE, r>>

\* The token is part of the key.
Key(s, r) == <<token[s], r>>

\* What a read answers, or None if it raises; errors are not cached.
Answer(s, r) ==
  IF cache[Key(s, r)] # None THEN cache[Key(s, r)]
  ELSE IF api = "ok" THEN [of |-> token[s], count |-> stored[token[s]]]
  ELSE None

\* status(): the statistics are read if the alerts were.
Render(s) ==
  /\ token[s] # None
  /\ LET alerts == Answer(s, "alerts")
         stats == IF alerts = None THEN None ELSE Answer(s, "stats")
     IN /\ cache' = [k \in DOMAIN cache |->
                       IF k = Key(s, "alerts") /\ alerts # None THEN alerts
                       ELSE IF k = Key(s, "stats") /\ stats # None THEN stats
                       ELSE cache[k]]
        /\ page' = [page EXCEPT ![s] =
                      IF stats = None THEN Blank
                      ELSE [healthy |-> TRUE, of |-> alerts.of,
                            count |-> alerts.count]]
  /\ UNCHANGED <<api, stored, manager, token>>

\* Three seconds are over.
Expire(k) ==
  /\ cache[k] # None
  /\ cache' = [cache EXCEPT ![k] = None]
  /\ UNCHANGED <<api, stored, manager, token, page>>

Browse ==
  \/ \E s \in Sessions : Render(s) \/ \E t \in Tenants \cup {None} : Login(s, t)
  \/ \E k \in DOMAIN cache : Expire(k)

Next == Environment \/ Poll \/ Browse

-----------------------------------------------------------------------------
TypeOK ==
  /\ api \in Answers /\ stored \in [Tenants -> 0 .. MaxAlerts]
  /\ poller \in {"alerts", "stats", "sleep", "ended"}
  /\ healthy \in BOOLEAN
  /\ token \in [Sessions -> Tenants \cup {None}]

\* A terminal that says the pipeline is healthy had a list in its last round
\* that told it anything: no refusal leaves it standing (data_access.py:245,
\* "a stale "healthy" reading").
HealthIsNews ==
  /\ round \in {"refusing", "down"} => ~healthy
  /\ round = "ok" => healthy

\* Sessions share a process and a cache, and still each page shows its own
\* tenant's data or none (session_data.py: "every employee's session must only
\* ever see their own tenant's data").
OwnTenantOnly ==
  \A s \in Sessions : page[s].of # None => page[s].of = token[s]

\* The poller recovers by itself: when the API stays up, the terminal gets to
\* show what there is.
TerminalRecovers ==
  <>[](api = "ok") => <>[](healthy /\ shown = [alerts |-> stored, stats |-> stored])
=============================================================================
