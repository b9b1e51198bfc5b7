----------------------------- MODULE AlertsApi ------------------------------
(***************************************************************************)
(* The API as its callers meet it: ingestion and listing of alerts         *)
(* (IngestApi) and triage of incidents (Triage), each request being one or *)
(* the other.  They share the database and the process, and no table.      *)
(*                                                                         *)
(* Around it: the database schema (Migrations), which nobody changes while *)
(* requests are served, the readers that show what the API answers         *)
(* (Console), and the incidents they make of it (Incidents).  A behaviour  *)
(* is about one of these parts.                                            *)
(***************************************************************************)
EXTENDS IngestApi

CONSTANTS Incidents, Statuses, Users, Rows, Log, MaxFailures,
          Sessions, MaxAlerts, Listed, MaxListed

VARIABLES
  part,
  triage, audit, treq, failures, mixed,
  db, revision, early,
  api, stored, poller, shown, healthy, round, token, cache, page,
  list

triageVars == <<triage, audit, treq, failures, mixed>>
requests == <<vars, triageVars>>
schema == <<db, revision, early>>
console == <<api, stored, poller, shown, healthy, round, token, cache, page>>

T == INSTANCE Triage WITH rows <- triage, req <- treq
D == INSTANCE Migrations
C == INSTANCE Console
I == INSTANCE Incidents WITH Alerts <- Listed

ASSUME ApiAssumption == T!TriageAssumption /\ D!TenantAssumption
ASSUME ListAssumption == MaxAlerts \in Nat /\ MaxListed \in Nat

ApiInit ==
  /\ Init /\ T!Init /\ D!Init /\ C!Init /\ I!Init
  /\ part \in {"requests", "schema", "terminal", "web", "list"}
  /\ part # "schema" => db = D!Blank
  /\ part \notin {"terminal", "web"} => api = "ok"

Serve ==
  \/ /\ \/ \E t \in Tenants : CreateSensorToken(t) \/ StartReading(t)
        \/ Page
        \/ \E r \in Requests : T!At(r, "idle") /\ Handle(r)
     /\ UNCHANGED triageVars
  \/ /\ \E r \in Requests : At(r, "idle") /\ T!Handle(r)
     /\ UNCHANGED vars
  \/ /\ \A r \in Requests : \/ req[r].pc \in {"answered", "lost"}
                            \/ treq[r].pc \in {"answered", "raised"}
     /\ reader.pc = "done"
     /\ UNCHANGED requests

Terminal(step) == part = "terminal" /\ step /\ UNCHANGED <<part, requests, schema, list>>

ApiNext ==
  \/ part = "requests" /\ Serve /\ UNCHANGED <<part, schema, console, list>>
  \/ part = "schema" /\ D!Next /\ UNCHANGED <<part, requests, console, list>>
  \/ Terminal(C!Environment \/ C!Poll)
  \/ /\ part = "web" /\ (C!Environment \/ C!Browse)
     /\ UNCHANGED <<part, requests, schema, list>>
  \/ part = "list" /\ I!Next /\ UNCHANGED <<part, requests, schema, console>>

apiVars == <<part, requests, schema, console, list>>

\* The polling thread goes on as long as its process.
ApiSpec == ApiInit /\ [][ApiNext]_apiVars /\ WF_apiVars(Terminal(C!Poll))

-----------------------------------------------------------------------------
\* Overlapping requests: their variables are in order, and the status of an
\* incident was set by whom the row and the audit trail name.
RequestsSound == TypeOK /\ T!StatusIsAudited /\ T!ActorSetStatus

\* Upgrades, downgrades and writers of two versions: rows keep their owner, no
\* command loses one, and the way to the head stays open.
SchemaSound ==
  /\ [](/\ D!TypeOK /\ D!OwnerKept
        /\ part = "schema" => D!UpgradeLeadsToModels)
  /\ D!NoAlertLost

\* What is shown: no stale health, no other tenant's data, no alert hidden
\* behind its incident, and no incident that looks better than its alerts.
ConsolesSound ==
  /\ C!TypeOK /\ C!HealthIsNews /\ C!OwnTenantOnly
  /\ I!NoneUnshown
  /\ part = "list" => I!NeverLooksBetter

\* The terminal catches up by itself.
TerminalRecovers == part = "terminal" => C!TerminalRecovers
=============================================================================
