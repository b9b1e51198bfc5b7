----------------------------- MODULE Migrations ------------------------------
(***************************************************************************)
(* The database schema and how it changes: the six revisions under         *)
(* alembic/versions, and create_all, which the API calls when it starts    *)
(* and which adds tables but alters none.                                  *)
(*                                                                         *)
(* All steps of one alembic command are one transaction (env.py; DDL of    *)
(* Postgres is transactional).  Between commands both today's API ("new")  *)
(* and the one from before tenants existed ("old") may write.  A row       *)
(* remembers whose it is, whatever the table says of it.                   *)
(***************************************************************************)
EXTENDS Integers, FiniteSets

CONSTANTS
  Tenants,    \* tenants that sign up
  Aids        \* alert ids, which two tenants may share

VARIABLES
  db,         \* the schema and the rows of alerts
  revision,   \* the number of the last revision that was applied
  early       \* history: create_all made tables of revisions yet to come

vars == <<db, revision, early>>

Newest == 6
Null == "null"
Default == "default"       \* the tenant that revision 2 seeds
Nobody == "nobody"         \* of whom nothing is known

\* An assumption; the module that instantiates this one makes it.
TenantAssumption == Tenants \cap {Null, Default, Nobody} = {}

\* Tables by the revision that creates them; 4 and 6 change one
TablesOf(rev) ==
  CASE rev = 1 -> {"alerts"} [] rev = 2 -> {"tenants", "users"}
    [] rev = 3 -> {"incident_triage", "sensor_tokens"} [] rev = 5 -> {"audit_log"}
    [] OTHER -> {}
AllTables == UNION {TablesOf(rev) : rev \in 1 .. Newest}

Blank == [tables |-> {}, tenantId |-> FALSE, unique |-> "alert_id",
          mfa |-> FALSE, rows |-> {}]
Failed == [Blank EXCEPT !.unique = "failed"]

\* With the composite constraint comes NOT NULL.
Composite == "tenant_id, alert_id"

\* What create_all makes of a database: "old" knew one table.
Created(d, app) ==
  IF app = "old" THEN [d EXCEPT !.tables = @ \cup {"alerts"}]
  ELSE [d EXCEPT
          !.tables = AllTables,
          !.tenantId = IF "alerts" \in d.tables THEN @ ELSE TRUE,
          !.unique = IF "alerts" \in d.tables THEN @ ELSE Composite,
          !.mfa = IF "users" \in d.tables THEN @ ELSE TRUE]

\* A new database, or one that create_all made before revisions existed
Init ==
  /\ db \in {Blank, Created(Blank, "old")}
  /\ revision = 0
  /\ early = FALSE

-----------------------------------------------------------------------------
(* Revisions                                                               *)

\* Fault: every row is given to the default tenant.
AllToDefault(rows) == {[r EXCEPT !.tenant = Default] : r \in rows}

\* UPDATE alerts SET tenant_id = ... WHERE tenant_id IS NULL
Backfilled(rows) ==
  {[r EXCEPT !.tenant = IF @ = Null THEN Default ELSE @] : r \in rows}

CreateTables(d, rev) ==
  IF d.tables \cap TablesOf(rev) # {} THEN Failed
  ELSE [d EXCEPT !.tables = @ \cup TablesOf(rev)]

AddTenants(d) ==
  LET made == CreateTables(d, 2) IN
  IF made = Failed \/ d.tenantId THEN Failed
  ELSE [made EXCEPT !.tenantId = TRUE, !.rows = Backfilled(@)]

Unambiguous(rows, unique) ==
  \A r, s \in rows :
    (r.aid = s.aid /\ (unique = Composite => r.tenant = s.tenant)) => r = s

\* Fault: rows without a tenant are left to the first backfill.
TightenOnly(d) ==
  IF d.unique # "alert_id" \/ \E r \in d.rows : r.tenant = Null THEN Failed
  ELSE [d EXCEPT !.unique = Composite]

\* Fault: the column stays nullable.
ComposeOnly(d) ==
  IF d.unique # "alert_id" THEN Failed ELSE [d EXCEPT !.unique = Composite]

\* Rows are given a tenant first, or NOT NULL would not hold.
ComposeKey(d) ==
  IF d.unique # "alert_id" THEN Failed
  ELSE [d EXCEPT !.rows = Backfilled(@), !.unique = Composite]

AddMfa(d) == IF d.mfa THEN Failed ELSE [d EXCEPT !.mfa = TRUE]

\* upgrade() of a revision
Up(d, rev) ==
  IF d = Failed THEN Failed ELSE
  CASE rev = 2 -> AddTenants(d)
    [] rev = 4 -> ComposeKey(d)
    [] rev = 6 -> AddMfa(d)
    [] OTHER -> CreateTables(d, rev)

\* The column goes, and with it what was known of the rows; the tables cannot
\* while others refer to them.
DropTenants(d) ==
  IF d.tables \cap (TablesOf(3) \cup TablesOf(5)) # {} THEN Failed
  ELSE [d EXCEPT !.tables = @ \ TablesOf(2), !.tenantId = FALSE,
                 !.rows = {[r EXCEPT !.tenant = Null, !.owner = Nobody] : r \in @},
                 !.mfa = FALSE]

DropAlerts(d) ==
  [d EXCEPT !.tables = @ \ TablesOf(1), !.tenantId = FALSE,
            !.unique = "alert_id", !.rows = {}]

\* Fault: the old index is made to fit.
KeepOnePerId(d) ==
  [d EXCEPT !.unique = "alert_id",
            !.rows = {CHOOSE r \in d.rows : r.aid = a : a \in {r.aid : r \in d.rows}}]

\* The old index does not fit if two tenants use the same id.
SplitKey(d) ==
  IF ~Unambiguous(d.rows, "alert_id") THEN Failed
  ELSE [d EXCEPT !.unique = "alert_id"]

\* downgrade() of a revision
Down(d, rev) ==
  IF d = Failed THEN Failed ELSE
  CASE rev = 1 -> DropAlerts(d)
    [] rev = 2 -> DropTenants(d)
    [] rev = 4 -> SplitKey(d)
    [] rev = 6 -> [d EXCEPT !.mfa = FALSE]
    [] OTHER -> [d EXCEPT !.tables = @ \ TablesOf(rev)]

\* The steps of one command, in order
Upgraded(to) ==
  LET f[rev \in revision .. Newest] ==
        IF rev = revision THEN db ELSE Up(f[rev - 1], rev)
  IN f[to]
Downgraded(to) ==
  LET f[rev \in 0 .. revision] ==
        IF rev = revision THEN db ELSE Down(f[rev + 1], rev + 1)
  IN f[to]

\* A step that fails takes back the whole command.
Migrate(to) ==
  /\ to # revision
  /\ LET new == IF to > revision THEN Upgraded(to) ELSE Downgraded(to) IN
       /\ new # Failed
       /\ db' = new
  /\ revision' = to
  /\ UNCHANGED early

\* "alembic stamp 95bddea6b154", for a schema that create_all has made
Stamp ==
  /\ revision = 0 /\ "alerts" \in db.tables
  /\ revision' = 1
  /\ UNCHANGED <<db, early>>

-----------------------------------------------------------------------------
(* The API                                                                 *)

Start(app) ==
  /\ db' = Created(db, app)
  /\ early' = (early \/ (app = "new" /\ db' # db))
  /\ UNCHANGED revision

\* The row an application writes; "old" knows no tenants.
Row(app, t, a) ==
  IF app = "new" THEN [aid |-> a, tenant |-> t, owner |-> t]
  ELSE [aid |-> a, tenant |-> Null, owner |-> Nobody]

\* The database refuses a row without a column or against a constraint.
Insert(app, t, a) ==
  LET row == Row(app, t, a) IN
  /\ "alerts" \in db.tables
  /\ app = "new" => db.tenantId /\ "sensor_tokens" \in db.tables
  /\ app = "old" => db.unique # Composite
  /\ Unambiguous(db.rows \cup {row}, db.unique)
  /\ \A r \in db.rows : r.owner = row.owner => r.aid # a
  /\ db' = [db EXCEPT !.rows = @ \cup {row}]
  /\ UNCHANGED <<revision, early>>

Next ==
  \/ \E to \in 0 .. Newest : Migrate(to)
  \/ Stamp
  \/ \E app \in {"old", "new"} :
       Start(app) \/ \E t \in Tenants, a \in Aids : Insert(app, t, a)

-----------------------------------------------------------------------------
\* The schema and its rows have the form given above.
TypeOK ==
  /\ db.tables \subseteq AllTables /\ revision \in 0 .. Newest
  /\ db.unique \in {"alert_id", Composite}
  /\ \A r \in db.rows : r.aid \in Aids /\ r.tenant \in Tenants \cup {Null, Default}
  /\ db.unique = Composite => \A r \in db.rows : r.tenant # Null

\* However upgrades, downgrades and writers of two versions follow each other,
\* a row that came with a tenant still has it, and no other tenant has got it.
OwnerKept ==
  \A r \in db.rows :
    IF r.owner \in Tenants THEN r.tenant = r.owner ELSE r.tenant \in {Null, Default}

\* No command loses an alert, except a downgrade that drops the table.
NoAlertLost ==
  [][revision' # 0 =>
       \A r \in db.rows : \E s \in db'.rows :
         s.aid = r.aid /\ s.owner \in {r.owner, Nobody}]_vars

\* The way to the head is open from wherever upgrades and downgrades led, and
\* it leads to the schema the models describe; unless the new API was started
\* first and made tables of its own.
UpgradeLeadsToModels ==
  (~early /\ (revision = 0 => db.tables = {})) =>
    /\ Upgraded(Newest) # Failed
    /\ [Upgraded(Newest) EXCEPT !.rows = {}] = Created(Blank, "new")
=============================================================================
