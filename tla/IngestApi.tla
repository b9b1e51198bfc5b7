----------------------------- MODULE IngestApi ------------------------------
(***************************************************************************)
(* The ingest endpoint (api/routes/ingest.py) over the alerts table, and   *)
(* the cursor-paginated listing of that table (api/routes/alerts.py).      *)
(*                                                                         *)
(* Several sinks send batches at the same time.  A request is a            *)
(* transaction: what it wrote is its own until it commits, and a row or a  *)
(* key that another transaction wrote makes it wait, as in Postgres at     *)
(* READ COMMITTED.  A batch is written in bulk or, if that raises, item by *)
(* item, each under a savepoint.  The content of an alert is left out; a   *)
(* row remembers the request that wrote it last.                           *)
(***************************************************************************)
EXTENDS Integers, Sequences, FiniteSets

CONSTANTS
  Requests,   \* calls of POST /ingest/alerts
  Tenants,
  Aids,       \* alert ids, which two tenants may share
  Refused,    \* alert ids whose row the database refuses
  Batches,    \* batches that callers send
  None,
  PageSize,   \* limit of a listing
  MaxDeaths   \* bound: requests whose process dies

ASSUME BatchAssumption == Batches \subseteq Seq(Aids) \ {<<>>}
ASSUME RefusedAssumption == Refused \subseteq Aids
ASSUME PageAssumption == PageSize \in Nat \ {0}
ASSUME NoneAssumption ==
  None \notin Requests \cup Tenants /\ \A K \in SUBSET (Tenants \X Aids) : K # None
ASSUME DeathAssumption == MaxDeaths \in Nat

VARIABLES
  alerts,    \* the committed rows, by id
  lastId,    \* the id handed out last; one that was rolled back is lost
  sensors,   \* tenants for which a sensor token was made
  req,       \* what each request is doing
  tx,        \* rows each open transaction inserted or changed, by id
  reader,    \* one traversal of a tenant's alerts
  deaths

vars == <<alerts, lastId, sensors, req, tx, reader, deaths>>
table == <<alerts, lastId>>

NoRows == [i \in {} |-> None]
Idle == [pc |-> "idle", tenant |-> None, batch |-> <<>>, found |-> {},
         at |-> 1, hit |-> FALSE, failed |-> {}]

Init ==
  /\ alerts = NoRows /\ lastId = 0
  /\ sensors = {}
  /\ req = [r \in Requests |-> Idle]
  /\ tx = [r \in Requests |-> NoRows]
  /\ reader = [pc |-> "idle", tenant |-> None, cursor |-> 0, seen |-> <<>>,
               due |-> {}]
  /\ deaths = 0

-----------------------------------------------------------------------------
(* The table                                                               *)

Key(row) == <<row.tenant, row.aid>>
Over(f, g) ==
  [i \in DOMAIN f \cup DOMAIN g |-> IF i \in DOMAIN g THEN g[i] ELSE f[i]]

\* The table as request r sees it
View(r) == Over(alerts, tx[r])

Keys(rows) == {Key(rows[i]) : i \in DOMAIN rows}

\* uq_alerts_tenant_alert_id
Unique(rows) ==
  \A i, j \in DOMAIN rows : Key(rows[i]) = Key(rows[j]) => i = j

\* Requests whose open transaction holds a row or a key of `rows`
Holders(r, rows) ==
  {q \in Requests \ {r} : \/ DOMAIN tx[q] \cap DOMAIN rows # {}
                          \/ Keys(tx[q]) \cap Keys(rows) # {}}

At(r, pc) == req[r].pc = pc
Item(r) == req[r].batch[req[r].at]
OwnKey(r, aid) == <<req[r].tenant, aid>>

-----------------------------------------------------------------------------
(* One request                                                             *)

CreateSensorToken(t) ==
  /\ t \notin sensors
  /\ sensors' = sensors \cup {t}
  /\ UNCHANGED <<table, req, tx, reader, deaths>>

\* Fault: the lookup is not limited to the sensor's tenant.
ExistingAnywhere(t, aids) ==
  {a \in aids : \E i \in DOMAIN alerts : alerts[i].aid = a}

Existing(t, aids) == {a \in aids : <<t, a>> \in Keys(alerts)}

\* The sensor is authenticated and its batch compared with the table
Select(r) ==
  /\ At(r, "idle")
  /\ \E t \in sensors, b \in Batches :
       req' = [req EXCEPT ![r] =
                 [Idle EXCEPT !.pc = "bulk", !.tenant = t, !.batch = b,
                    !.found = Existing(t, {b[k] : k \in DOMAIN b})]]
  /\ UNCHANGED <<table, sensors, tx, reader, deaths>>

\* bulk_upsert_alerts: rows for the ids that were not found, in the order of
\* the batch, and an update of EVERY row with one of the other ids, whoever
\* owns it
BulkRows(r) ==
  LET q == req[r]
      Row(a) == [tenant |-> q.tenant, aid |-> a, by |-> r]
      new == {lastId + k : k \in {n \in DOMAIN q.batch : q.batch[n] \notin q.found}}
      hit == {i \in DOMAIN alerts : alerts[i].aid \in q.found} IN
  [i \in hit \cup new |->
     IF i \in hit THEN Row(alerts[i].aid) ELSE Row(q.batch[i - lastId])]

Batch(r) == {req[r].batch[k] : k \in DOMAIN req[r].batch}

BulkHolds(r) ==
  LET rows == BulkRows(r) IN
  /\ Batch(r) \cap Refused = {}
  /\ Unique(Over(alerts, rows))

\* Executed and flushed
Bulk(r) ==
  /\ At(r, "bulk")
  /\ Holders(r, BulkRows(r)) = {}
  /\ BulkHolds(r)
  /\ tx' = [tx EXCEPT ![r] = BulkRows(r)]
  /\ lastId' = lastId + Len(req[r].batch)
  /\ req' = [req EXCEPT ![r].pc = "commit"]
  /\ UNCHANGED <<alerts, sensors, reader, deaths>>

\* The bulk statement raises: the constraint, a row that is refused, a
\* statement SQLAlchemy refuses to build (an update of many rows by other
\* columns than the primary key), a deadlock.  All of it is rolled back.
BulkRaises(r) ==
  /\ At(r, "bulk")
  /\ \/ ~BulkHolds(r)
     \/ req[r].found # {}
     \/ Holders(r, BulkRows(r)) # {}
  /\ req' = [req EXCEPT ![r].pc = "item"]
  /\ UNCHANGED <<table, sensors, tx, reader, deaths>>

\* One item: the row is looked for
Lookup(r) ==
  /\ At(r, "item")
  /\ req' = [req EXCEPT ![r].pc = "write",
                        ![r].hit = OwnKey(r, Item(r)) \in Keys(View(r))]
  /\ UNCHANGED <<table, sensors, tx, reader, deaths>>

\* ... and updated, or inserted
ItemRow(r) ==
  LET key == OwnKey(r, Item(r))
      row == [tenant |-> req[r].tenant, aid |-> Item(r), by |-> r] IN
  [i \in IF req[r].hit THEN {j \in DOMAIN View(r) : Key(View(r)[j]) = key}
         ELSE {lastId + 1} |-> row]

\* What comes after an item: the next one, or the commit
Advanced(r) ==
  IF req[r].at < Len(req[r].batch)
  THEN [req[r] EXCEPT !.pc = "item", !.at = @ + 1] ELSE
  [req[r] EXCEPT !.pc = "commit"]

Write(r) ==
  /\ At(r, "write")
  /\ Holders(r, ItemRow(r)) = {}
  /\ Item(r) \notin Refused
  /\ Unique(Over(View(r), ItemRow(r)))
  /\ tx' = [tx EXCEPT ![r] = Over(@, ItemRow(r))]
  /\ lastId' = IF req[r].hit THEN lastId ELSE lastId + 1
  /\ req' = [req EXCEPT ![r] = Advanced(r)]
  /\ UNCHANGED <<alerts, sensors, reader, deaths>>

\* Fault: the failed item is not listed.
FailedUnlisted(r) == req[r].failed

\* Fault: the answer names the row, not the alert.
FailedKey(r) == req[r].failed \cup {OwnKey(r, Item(r))}

Failed(r) == req[r].failed \cup {Item(r)}

\* The savepoint is rolled back and the item listed as failed
WriteRaises(r) ==
  /\ At(r, "write")
  /\ \/ Item(r) \in Refused
     \/ ~Unique(Over(View(r), ItemRow(r)))
     \/ \E q \in Holders(r, ItemRow(r)) :            \* deadlock
          At(q, "write") /\ r \in Holders(q, ItemRow(q))
  /\ req' = [req EXCEPT ![r] = [Advanced(r) EXCEPT !.failed = Failed(r)]]
  /\ UNCHANGED <<table, sensors, tx, reader, deaths>>

Committed(r) == View(r)

\* The answer may be lost on its way
Commit(r) ==
  /\ At(r, "commit")
  /\ alerts' = Committed(r)
  /\ tx' = [tx EXCEPT ![r] = NoRows]
  /\ \/ req' = [req EXCEPT ![r].pc = "answered"] /\ UNCHANGED deaths
     \/ /\ deaths < MaxDeaths /\ deaths' = deaths + 1
        /\ req' = [req EXCEPT ![r].pc = "lost"]
  /\ UNCHANGED <<lastId, sensors, reader>>

\* The process dies with its transaction
Die(r) ==
  /\ req[r].pc \in {"bulk", "item", "write", "commit"}
  /\ deaths < MaxDeaths /\ deaths' = deaths + 1
  /\ req' = [req EXCEPT ![r].pc = "lost"]
  /\ tx' = [tx EXCEPT ![r] = NoRows]
  /\ UNCHANGED <<table, sensors, reader>>

-----------------------------------------------------------------------------
(* A client that pages through the alerts of a tenant, newest first        *)

Own(t) == {i \in DOMAIN alerts : alerts[i].tenant = t}

StartReading(t) ==
  /\ reader.pc = "idle"
  /\ reader' = [reader EXCEPT !.pc = "reading", !.tenant = t, !.due = Own(t)]
  /\ UNCHANGED <<table, sensors, req, tx, deaths>>

\* Fault: the page goes on after the cursor, one row too late.
BelowLate(i, cursor) == cursor > 0 => i < cursor - 1

Below(i, cursor) == cursor > 0 => i < cursor

\* ORDER BY id DESC LIMIT
Newest(ids) ==
  {i \in ids : Cardinality({j \in ids : j > i}) < PageSize}

Descending(ids) ==
  [k \in 1..Cardinality(ids) |->
     CHOOSE i \in ids : Cardinality({j \in ids : j > i}) = k - 1]

Page ==
  /\ reader.pc = "reading"
  /\ LET page == Descending(Newest({i \in Own(reader.tenant) :
                                      Below(i, reader.cursor)})) IN
     reader' = IF page = <<>> THEN [reader EXCEPT !.pc = "done"] ELSE
               [reader EXCEPT !.seen = @ \o page, !.cursor = page[Len(page)]]
  /\ UNCHANGED <<table, sensors, req, tx, deaths>>

Handle(r) ==
  \/ Select(r) \/ Bulk(r) \/ BulkRaises(r) \/ Lookup(r) \/ Write(r)
  \/ WriteRaises(r) \/ Commit(r) \/ Die(r)

Next ==
  \/ \E t \in Tenants : CreateSensorToken(t) \/ StartReading(t)
  \/ \E r \in Requests : Handle(r)
  \/ Page

Spec == Init /\ [][Next]_vars

-----------------------------------------------------------------------------
(* Properties                                                              *)

TypeOK ==
  /\ lastId \in Nat /\ DOMAIN alerts \subseteq 1..lastId
  /\ \A i \in DOMAIN alerts :
       alerts[i] \in [tenant : Tenants, aid : Aids, by : Requests]
  /\ sensors \subseteq Tenants
  /\ \A r \in Requests :
       /\ req[r].pc \in {"idle", "bulk", "item", "write", "commit",
                         "answered", "lost"}
       /\ req[r].tenant \in Tenants \cup {None}
       /\ req[r].failed \subseteq Aids
  /\ deaths \in 0..MaxDeaths

\* The promise of IngestContract is kept: whatever the bulk statement does,
\* however the two forms of writing mix, and whoever dies.
Contract ==
  INSTANCE IngestContract WITH
    AllKeys <- Tenants \X Aids,
    stored <- Keys(alerts),
    asked  <- [r \in Requests |-> IF At(r, "idle") THEN None
                                  ELSE {OwnKey(r, a) : a \in Batch(r)}],
    failed <- [r \in Requests |-> IF ~At(r, "answered") THEN None
                                  ELSE {OwnKey(r, a) : a \in req[r].failed}]
KeepsContract == Contract!Spec

\* A row is written by requests of its own tenant only, from the day it was
\* inserted, although the bulk update of bulk_upsert_alerts finds its rows by
\* alert id alone.
OwnRowsOnly ==
  [][\A i \in DOMAIN alerts :
       /\ i \in DOMAIN alerts'
       /\ alerts'[i].tenant = alerts[i].tenant
       /\ alerts'[i] # alerts[i] => req[alerts'[i].by].tenant = alerts[i].tenant
    ]_alerts

\* A client that follows the cursor of GET /alerts to the end has seen every
\* alert that was there when it began, newest first and none twice, although
\* rows are inserted meanwhile and become visible out of the order of their
\* ids.
PagesComplete ==
  /\ \A k \in 1..Len(reader.seen) - 1 : reader.seen[k] > reader.seen[k + 1]
  /\ reader.pc = "done" =>
       reader.due \subseteq {reader.seen[k] : k \in DOMAIN reader.seen}
=============================================================================
