-------------------------- MODULE AlertsApiProofs ---------------------------
(***************************************************************************)
(* Theorems about IngestApi, for every number of requests, tenants and     *)
(* alert ids, every set of batches and every page size; and about          *)
(* AlertsApi: those of IngestApi in the presence of triage, that           *)
(* overlapping triage requests leave rows the audit trail accounts for,    *)
(* that what the consoles show is news, and its owner's, and that          *)
(* migrations keep the rows.                                               *)
(***************************************************************************)
EXTENDS AlertsApi, FiniteSetTheorems, SequenceTheorems, TLAPS

-----------------------------------------------------------------------------
(* The inductive invariant *)

TableRow == [tenant : Tenants, aid : Aids, by : Requests]
Fragment == UNION {[S -> TableRow] : S \in SUBSET Nat}

RequestState ==
  [pc : {"idle", "bulk", "item", "write", "commit", "answered", "lost"},
   tenant : Tenants \cup {None}, batch : Seq(Aids), found : SUBSET Aids,
   at : Nat, hit : BOOLEAN, failed : SUBSET Aids]

TablesTyped ==
  /\ lastId \in Nat /\ DOMAIN alerts \subseteq 1 .. lastId
  /\ alerts \in Fragment
  /\ req \in [Requests -> RequestState]
  /\ tx \in [Requests -> Fragment]
  /\ sensors \subseteq Tenants
  /\ deaths \in 0 .. MaxDeaths

\* The keys request r sees: those of the table and its own
Known(r) == Keys(alerts) \cup Keys(tx[r])

\* A transaction wrote rows of its own tenant and batch, and where it changed
\* a row of the table, that row had this key already.
OwnWrites(r) ==
  /\ DOMAIN tx[r] \subseteq 1 .. lastId
  /\ \A i \in DOMAIN tx[r] :
       /\ tx[r][i].tenant = req[r].tenant /\ tx[r][i].by = r
       /\ tx[r][i].aid \in Batch(r)
  /\ \A i \in DOMAIN tx[r] \cap DOMAIN alerts : Key(tx[r][i]) = Key(alerts[i])
  /\ req[r].pc \notin {"item", "write", "commit"} => DOMAIN tx[r] = {}

\* What was looked up is still there, and what was dealt with is known or
\* listed as failed.
DealtWith(r) ==
  /\ req[r].pc # "idle" => req[r].tenant \in Tenants /\ req[r].at \in DOMAIN req[r].batch
  /\ req[r].failed \subseteq Batch(r)
  /\ req[r].pc = "bulk" =>
       /\ req[r].at = 1
       /\ \A a \in req[r].found : a \in Batch(r) /\ OwnKey(r, a) \in Keys(alerts)
  /\ req[r].pc = "write" /\ req[r].hit => OwnKey(r, Item(r)) \in Known(r)
  /\ req[r].pc \in {"item", "write"} =>
       \A k \in 1 .. req[r].at - 1 :
         req[r].batch[k] \in req[r].failed \/ OwnKey(r, req[r].batch[k]) \in Known(r)
  /\ req[r].pc = "commit" =>
       \A a \in Batch(r) : a \in req[r].failed \/ OwnKey(r, a) \in Known(r)

\* No row is held by two open transactions.
Apart == \A r, q \in Requests : r # q => DOMAIN tx[r] \cap DOMAIN tx[q] = {}

IngestInv ==
  /\ TablesTyped /\ Apart
  /\ \A r \in Requests : OwnWrites(r) /\ DealtWith(r)

-----------------------------------------------------------------------------
(* Tables and keys *)

LEMMA OverFacts ==
  ASSUME NEW f, NEW g
  PROVE  /\ DOMAIN Over(f, g) = DOMAIN f \cup DOMAIN g
         /\ \A i \in DOMAIN g : Over(f, g)[i] = g[i]
         /\ \A i \in DOMAIN f \ DOMAIN g : Over(f, g)[i] = f[i]
BY DEF Over

LEMMA FragmentFacts ==
  /\ NoRows \in Fragment /\ DOMAIN NoRows = {} /\ Keys(NoRows) = {}
  /\ \A f \in Fragment :
       /\ DOMAIN f \subseteq Nat
       /\ \A i \in DOMAIN f : f[i] \in TableRow
       /\ Keys(f) \subseteq Tenants \X Aids
  /\ \A f, g \in Fragment : Over(f, g) \in Fragment
<1>1. NoRows \in Fragment /\ DOMAIN NoRows = {} /\ Keys(NoRows) = {}
  <2>1. NoRows \in [{} -> TableRow] /\ DOMAIN NoRows = {}
    BY DEF NoRows
  <2>. QED BY <2>1 DEF Fragment, Keys
<1>2. ASSUME NEW f \in Fragment
      PROVE  /\ DOMAIN f \subseteq Nat /\ f \in [DOMAIN f -> TableRow]
             /\ \A i \in DOMAIN f : f[i] \in TableRow
             /\ Keys(f) \subseteq Tenants \X Aids
  <2>1. DOMAIN f \subseteq Nat /\ f \in [DOMAIN f -> TableRow]
    BY DEF Fragment
  <2>. QED BY <2>1 DEF Keys, Key, TableRow
<1>3. ASSUME NEW f \in Fragment, NEW g \in Fragment
      PROVE  Over(f, g) \in Fragment
  <2>1. DOMAIN f \cup DOMAIN g \in SUBSET Nat
    BY <1>2
  <2>2. Over(f, g) \in [DOMAIN f \cup DOMAIN g -> TableRow]
    BY <1>2 DEF Over
  <2>. QED BY <2>1, <2>2 DEF Fragment
<1>. QED BY <1>1, <1>2, <1>3

\* A function from ids to rows is a fragment.
LEMMA IsFragment ==
  ASSUME NEW f, NEW S \in SUBSET Nat, f \in [S -> TableRow]
  PROVE  f \in Fragment
BY DEF Fragment

\* Rows that agree on their keys are laid over others without losing a key.
LEMMA KeysOver ==
  ASSUME NEW f, NEW g, \A i \in DOMAIN g \cap DOMAIN f : Key(g[i]) = Key(f[i])
  PROVE  Keys(Over(f, g)) = Keys(f) \cup Keys(g)
<1> DEFINE h == Over(f, g)
<1>1. /\ DOMAIN h = DOMAIN f \cup DOMAIN g
      /\ \A i \in DOMAIN g : h[i] = g[i]
      /\ \A i \in DOMAIN f \ DOMAIN g : h[i] = f[i]
  BY OverFacts
<1> HIDE DEF h
<1>2. \A i \in DOMAIN h : \/ i \in DOMAIN g /\ Key(h[i]) = Key(g[i])
                          \/ i \in DOMAIN f /\ Key(h[i]) = Key(f[i])
  BY <1>1
<1>3. \A i \in DOMAIN f : i \in DOMAIN h /\ Key(h[i]) = Key(f[i])
  BY <1>1
<1>4. \A i \in DOMAIN g : i \in DOMAIN h /\ Key(h[i]) = Key(g[i])
  BY <1>1
<1>5. Keys(h) = Keys(f) \cup Keys(g)
  BY <1>2, <1>3, <1>4 DEF Keys
<1>. QED BY <1>5 DEF h

LEMMA ViewKeys ==
  ASSUME NEW r \in Requests, OwnWrites(r)
  PROVE  Keys(View(r)) = Known(r)
BY KeysOver DEF OwnWrites, View, Known

LEMMA BatchFacts ==
  ASSUME TablesTyped, NEW r \in Requests
  PROVE  /\ req[r].batch \in Seq(Aids) /\ Batch(r) \subseteq Aids
         /\ \A k \in DOMAIN req[r].batch : req[r].batch[k] \in Batch(r)
         /\ \A a \in Batch(r) : \E k \in DOMAIN req[r].batch : a = req[r].batch[k]
         /\ req[r].at \in DOMAIN req[r].batch => Item(r) \in Batch(r)
BY DEF TablesTyped, RequestState, Batch, Item

-----------------------------------------------------------------------------
(* Steps of one request leave the others' invariants alone *)

\* Rows stay, with their keys.
TableGrows ==
  /\ lastId \in Nat /\ lastId' \in Nat /\ lastId <= lastId'
  /\ \A i \in DOMAIN alerts : i \in DOMAIN alerts' /\ Key(alerts'[i]) = Key(alerts[i])

\* Nothing of request q changes, and no row it holds appears in the table.
LeavesAlone(q) ==
  /\ req'[q] = req[q] /\ tx'[q] = tx[q]
  /\ DOMAIN alerts' \cap DOMAIN tx[q] \subseteq DOMAIN alerts

LEMMA KeysGrow ==
  ASSUME TableGrows
  PROVE  Keys(alerts) \subseteq Keys(alerts')
BY DEF TableGrows, Keys

LEMMA Frame ==
  ASSUME TableGrows, NEW q \in Requests, LeavesAlone(q), OwnWrites(q), DealtWith(q)
  PROVE  OwnWrites(q)' /\ DealtWith(q)'
<1>1. Batch(q)' = Batch(q) /\ Item(q)' = Item(q)
      /\ \A a : OwnKey(q, a)' = OwnKey(q, a)
  BY DEF Batch, Item, OwnKey, LeavesAlone
<1>2. Keys(alerts) \subseteq Keys(alerts') /\ Known(q) \subseteq Known(q)'
  BY KeysGrow DEF Known, LeavesAlone
<1>3. OwnWrites(q)'
  <2>1. DOMAIN tx'[q] \subseteq 1 .. lastId'
    <3>1. 1 .. lastId \subseteq 1 .. lastId'
      BY DEF TableGrows
    <3>. QED BY <3>1 DEF OwnWrites, LeavesAlone
  <2>2. \A i \in DOMAIN tx'[q] \cap DOMAIN alerts' : Key(tx'[q][i]) = Key(alerts'[i])
    BY DEF OwnWrites, LeavesAlone, TableGrows
  <2>. QED BY <1>1, <2>1, <2>2 DEF OwnWrites, LeavesAlone
<1>4. DealtWith(q)'
  BY <1>1, <1>2 DEF DealtWith, LeavesAlone
<1>. QED BY <1>3, <1>4

\* What is left to show of a step of r.
LEMMA OneRequest ==
  ASSUME IngestInv, NEW r \in Requests, TableGrows,
         \A q \in Requests \ {r} : LeavesAlone(q),
         TablesTyped', OwnWrites(r)', DealtWith(r)',
         \A q \in Requests \ {r} : DOMAIN tx'[r] \cap DOMAIN tx[q] = {}
  PROVE  IngestInv'
<1>1. \A q \in Requests \ {r} : OwnWrites(q)' /\ DealtWith(q)'
  BY Frame DEF IngestInv
<1>2. Apart'
  BY DEF IngestInv, Apart, LeavesAlone
<1>. QED BY <1>1, <1>2 DEF IngestInv

\* A step that concerns the state of r alone.
LEMMA OnlyState ==
  ASSUME IngestInv, NEW r \in Requests, NEW new \in RequestState,
         req' = [req EXCEPT ![r] = new],
         UNCHANGED <<table, sensors, tx, deaths>>,
         OwnWrites(r)', DealtWith(r)'
  PROVE  IngestInv'
<1>1. TableGrows
  BY DEF TableGrows, table, IngestInv, TablesTyped
<1>2. \A q \in Requests \ {r} : LeavesAlone(q)
  BY DEF LeavesAlone, table, IngestInv, TablesTyped
<1>3. TablesTyped'
  BY DEF IngestInv, TablesTyped, table
<1>4. \A q \in Requests \ {r} : DOMAIN tx'[r] \cap DOMAIN tx[q] = {}
  BY DEF IngestInv, Apart
<1>. QED BY <1>1, <1>2, <1>3, <1>4, OneRequest

\* What a request holds is its own also after a step that leaves the tables,
\* its tenant and its batch as they are.
LEMMA StillOwn ==
  ASSUME IngestInv, NEW r \in Requests, NEW new \in RequestState,
         req' = [req EXCEPT ![r] = new],
         new.tenant = req[r].tenant, new.batch = req[r].batch,
         new.pc \in {"item", "write", "commit"} \/ DOMAIN tx[r] = {},
         UNCHANGED <<table, tx>>
  PROVE  /\ OwnWrites(r)' /\ req'[r] = new /\ Batch(r)' = Batch(r)
         /\ \A a : OwnKey(r, a)' = OwnKey(r, a)
         /\ Known(r)' = Known(r) /\ Keys(alerts)' = Keys(alerts)
<1>1. req'[r] = new
  BY DEF IngestInv, TablesTyped
<1>2. Batch(r)' = Batch(r) /\ \A a : OwnKey(r, a)' = OwnKey(r, a)
  BY <1>1 DEF Batch, OwnKey
<1>3. Known(r)' = Known(r) /\ Keys(alerts)' = Keys(alerts)
  BY DEF Known, table, Keys
<1>4. OwnWrites(r)'
  BY <1>1, <1>2 DEF IngestInv, OwnWrites, table
<1>. QED BY <1>1, <1>2, <1>3, <1>4

-----------------------------------------------------------------------------
(* The steps of a request *)

LEMMA SelectStep ==
  ASSUME IngestInv, NEW r \in Requests, Select(r)
  PROVE  IngestInv'
<1>1. PICK t \in sensors, b \in Batches :
        req' = [req EXCEPT ![r] =
                 [Idle EXCEPT !.pc = "bulk", !.tenant = t, !.batch = b,
                    !.found = Existing(t, {b[k] : k \in DOMAIN b})]]
  BY DEF Select
<1> DEFINE found == Existing(t, {b[k] : k \in DOMAIN b})
           new == [Idle EXCEPT !.pc = "bulk", !.tenant = t, !.batch = b, !.found = found]
<1>2. b \in Seq(Aids) /\ b # <<>> /\ t \in Tenants
  BY BatchAssumption DEF IngestInv, TablesTyped
<1>3. \A a \in found : /\ a \in Aids /\ <<t, a>> \in Keys(alerts)
                       /\ \E k \in DOMAIN b : a = b[k]
  BY <1>2 DEF Existing
<1> HIDE DEF found
<1>4. /\ new.pc = "bulk" /\ new.tenant = t /\ new.batch = b /\ new.found = found
      /\ new.at = 1 /\ new.failed = {} /\ new \in RequestState
  BY <1>2, <1>3 DEF Idle, RequestState
<1>5. req' = [req EXCEPT ![r] = new] /\ req'[r] = new /\ req[r].pc = "idle"
  BY <1>1 DEF found, Select, At, IngestInv, TablesTyped
<1> HIDE DEF new
<1>6. UNCHANGED <<table, sensors, tx, deaths>>
  BY DEF Select
<1>7. OwnWrites(r)'
  <2>1. DOMAIN tx'[r] = {}
    BY <1>5, <1>6 DEF IngestInv, OwnWrites
  <2>. QED BY <2>1, <1>5 DEF OwnWrites
<1>8. DealtWith(r)'
  <2>1. Batch(r)' = {b[k] : k \in DOMAIN b} /\ \A a : OwnKey(r, a)' = <<t, a>>
    <3>1. req'[r].batch = b /\ req'[r].tenant = t
      BY <1>4, <1>5
    <3>. QED BY <3>1 DEF Batch, OwnKey
  <2>2. 1 \in DOMAIN b
    BY <1>2
  <2>3. Keys(alerts)' = Keys(alerts)
    BY <1>6 DEF table, Keys
  <2>4. \A a \in new.found : a \in Batch(r)' /\ OwnKey(r, a)' \in Keys(alerts)'
    <3>1. \A a \in found : <<t, a>> \in Keys(alerts)' /\ a \in {b[k] : k \in DOMAIN b}
      BY <1>3, <2>3
    <3>. QED BY <1>4, <2>1, <3>1, Zenon
  <2>5. /\ req'[r].pc = "bulk" /\ req'[r].at = 1 /\ 1 \in DOMAIN req'[r].batch
        /\ req'[r].tenant \in Tenants /\ req'[r].failed = {}
        /\ req'[r].found = new.found
    BY <1>2, <1>4, <1>5, <2>2
  <2>. QED BY <2>4, <2>5 DEF DealtWith
<1>. QED BY <1>4, <1>5, <1>6, <1>7, <1>8, OnlyState

LEMMA BulkRaisesStep ==
  ASSUME IngestInv, NEW r \in Requests, BulkRaises(r)
  PROVE  IngestInv'
<1> DEFINE new == [req[r] EXCEPT !.pc = "item"]
<1>1. /\ req[r] \in RequestState /\ new \in RequestState
      /\ req' = [req EXCEPT ![r] = new] /\ req[r].pc = "bulk"
      /\ UNCHANGED <<table, sensors, tx, deaths>>
  BY DEF BulkRaises, At, IngestInv, TablesTyped, RequestState
<1>2. /\ new.pc = "item" /\ new.tenant = req[r].tenant /\ new.batch = req[r].batch
      /\ new.at = req[r].at /\ new.failed = req[r].failed
  BY <1>1 DEF RequestState
<1> HIDE DEF new
<1>3. /\ OwnWrites(r)' /\ req'[r] = new /\ Batch(r)' = Batch(r)
      /\ \A a : OwnKey(r, a)' = OwnKey(r, a)
  BY <1>1, <1>2, StillOwn
<1>4. req[r].at = 1 /\ req[r].tenant \in Tenants /\ 1 \in DOMAIN req[r].batch
      /\ req[r].failed \subseteq Batch(r)
  BY <1>1 DEF IngestInv, DealtWith
<1>5. DealtWith(r)'
  BY <1>2, <1>3, <1>4 DEF DealtWith
<1>. QED BY <1>1, <1>3, <1>5, OnlyState

LEMMA LookupStep ==
  ASSUME IngestInv, NEW r \in Requests, Lookup(r)
  PROVE  IngestInv'
<1> DEFINE hit == OwnKey(r, Item(r)) \in Keys(View(r))
           new == [req[r] EXCEPT !.pc = "write", !.hit = hit]
<1>0. hit \in BOOLEAN
  OBVIOUS
<1>1. /\ req[r] \in RequestState /\ new \in RequestState
      /\ req' = [req EXCEPT ![r] = new] /\ req[r].pc = "item"
      /\ UNCHANGED <<table, sensors, tx, deaths>>
  <2>1. /\ req' = [req EXCEPT ![r].pc = "write", ![r].hit = hit]
        /\ req[r].pc = "item" /\ UNCHANGED <<table, sensors, tx, deaths>>
    BY DEF Lookup, At
  <2>2. req \in [Requests -> RequestState]
    BY DEF IngestInv, TablesTyped
  <2> HIDE DEF hit
  <2>. QED BY <1>0, <2>1, <2>2 DEF RequestState
<1>2. /\ new.pc = "write" /\ new.tenant = req[r].tenant /\ new.batch = req[r].batch
      /\ new.at = req[r].at /\ new.failed = req[r].failed /\ new.hit = hit
  <2> HIDE DEF hit
  <2>. QED BY <1>1 DEF RequestState
<1>3. hit => OwnKey(r, Item(r)) \in Known(r)
  BY ViewKeys DEF IngestInv
<1> HIDE DEF new, hit
<1>4. /\ OwnWrites(r)' /\ req'[r] = new /\ Batch(r)' = Batch(r)
      /\ \A a : OwnKey(r, a)' = OwnKey(r, a)
      /\ Known(r)' = Known(r)
  BY <1>1, <1>2, StillOwn
<1>5. Item(r)' = Item(r)
  BY <1>2, <1>4 DEF Item
<1>6. DealtWith(r)'
  BY <1>1, <1>2, <1>3, <1>4, <1>5 DEF DealtWith, IngestInv
<1>. QED BY <1>1, <1>4, <1>6, OnlyState

\* A request that has dealt with its item goes on to the next or to the commit.
LEMMA Advance ==
  ASSUME IngestInv, NEW r \in Requests, req[r].pc = "write"
  PROVE  /\ Advanced(r) \in RequestState
         /\ Advanced(r).tenant = req[r].tenant /\ Advanced(r).batch = req[r].batch
         /\ Advanced(r).failed = req[r].failed
         /\ \/ /\ Advanced(r).pc = "item" /\ Advanced(r).at = req[r].at + 1
               /\ req[r].at + 1 \in DOMAIN req[r].batch
            \/ /\ Advanced(r).pc = "commit" /\ Advanced(r).at = req[r].at
               /\ req[r].at = Len(req[r].batch)
<1>1. req[r] \in RequestState /\ req[r].at \in DOMAIN req[r].batch
  BY DEF IngestInv, TablesTyped, DealtWith
<1>2. Len(req[r].batch) \in Nat /\ DOMAIN req[r].batch = 1 .. Len(req[r].batch)
  BY <1>1 DEF RequestState
<1>3. CASE req[r].at < Len(req[r].batch)
  <2>1. Advanced(r) = [req[r] EXCEPT !.pc = "item", !.at = @ + 1]
    BY <1>3 DEF Advanced
  <2>2. req[r].at \in Nat /\ req[r].at + 1 \in 1 .. Len(req[r].batch)
    BY <1>1, <1>2, <1>3 DEF RequestState
  <2>3. req[r].at + 1 \in DOMAIN req[r].batch /\ req[r].at + 1 \in Nat
    BY <1>2, <2>2
  <2>. QED BY <1>1, <2>1, <2>3 DEF RequestState
<1>4. CASE ~(req[r].at < Len(req[r].batch))
  <2>1. Advanced(r) = [req[r] EXCEPT !.pc = "commit"]
    BY <1>4 DEF Advanced
  <2>. QED BY <1>1, <1>2, <1>4, <2>1 DEF RequestState
<1>. QED BY <1>3, <1>4

\* The item is dealt with if it is listed as failed, or known.
LEMMA DealtWithItem ==
  ASSUME IngestInv, NEW r \in Requests, req[r].pc = "write",
         NEW new, new.pc = Advanced(r).pc, new.at = Advanced(r).at,
         new.batch = req[r].batch, new.tenant = req[r].tenant,
         req'[r] = new, Known(r) \subseteq Known(r)',
         req[r].failed \subseteq new.failed,
         new.failed \subseteq req[r].failed \cup {Item(r)},
         Item(r) \in new.failed \/ OwnKey(r, Item(r)) \in Known(r)'
  PROVE  DealtWith(r)'
<1>1. /\ req[r].tenant \in Tenants /\ req[r].at \in DOMAIN req[r].batch
      /\ req[r].failed \subseteq Batch(r)
      /\ \A k \in 1 .. req[r].at - 1 :
           req[r].batch[k] \in req[r].failed \/ OwnKey(r, req[r].batch[k]) \in Known(r)
  BY DEF IngestInv, DealtWith
<1>2. /\ Batch(r)' = Batch(r) /\ \A a : OwnKey(r, a)' = OwnKey(r, a)
      /\ Item(r) \in Batch(r) /\ Item(r) = req[r].batch[req[r].at]
      /\ \A a \in Batch(r) : \E k \in DOMAIN req[r].batch : a = req[r].batch[k]
      /\ DOMAIN req[r].batch = 1 .. Len(req[r].batch) /\ Len(req[r].batch) \in Nat
  <2>1. req[r].batch \in Seq(Aids)
    BY BatchFacts DEF IngestInv
  <2>2. Batch(r)' = Batch(r) /\ \A a : OwnKey(r, a)' = OwnKey(r, a)
    BY DEF Batch, OwnKey
  <2>. QED BY <1>1, <2>1, <2>2 DEF Batch, Item
<1>3. ASSUME NEW k \in 1 .. req[r].at
      PROVE  req[r].batch[k] \in new.failed \/ OwnKey(r, req[r].batch[k]) \in Known(r)'
  <2>1. CASE k = req[r].at
    BY <1>2, <2>1
  <2>2. CASE k # req[r].at
    <3>1. k \in 1 .. req[r].at - 1
      BY <1>1, <1>2, <2>2
    <3>. QED BY <1>1, <3>1
  <2>. QED BY <2>1, <2>2
<1>4. new.failed \subseteq Batch(r)'
  BY <1>1, <1>2
<1>5. CASE new.pc = "item" /\ new.at = req[r].at + 1 /\ new.at \in DOMAIN req[r].batch
  <2>1. \A k \in 1 .. new.at - 1 : k \in 1 .. req[r].at
    BY <1>1, <1>2, <1>5
  <2>2. \A k \in 1 .. new.at - 1 :
          (req[r].batch[k] \in req[r].failed \/ OwnKey(r, req[r].batch[k]) \in Known(r))'
    <3> SUFFICES ASSUME NEW k \in 1 .. new.at - 1
                 PROVE  req'[r].batch[k] \in req'[r].failed
                        \/ <<req'[r].tenant, req'[r].batch[k]>> \in Known(r)'
      BY DEF OwnKey
    <3>1. req[r].batch[k] \in new.failed \/ OwnKey(r, req[r].batch[k]) \in Known(r)'
      BY <1>3, <2>1
    <3>. QED BY <3>1 DEF OwnKey
  <2>3. req'[r].pc = "item" /\ req'[r].at = new.at /\ new.at \in DOMAIN req'[r].batch
        /\ req'[r].tenant \in Tenants /\ req'[r].failed \subseteq Batch(r)'
    BY <1>1, <1>4, <1>5
  <2>. QED BY <2>2, <2>3 DEF DealtWith
<1>6. CASE new.pc = "commit" /\ new.at = req[r].at /\ req[r].at = Len(req[r].batch)
  <2>1. \A a \in Batch(r)' : a \in req'[r].failed \/ OwnKey(r, a)' \in Known(r)'
    BY <1>2, <1>3, <1>6
  <2>. QED BY <1>1, <1>4, <1>6, <2>1 DEF DealtWith
<1>. QED BY <1>5, <1>6, Advance

LEMMA WriteRaisesStep ==
  ASSUME IngestInv, NEW r \in Requests, WriteRaises(r)
  PROVE  IngestInv'
<1> DEFINE new == [Advanced(r) EXCEPT !.failed = Failed(r)]
<1>1. /\ req' = [req EXCEPT ![r] = new] /\ req[r].pc = "write"
      /\ UNCHANGED <<table, sensors, tx, deaths>>
  BY DEF WriteRaises, At
<1>2. Item(r) \in Aids /\ req[r].failed \subseteq Aids
  BY BatchFacts, <1>1 DEF IngestInv, DealtWith, TablesTyped, RequestState
<1>3. /\ new \in RequestState /\ new.pc = Advanced(r).pc /\ new.at = Advanced(r).at
      /\ new.tenant = req[r].tenant /\ new.batch = req[r].batch
      /\ new.failed = req[r].failed \cup {Item(r)}
      /\ new.pc \in {"item", "commit"}
  BY <1>1, <1>2, Advance DEF Failed, RequestState
<1> HIDE DEF new
<1>4. /\ OwnWrites(r)' /\ req'[r] = new /\ Known(r)' = Known(r)
  BY <1>1, <1>3, StillOwn
<1>5. DealtWith(r)'
  BY <1>1, <1>3, <1>4, DealtWithItem
<1>. QED BY <1>1, <1>3, <1>4, <1>5, OnlyState

\* Rows are written: nobody else holds them, and where they replace a row the
\* key stays.
LEMMA RowsWritten ==
  ASSUME IngestInv, NEW r \in Requests, req[r].pc \in {"bulk", "write"},
         NEW rows \in Fragment, Holders(r, rows) = {},
         tx' = [tx EXCEPT ![r] = Over(tx[r], rows)],
         lastId' \in Nat, lastId <= lastId', DOMAIN rows \subseteq 1 .. lastId',
         \A i \in DOMAIN rows :
           /\ rows[i].tenant = req[r].tenant /\ rows[i].by = r
           /\ rows[i].aid \in Batch(r)
           /\ i \in DOMAIN alerts => Key(rows[i]) = Key(alerts[i])
           /\ i \in DOMAIN tx[r] => Key(rows[i]) = Key(tx[r][i]),
         UNCHANGED <<alerts, sensors, deaths>>,
         NEW new \in RequestState, req' = [req EXCEPT ![r] = new],
         new.tenant = req[r].tenant, new.batch = req[r].batch,
         new.pc \in {"item", "commit"}
  PROVE  /\ TableGrows /\ TablesTyped' /\ OwnWrites(r)' /\ req'[r] = new
         /\ \A q \in Requests \ {r} :
              LeavesAlone(q) /\ DOMAIN tx'[r] \cap DOMAIN tx[q] = {}
         /\ Known(r)' = Known(r) \cup Keys(rows)
<1> DEFINE mine == Over(tx[r], rows)
<1>1. /\ DOMAIN mine = DOMAIN tx[r] \cup DOMAIN rows
      /\ \A i \in DOMAIN rows : mine[i] = rows[i]
      /\ \A i \in DOMAIN tx[r] \ DOMAIN rows : mine[i] = tx[r][i]
  BY ONLY OverFacts
<1>2. mine \in Fragment
  BY FragmentFacts DEF IngestInv, TablesTyped
<1>3. Keys(mine) = Keys(tx[r]) \cup Keys(rows)
  BY KeysOver
<1> HIDE DEF mine
<1>4. tx' = [tx EXCEPT ![r] = mine] /\ tx'[r] = mine /\ req'[r] = new
      /\ alerts' = alerts /\ lastId \in Nat
  BY DEF mine, IngestInv, TablesTyped
<1>5. TableGrows
  BY <1>4 DEF TableGrows
<1>6. TablesTyped'
  <2>1. DOMAIN alerts' \subseteq 1 .. lastId'
    BY <1>4 DEF IngestInv, TablesTyped
  <2>. QED BY <1>2, <1>4, <2>1 DEF IngestInv, TablesTyped
<1>7. OwnWrites(r)'
  <2>1. Batch(r)' = Batch(r)
    BY <1>4 DEF Batch
  <2>2. OwnWrites(r)
    BY DEF IngestInv
  <2>3. DOMAIN tx'[r] \subseteq 1 .. lastId'
    BY <1>1, <1>4, <2>2 DEF OwnWrites
  <2>4. \A i \in DOMAIN mine : /\ mine[i].tenant = new.tenant /\ mine[i].by = r
                               /\ mine[i].aid \in Batch(r)
                               /\ i \in DOMAIN alerts => Key(mine[i]) = Key(alerts[i])
    <3> SUFFICES ASSUME NEW i \in DOMAIN mine
                 PROVE  /\ mine[i].tenant = new.tenant /\ mine[i].by = r
                        /\ mine[i].aid \in Batch(r)
                        /\ i \in DOMAIN alerts => Key(mine[i]) = Key(alerts[i])
      OBVIOUS
    <3>1. CASE i \in DOMAIN rows
      BY <1>1, <3>1
    <3>2. CASE i \in DOMAIN tx[r] \ DOMAIN rows
      BY <1>1, <2>2, <3>2 DEF OwnWrites
    <3>. QED BY <1>1, <3>1, <3>2
  <2>. QED BY <1>4, <2>1, <2>3, <2>4 DEF OwnWrites
<1>8. ASSUME NEW q \in Requests \ {r}
      PROVE  LeavesAlone(q) /\ DOMAIN tx'[r] \cap DOMAIN tx[q] = {}
  <2>1. DOMAIN tx[q] \cap DOMAIN rows = {}
    BY DEF Holders
  <2>2. DOMAIN tx[q] \cap DOMAIN tx[r] = {}
    BY DEF IngestInv, Apart
  <2>3. LeavesAlone(q)
    BY <1>4 DEF LeavesAlone, IngestInv, TablesTyped
  <2>. QED BY <1>1, <1>4, <2>1, <2>2, <2>3
<1>9. Known(r)' = Known(r) \cup Keys(rows)
  BY <1>3, <1>4 DEF Known
<1>. QED BY <1>4, <1>5, <1>6, <1>7, <1>8, <1>9

\* What the bulk statement writes: the table's rows with one of the ids that
\* were found, and a new row for every other id of the batch.
LEMMA BulkRowsFacts ==
  ASSUME IngestInv, NEW r \in Requests, req[r].pc = "bulk"
  PROVE  LET rows == BulkRows(r) IN
         /\ rows \in Fragment
         /\ DOMAIN rows \subseteq 1 .. lastId + Len(req[r].batch)
         /\ \A i \in DOMAIN rows :
              /\ rows[i].tenant = req[r].tenant /\ rows[i].by = r
              /\ rows[i].aid \in Batch(r)
              /\ i \in DOMAIN alerts =>
                   alerts[i].aid \in req[r].found /\ rows[i].aid = alerts[i].aid
         /\ \A i \in DOMAIN alerts : alerts[i].aid \in req[r].found => i \in DOMAIN rows
         /\ \A a \in Batch(r) \ req[r].found : OwnKey(r, a) \in Keys(rows)
<1> DEFINE batch == req[r].batch
           found == req[r].found
           Row(a) == [tenant |-> req[r].tenant, aid |-> a, by |-> r]
           new == {lastId + k : k \in {n \in DOMAIN batch : batch[n] \notin found}}
           hit == {i \in DOMAIN alerts : alerts[i].aid \in found}
           rows == BulkRows(r)
<1>1. rows = [i \in hit \cup new |->
                IF i \in hit THEN Row(alerts[i].aid) ELSE Row(batch[i - lastId])]
  BY DEF BulkRows
<1>2. /\ batch \in Seq(Aids) /\ DOMAIN batch = 1 .. Len(batch) /\ Len(batch) \in Nat
      /\ Batch(r) \subseteq Aids /\ \A k \in DOMAIN batch : batch[k] \in Batch(r)
      /\ \A a \in Batch(r) : \E k \in DOMAIN batch : a = batch[k]
  BY BatchFacts DEF IngestInv
<1>3. /\ lastId \in Nat /\ DOMAIN alerts \subseteq 1 .. lastId
      /\ req[r].tenant \in Tenants /\ \A a \in found : a \in Batch(r)
  BY DEF IngestInv, TablesTyped, DealtWith
<1> HIDE DEF rows, batch, found
<1>4. /\ \A i \in hit : i \in DOMAIN alerts /\ i \in 1 .. lastId /\ alerts[i].aid \in found
      /\ \A i \in DOMAIN alerts : alerts[i].aid \in found => i \in hit
  BY <1>3
<1>5. \A i \in new :
        /\ i \in lastId + 1 .. lastId + Len(batch)
        /\ i - lastId \in DOMAIN batch /\ batch[i - lastId] \notin found
  <2> SUFFICES ASSUME NEW k \in DOMAIN batch, batch[k] \notin found
               PROVE  /\ lastId + k \in lastId + 1 .. lastId + Len(batch)
                      /\ (lastId + k) - lastId = k
    OBVIOUS
  <2>. QED BY <1>2, <1>3
<1>6. \A k \in DOMAIN batch :
        batch[k] \notin found => lastId + k \in new /\ (lastId + k) - lastId = k
  BY <1>2, <1>3
<1> HIDE DEF hit, new
<1>7. /\ hit \cap new = {} /\ hit \cup new \subseteq 1 .. lastId + Len(batch)
      /\ new \cap DOMAIN alerts = {}
  <2>1. \A i \in new : i \notin 1 .. lastId /\ i \in 1 .. lastId + Len(batch)
    BY <1>2, <1>3, <1>5
  <2>2. 1 .. lastId \subseteq 1 .. lastId + Len(batch)
    BY <1>2, <1>3
  <2>. QED BY <1>3, <1>4, <2>1, <2>2
<1>8. /\ DOMAIN rows = hit \cup new
      /\ \A i \in hit : rows[i] = Row(alerts[i].aid)
      /\ \A i \in new : rows[i] = Row(batch[i - lastId])
  BY <1>1, <1>7
<1>9. \A a :
        /\ Row(a).tenant = req[r].tenant /\ Row(a).aid = a /\ Row(a).by = r
        /\ a \in Aids => Row(a) \in TableRow /\ Key(Row(a)) = OwnKey(r, a)
  BY <1>3 DEF TableRow, Key, OwnKey
<1> HIDE DEF Row
<1>10. \A i \in DOMAIN rows :
         /\ rows[i] \in TableRow
         /\ rows[i].tenant = req[r].tenant /\ rows[i].by = r
         /\ rows[i].aid \in Batch(r)
         /\ i \in DOMAIN alerts => alerts[i].aid \in found /\ rows[i].aid = alerts[i].aid
  <2>1. ASSUME NEW i \in hit
        PROVE  /\ rows[i] = Row(alerts[i].aid) /\ alerts[i].aid \in found
               /\ alerts[i].aid \in Batch(r) /\ alerts[i].aid \in Aids
    BY <1>2, <1>3, <1>4, <1>8
  <2>2. ASSUME NEW i \in new
        PROVE  /\ rows[i] = Row(batch[i - lastId]) /\ batch[i - lastId] \in Batch(r)
               /\ batch[i - lastId] \in Aids /\ i \notin DOMAIN alerts
    BY <1>2, <1>5, <1>7, <1>8
  <2>3. \A i \in DOMAIN rows :
          \E a \in Batch(r) :
            /\ rows[i] = Row(a) /\ a \in Aids
            /\ i \in DOMAIN alerts => a \in found /\ a = alerts[i].aid
    BY <1>8, <2>1, <2>2
  <2>4. \A a \in Batch(r) : a \in Aids =>
          /\ Row(a) \in TableRow /\ Row(a).tenant = req[r].tenant
          /\ Row(a).by = r /\ Row(a).aid = a
    BY <1>9
  <2>. QED BY <2>3, <2>4
<1>11. rows \in Fragment
  <2>1. hit \cup new \in SUBSET Nat
    BY <1>2, <1>3, <1>7
  <2>2. rows \in [hit \cup new -> TableRow]
    BY <1>1, <1>8, <1>10
  <2>. QED BY <2>1, <2>2, IsFragment
<1>12. ASSUME NEW a \in Batch(r) \ found
       PROVE  OwnKey(r, a) \in Keys(rows)
  <2>1. PICK k \in DOMAIN batch : a = batch[k]
    BY <1>2
  <2>2. lastId + k \in DOMAIN rows /\ rows[lastId + k] = Row(a) /\ a \in Aids
    BY <1>2, <1>6, <1>8, <2>1
  <2>3. Key(rows[lastId + k]) = OwnKey(r, a)
    BY <1>9, <2>2
  <2>. QED BY <2>2, <2>3 DEF Keys
<1>. QED BY <1>4, <1>7, <1>8, <1>10, <1>11, <1>12 DEF rows, batch, found

LEMMA BulkStep ==
  ASSUME IngestInv, NEW r \in Requests, Bulk(r)
  PROVE  IngestInv'
<1> DEFINE new == [req[r] EXCEPT !.pc = "commit"]
           rows == BulkRows(r)
<1>1. /\ req[r] \in RequestState /\ new \in RequestState
      /\ req' = [req EXCEPT ![r] = new] /\ req[r].pc = "bulk"
      /\ UNCHANGED <<alerts, sensors, deaths>>
      /\ lastId' = lastId + Len(req[r].batch) /\ lastId \in Nat
      /\ Len(req[r].batch) \in Nat
  <2>1. req \in [Requests -> RequestState] /\ lastId \in Nat
    BY DEF IngestInv, TablesTyped
  <2>2. req[r].batch \in Seq(Aids)
    BY <2>1 DEF RequestState
  <2>3. Len(req[r].batch) \in Nat
    BY <2>2
  <2>4. /\ req' = [req EXCEPT ![r].pc = "commit"] /\ req[r].pc = "bulk"
        /\ UNCHANGED <<alerts, sensors, deaths>>
        /\ lastId' = lastId + Len(req[r].batch)
    BY DEF Bulk, At
  <2>. QED BY <2>1, <2>3, <2>4 DEF RequestState
<1>2. /\ new.pc = "commit" /\ new.tenant = req[r].tenant /\ new.batch = req[r].batch
      /\ new.at = req[r].at /\ new.failed = req[r].failed
  BY <1>1 DEF RequestState
<1> HIDE DEF new
<1>3. /\ rows \in Fragment
      /\ DOMAIN rows \subseteq 1 .. lastId + Len(req[r].batch)
      /\ \A i \in DOMAIN rows :
           /\ rows[i].tenant = req[r].tenant /\ rows[i].by = r
           /\ rows[i].aid \in Batch(r)
           /\ i \in DOMAIN alerts =>
                alerts[i].aid \in req[r].found /\ rows[i].aid = alerts[i].aid
      /\ \A i \in DOMAIN alerts : alerts[i].aid \in req[r].found => i \in DOMAIN rows
      /\ \A a \in Batch(r) \ req[r].found : OwnKey(r, a) \in Keys(rows)
  BY <1>1, BulkRowsFacts
<1>4. /\ Holders(r, rows) = {} /\ Unique(Over(alerts, rows))
      /\ tx' = [tx EXCEPT ![r] = rows]
  BY DEF Bulk, BulkHolds
<1> HIDE DEF rows
<1>5. DOMAIN tx[r] = {}
  BY <1>1 DEF IngestInv, OwnWrites
<1>6. Over(tx[r], rows) = rows
  <2>1. rows = [i \in DOMAIN rows |-> rows[i]]
    BY <1>3 DEF Fragment
  <2>2. Over(tx[r], rows) = [i \in DOMAIN rows |-> rows[i]]
    BY <1>5 DEF Over
  <2>. QED BY <2>1, <2>2
<1>7. ASSUME NEW i \in DOMAIN rows, i \in DOMAIN alerts
      PROVE  Key(rows[i]) = Key(alerts[i])
  <2>1. alerts[i].aid \in req[r].found /\ Key(rows[i]) = OwnKey(r, alerts[i].aid)
    BY <1>3, <1>7 DEF Key, OwnKey
  <2>2. OwnKey(r, alerts[i].aid) \in Keys(alerts)
    BY <1>1, <2>1 DEF IngestInv, DealtWith
  <2>3. PICK j \in DOMAIN alerts : Key(alerts[j]) = OwnKey(r, alerts[i].aid)
    BY <2>2 DEF Keys
  <2>4. alerts[j].aid = alerts[i].aid
    BY <2>3 DEF Key, OwnKey
  <2>5. j \in DOMAIN rows /\ Key(rows[j]) = OwnKey(r, alerts[i].aid)
    BY <1>3, <2>1, <2>4 DEF Key, OwnKey
  <2>6. /\ i \in DOMAIN Over(alerts, rows) /\ Over(alerts, rows)[i] = rows[i]
        /\ j \in DOMAIN Over(alerts, rows) /\ Over(alerts, rows)[j] = rows[j]
    <3> DEFINE h == Over(alerts, rows)
    <3>1. /\ DOMAIN h = DOMAIN alerts \cup DOMAIN rows
          /\ \A k \in DOMAIN rows : h[k] = rows[k]
      BY OverFacts
    <3> HIDE DEF h
    <3>2. i \in DOMAIN h /\ h[i] = rows[i] /\ j \in DOMAIN h /\ h[j] = rows[j]
      BY <1>7, <2>5, <3>1
    <3>. QED BY <3>2 DEF h
  <2>7. i = j
    BY <1>4, <2>1, <2>5, <2>6 DEF Unique
  <2>. QED BY <2>1, <2>3, <2>7
<1>8. /\ lastId' \in Nat /\ lastId <= lastId' /\ DOMAIN rows \subseteq 1 .. lastId'
  BY <1>1, <1>3
<1>9. /\ TableGrows /\ TablesTyped' /\ OwnWrites(r)' /\ req'[r] = new
      /\ \A q \in Requests \ {r} :
           LeavesAlone(q) /\ DOMAIN tx'[r] \cap DOMAIN tx[q] = {}
      /\ Known(r)' = Known(r) \cup Keys(rows)
  BY <1>1, <1>2, <1>3, <1>4, <1>5, <1>6, <1>7, <1>8, RowsWritten
<1>10. DealtWith(r)'
  <2>1. /\ req[r].tenant \in Tenants /\ req[r].at \in DOMAIN req[r].batch
        /\ req[r].failed \subseteq Batch(r)
        /\ \A a \in req[r].found : OwnKey(r, a) \in Known(r)
    BY <1>1 DEF IngestInv, DealtWith, Known
  <2>2. Batch(r)' = Batch(r) /\ \A a : OwnKey(r, a)' = OwnKey(r, a)
    BY <1>2, <1>9 DEF Batch, OwnKey
  <2>3. \A a \in Batch(r) : OwnKey(r, a) \in Known(r)'
    BY <1>3, <1>9, <2>1
  <2>. QED BY <1>2, <1>9, <2>1, <2>2, <2>3 DEF DealtWith
<1>. QED BY <1>9, <1>10, OneRequest

\* What an item writes: its row where it has one, or a new row.
LEMMA ItemRowFacts ==
  ASSUME IngestInv, NEW r \in Requests, req[r].pc = "write"
  PROVE  LET rows == ItemRow(r) IN
         /\ rows \in Fragment
         /\ DOMAIN rows \subseteq IF req[r].hit THEN 1 .. lastId ELSE {lastId + 1}
         /\ \A i \in DOMAIN rows :
              /\ rows[i].tenant = req[r].tenant /\ rows[i].by = r
              /\ rows[i].aid \in Batch(r)
              /\ i \in DOMAIN alerts => Key(rows[i]) = Key(alerts[i])
              /\ i \in DOMAIN tx[r] => Key(rows[i]) = Key(tx[r][i])
         /\ OwnKey(r, Item(r)) \in Known(r) \cup Keys(rows)
<1> DEFINE key == OwnKey(r, Item(r))
           row == [tenant |-> req[r].tenant, aid |-> Item(r), by |-> r]
           mine == {j \in DOMAIN View(r) : Key(View(r)[j]) = key}
           rows == ItemRow(r)
<1>1. rows = [i \in IF req[r].hit THEN mine ELSE {lastId + 1} |-> row]
  BY DEF ItemRow
<1>2. /\ lastId \in Nat /\ DOMAIN alerts \subseteq 1 .. lastId
      /\ DOMAIN tx[r] \subseteq 1 .. lastId /\ req[r].tenant \in Tenants
      /\ req[r].at \in DOMAIN req[r].batch
      /\ req[r].hit => key \in Known(r)
      /\ \A i \in DOMAIN tx[r] \cap DOMAIN alerts : Key(tx[r][i]) = Key(alerts[i])
  BY DEF IngestInv, TablesTyped, OwnWrites, DealtWith
<1>3. Item(r) \in Batch(r) /\ Item(r) \in Aids
  BY <1>2, BatchFacts DEF IngestInv
<1>4. row \in TableRow /\ Key(row) = key
  BY <1>2, <1>3 DEF TableRow, Key, OwnKey
<1>5. /\ DOMAIN View(r) = DOMAIN alerts \cup DOMAIN tx[r]
      /\ \A i \in DOMAIN tx[r] : View(r)[i] = tx[r][i]
      /\ \A i \in DOMAIN alerts \ DOMAIN tx[r] : View(r)[i] = alerts[i]
  BY OverFacts DEF View
<1>6. \A i \in mine :
        /\ i \in 1 .. lastId
        /\ i \in DOMAIN alerts => Key(alerts[i]) = key
        /\ i \in DOMAIN tx[r] => Key(tx[r][i]) = key
  <2> SUFFICES ASSUME NEW i \in mine
               PROVE  /\ i \in 1 .. lastId
                      /\ i \in DOMAIN alerts => Key(alerts[i]) = key
                      /\ i \in DOMAIN tx[r] => Key(tx[r][i]) = key
    OBVIOUS
  <2>1. i \in DOMAIN View(r) /\ Key(View(r)[i]) = key
    OBVIOUS
  <2> HIDE DEF mine, key
  <2>2. CASE i \in DOMAIN tx[r]
    BY <1>2, <1>5, <2>1, <2>2
  <2>3. CASE i \notin DOMAIN tx[r]
    BY <1>2, <1>5, <2>1, <2>3
  <2>. QED BY <2>2, <2>3
<1> HIDE DEF mine, rows
<1>7. CASE req[r].hit
  <2>1. DOMAIN rows = mine /\ \A i \in mine : rows[i] = row
    BY <1>1, <1>7
  <2>2. mine \in SUBSET Nat /\ rows \in [mine -> TableRow]
    BY <1>1, <1>2, <1>4, <1>6, <1>7
  <2>3. rows \in Fragment
    BY <2>2, IsFragment
  <2>. QED BY <1>2, <1>3, <1>4, <1>6, <1>7, <2>1, <2>3 DEF rows
<1>8. CASE ~req[r].hit
  <2>1. DOMAIN rows = {lastId + 1} /\ rows[lastId + 1] = row
    BY <1>1, <1>8
  <2>2. {lastId + 1} \in SUBSET Nat /\ rows \in [{lastId + 1} -> TableRow]
    BY <1>1, <1>2, <1>4, <1>8
  <2>3. rows \in Fragment
    BY <2>2, IsFragment
  <2>4. lastId + 1 \notin DOMAIN alerts /\ lastId + 1 \notin DOMAIN tx[r]
    <3>1. lastId + 1 \notin 1 .. lastId
      BY <1>2
    <3>. QED BY <1>2, <3>1
  <2>5. key \in Keys(rows)
    BY <1>4, <2>1 DEF Keys
  <2>. QED BY <1>3, <1>8, <2>1, <2>3, <2>4, <2>5 DEF rows
<1>. QED BY <1>7, <1>8

LEMMA WriteStep ==
  ASSUME IngestInv, NEW r \in Requests, Write(r)
  PROVE  IngestInv'
<1> DEFINE rows == ItemRow(r)
           new == Advanced(r)
<1>1. /\ req' = [req EXCEPT ![r] = new] /\ req[r].pc = "write"
      /\ UNCHANGED <<alerts, sensors, deaths>>
      /\ lastId' = IF req[r].hit THEN lastId ELSE lastId + 1
      /\ tx' = [tx EXCEPT ![r] = Over(tx[r], rows)]
      /\ Holders(r, rows) = {}
  BY DEF Write, At
<1>2. lastId \in Nat
  BY DEF IngestInv, TablesTyped
<1>3. /\ new \in RequestState /\ new.tenant = req[r].tenant /\ new.batch = req[r].batch
      /\ new.failed = req[r].failed /\ new.pc \in {"item", "commit"}
  BY <1>1, Advance
<1>4. /\ rows \in Fragment
      /\ DOMAIN rows \subseteq IF req[r].hit THEN 1 .. lastId ELSE {lastId + 1}
      /\ \A i \in DOMAIN rows :
           /\ rows[i].tenant = req[r].tenant /\ rows[i].by = r
           /\ rows[i].aid \in Batch(r)
           /\ i \in DOMAIN alerts => Key(rows[i]) = Key(alerts[i])
           /\ i \in DOMAIN tx[r] => Key(rows[i]) = Key(tx[r][i])
      /\ OwnKey(r, Item(r)) \in Known(r) \cup Keys(rows)
  BY <1>1, ItemRowFacts
<1> HIDE DEF rows, new
<1>5. lastId' \in Nat /\ lastId <= lastId' /\ DOMAIN rows \subseteq 1 .. lastId'
  BY <1>1, <1>2, <1>4
<1>6. /\ TableGrows /\ TablesTyped' /\ OwnWrites(r)' /\ req'[r] = new
      /\ \A q \in Requests \ {r} :
           LeavesAlone(q) /\ DOMAIN tx'[r] \cap DOMAIN tx[q] = {}
      /\ Known(r)' = Known(r) \cup Keys(rows)
  BY <1>1, <1>3, <1>4, <1>5, RowsWritten
<1>7. DealtWith(r)'
  <2>1. new.pc = Advanced(r).pc /\ new.at = Advanced(r).at
    BY DEF new
  <2>. QED BY <1>1, <1>3, <1>4, <1>6, <2>1, DealtWithItem
<1>. QED BY <1>6, <1>7, OneRequest

\* The request is over: its transaction is committed or rolled back.
LEMMA Ended ==
  ASSUME IngestInv, NEW r \in Requests, req[r].pc # "idle",
         NEW pc \in {"answered", "lost"},
         req' = [req EXCEPT ![r].pc = pc], tx' = [tx EXCEPT ![r] = NoRows],
         TableGrows, DOMAIN alerts' \subseteq 1 .. lastId', alerts' \in Fragment,
         DOMAIN alerts' \subseteq DOMAIN alerts \cup DOMAIN tx[r],
         sensors' = sensors, deaths' \in 0 .. MaxDeaths
  PROVE  IngestInv'
<1> DEFINE new == [req[r] EXCEPT !.pc = pc]
<1>1. /\ req[r] \in RequestState /\ new \in RequestState
      /\ req' = [req EXCEPT ![r] = new] /\ req'[r] = new
      /\ new.pc \in {"answered", "lost"} /\ new.tenant = req[r].tenant
      /\ new.batch = req[r].batch /\ new.at = req[r].at /\ new.failed = req[r].failed
  BY DEF IngestInv, TablesTyped, RequestState
<1> HIDE DEF new
<1>2. tx'[r] = NoRows /\ DOMAIN tx'[r] = {} /\ NoRows \in Fragment
  BY FragmentFacts DEF IngestInv, TablesTyped
<1>3. \A q \in Requests \ {r} : LeavesAlone(q) /\ DOMAIN tx'[r] \cap DOMAIN tx[q] = {}
  <2> SUFFICES ASSUME NEW q \in Requests \ {r}
               PROVE  LeavesAlone(q)
    BY <1>2
  <2>1. req'[q] = req[q] /\ tx'[q] = tx[q]
    BY <1>1 DEF IngestInv, TablesTyped
  <2>2. DOMAIN tx[q] \cap DOMAIN tx[r] = {}
    BY DEF IngestInv, Apart
  <2>. QED BY <2>1, <2>2 DEF LeavesAlone
<1>4. TablesTyped'
  BY <1>1, <1>2 DEF IngestInv, TablesTyped, TableGrows
<1>5. OwnWrites(r)'
  BY <1>1, <1>2 DEF OwnWrites
<1>6. DealtWith(r)'
  <2>1. Batch(r)' = Batch(r)
    BY <1>1 DEF Batch
  <2>. QED BY <1>1, <2>1 DEF DealtWith, IngestInv
<1>. QED BY <1>3, <1>4, <1>5, <1>6, OneRequest

\* What a commit adds to the table: rows of the request's tenant and batch,
\* and no key of a row changes.
LEMMA Committing ==
  ASSUME IngestInv, NEW r \in Requests, Commit(r)
  PROVE  /\ TableGrows /\ DOMAIN alerts' \subseteq 1 .. lastId' /\ alerts' \in Fragment
         /\ DOMAIN alerts' \subseteq DOMAIN alerts \cup DOMAIN tx[r]
         /\ Keys(alerts') = Known(r)
         /\ \A i \in DOMAIN tx[r] : alerts'[i] = tx[r][i]
         /\ \A i \in DOMAIN alerts \ DOMAIN tx[r] : alerts'[i] = alerts[i]
<1>1. alerts' = View(r) /\ lastId' = lastId /\ lastId \in Nat
  BY DEF Commit, Committed, IngestInv, TablesTyped
<1>2. /\ DOMAIN alerts' = DOMAIN alerts \cup DOMAIN tx[r]
      /\ \A i \in DOMAIN tx[r] : alerts'[i] = tx[r][i]
      /\ \A i \in DOMAIN alerts \ DOMAIN tx[r] : alerts'[i] = alerts[i]
  <2> DEFINE h == Over(alerts, tx[r])
  <2>1. /\ DOMAIN h = DOMAIN alerts \cup DOMAIN tx[r]
        /\ \A i \in DOMAIN tx[r] : h[i] = tx[r][i]
        /\ \A i \in DOMAIN alerts \ DOMAIN tx[r] : h[i] = alerts[i]
    BY OverFacts
  <2>2. alerts' = h
    BY <1>1 DEF View
  <2> HIDE DEF h
  <2>. QED BY <2>1, <2>2
<1>3. TableGrows
  <2>1. \A i \in DOMAIN tx[r] \cap DOMAIN alerts : Key(tx[r][i]) = Key(alerts[i])
    BY DEF IngestInv, OwnWrites
  <2>2. lastId <= lastId'
    BY <1>1
  <2>. QED BY <1>1, <1>2, <2>1, <2>2 DEF TableGrows
<1>4. DOMAIN alerts' \subseteq 1 .. lastId'
  BY <1>1, <1>2 DEF IngestInv, TablesTyped, OwnWrites
<1>5. alerts' \in Fragment
  BY <1>1, FragmentFacts DEF View, IngestInv, TablesTyped
<1>6. Keys(alerts') = Known(r)
  BY <1>1, ViewKeys DEF IngestInv
<1>. QED BY <1>2, <1>3, <1>4, <1>5, <1>6

LEMMA CommitStep ==
  ASSUME IngestInv, NEW r \in Requests, Commit(r)
  PROVE  IngestInv'
<1>1. PICK pc \in {"answered", "lost"} : req' = [req EXCEPT ![r].pc = pc]
  BY DEF Commit
<1>2. req[r].pc = "commit" /\ sensors' = sensors /\ tx' = [tx EXCEPT ![r] = NoRows]
  BY DEF Commit, At
<1>3. deaths' \in 0 .. MaxDeaths
  BY DeathAssumption DEF Commit, IngestInv, TablesTyped
<1>. QED BY <1>1, <1>2, <1>3, Committing, Ended

LEMMA DieStep ==
  ASSUME IngestInv, NEW r \in Requests, Die(r)
  PROVE  IngestInv'
<1>1. /\ req[r].pc # "idle" /\ req' = [req EXCEPT ![r].pc = "lost"]
      /\ tx' = [tx EXCEPT ![r] = NoRows] /\ UNCHANGED <<alerts, lastId, sensors>>
  BY DEF Die, table
<1>2. deaths' \in 0 .. MaxDeaths
  BY DeathAssumption DEF Die, IngestInv, TablesTyped
<1>3. TableGrows /\ DOMAIN alerts' \subseteq 1 .. lastId' /\ alerts' \in Fragment
  BY <1>1 DEF TableGrows, IngestInv, TablesTyped
<1>. QED BY <1>1, <1>2, <1>3, Ended

LEMMA HandleStep ==
  ASSUME IngestInv, NEW r \in Requests, Handle(r)
  PROVE  IngestInv'
BY SelectStep, BulkStep, BulkRaisesStep, LookupStep, WriteStep, WriteRaisesStep,
   CommitStep, DieStep DEF Handle

\* The rest of the steps leaves the tables and the requests as they are.
LEMMA RestStep ==
  ASSUME IngestInv, UNCHANGED <<table, req, tx, deaths>>, sensors' \subseteq Tenants
  PROVE  IngestInv'
<1>1. TablesTyped' /\ Apart'
  BY DEF IngestInv, TablesTyped, Apart, table
<1>2. TableGrows /\ \A q \in Requests : LeavesAlone(q)
  BY DEF TableGrows, LeavesAlone, IngestInv, TablesTyped, table
<1>. QED BY <1>1, <1>2, Frame DEF IngestInv

LEMMA IngestInit ==
  ASSUME Init
  PROVE  IngestInv
<1>1. \A r \in Requests : req[r] = Idle /\ tx[r] = NoRows
  BY DEF Init
<1>2. Idle \in RequestState /\ Idle.pc = "idle" /\ Idle.failed = {}
  BY DEF Idle, RequestState
<1>3. NoRows \in Fragment /\ DOMAIN NoRows = {}
  BY FragmentFacts
<1>4. TablesTyped
  <2>1. req \in [Requests -> RequestState] /\ tx \in [Requests -> Fragment]
    BY <1>2, <1>3 DEF Init
  <2>2. alerts \in Fragment /\ DOMAIN alerts = {} /\ lastId = 0
        /\ sensors = {} /\ deaths = 0
    BY <1>3 DEF Init
  <2>. QED BY <2>1, <2>2, DeathAssumption DEF TablesTyped
<1>5. Apart
  BY <1>1, <1>3 DEF Apart
<1>6. \A r \in Requests : OwnWrites(r) /\ DealtWith(r)
  BY <1>1, <1>2, <1>3 DEF OwnWrites, DealtWith
<1>. QED BY <1>4, <1>5, <1>6 DEF IngestInv

LEMMA IngestStep ==
  ASSUME IngestInv, [Next]_vars
  PROVE  IngestInv'
<1>1. CASE \E r \in Requests : Handle(r)
  BY <1>1, HandleStep
<1>2. CASE \E t \in Tenants : CreateSensorToken(t) \/ StartReading(t)
  <2>1. UNCHANGED <<table, req, tx, deaths>> /\ sensors' \subseteq Tenants
    BY <1>2 DEF CreateSensorToken, StartReading, IngestInv, TablesTyped
  <2>. QED BY <2>1, RestStep
<1>3. CASE Page
  <2>1. UNCHANGED <<table, req, tx, deaths>> /\ sensors' \subseteq Tenants
    BY <1>3 DEF Page, IngestInv, TablesTyped
  <2>. QED BY <2>1, RestStep
<1>4. CASE UNCHANGED vars
  <2>1. UNCHANGED <<table, req, tx, deaths>> /\ sensors' \subseteq Tenants
    BY <1>4 DEF vars, table, IngestInv, TablesTyped
  <2>. QED BY <2>1, RestStep
<1>. QED BY <1>1, <1>2, <1>3, <1>4 DEF Next

\* Every row, open transaction and request of the endpoint stays well formed:
\* the invariant the theorems below rest on.
THEOREM RequestsAreSound == Spec => []IngestInv
<1>1. Init => IngestInv
  BY IngestInit
<1>2. IngestInv /\ [Next]_vars => IngestInv'
  BY IngestStep
<1>. QED BY <1>1, <1>2, PTL DEF Spec

\* The table, the requests and the count of dead processes keep their types.
THEOREM IngestTyped == Spec => []TypeOK
<1>1. IngestInv => TypeOK
  <2> SUFFICES ASSUME IngestInv PROVE TypeOK
    OBVIOUS
  <2>1. \A i \in DOMAIN alerts : alerts[i] \in TableRow
    BY FragmentFacts DEF IngestInv, TablesTyped
  <2>. QED BY <2>1 DEF TypeOK, IngestInv, TablesTyped, RequestState, TableRow
<1>. QED BY <1>1, RequestsAreSound, PTL

-----------------------------------------------------------------------------
(* Rows are written by their owners *)

\* Only a commit changes the table.
LEMMA TableChanges ==
  ASSUME [Next]_vars
  PROVE  alerts' = alerts \/ \E r \in Requests : Commit(r)
<1>1. CASE \E r \in Requests : Handle(r)
  <2>1. PICK r \in Requests : Handle(r)
    BY <1>1
  <2>2. CASE Select(r) \/ BulkRaises(r) \/ Lookup(r) \/ WriteRaises(r)
    BY <2>2 DEF Select, BulkRaises, Lookup, WriteRaises, table
  <2>3. CASE Bulk(r) \/ Write(r) \/ Die(r)
    BY <2>3 DEF Bulk, Write, Die, table
  <2>. QED BY <2>1, <2>2, <2>3 DEF Handle
<1>2. CASE \E t \in Tenants : CreateSensorToken(t) \/ StartReading(t)
  BY <1>2 DEF CreateSensorToken, StartReading, table
<1>3. CASE Page \/ UNCHANGED vars
  BY <1>3 DEF Page, table, vars
<1>. QED BY <1>1, <1>2, <1>3 DEF Next

\* A row is written by requests of its own tenant only, from the day it was
\* inserted, although the bulk update finds its rows by alert id alone: the
\* unique constraint lets no batch commit that hit a row of another tenant.
THEOREM RowsAreWrittenByTheirOwner == Spec => OwnRowsOnly
<1> DEFINE Owned ==
      \A i \in DOMAIN alerts :
        /\ i \in DOMAIN alerts'
        /\ alerts'[i].tenant = alerts[i].tenant
        /\ alerts'[i] # alerts[i] => req[alerts'[i].by].tenant = alerts[i].tenant
<1>1. IngestInv /\ [Next]_vars => [Owned]_alerts
  <2> SUFFICES ASSUME IngestInv, [Next]_vars, NEW r \in Requests, Commit(r),
                      NEW i \in DOMAIN alerts
               PROVE  /\ i \in DOMAIN alerts'
                      /\ alerts'[i].tenant = alerts[i].tenant
                      /\ alerts'[i] # alerts[i] => req[alerts'[i].by].tenant = alerts[i].tenant
    BY TableChanges
  <2>1. /\ i \in DOMAIN alerts' /\ alerts'[i].tenant = alerts[i].tenant
        /\ i \in DOMAIN tx[r] => alerts'[i] = tx[r][i]
        /\ i \notin DOMAIN tx[r] => alerts'[i] = alerts[i]
    BY Committing DEF TableGrows, Key
  <2>2. i \in DOMAIN tx[r] => tx[r][i].tenant = req[r].tenant /\ tx[r][i].by = r
    BY DEF IngestInv, OwnWrites
  <2>. QED BY <2>1, <2>2
<1>. QED BY <1>1, RequestsAreSound, PTL DEF Spec, OwnRowsOnly

-----------------------------------------------------------------------------
(* The endpoint keeps its contract *)

AskedKeys == [r \in Requests |-> IF At(r, "idle") THEN None
                                ELSE {OwnKey(r, a) : a \in Batch(r)}]
FailedKeys == [r \in Requests |-> IF ~At(r, "answered") THEN None
                                 ELSE {OwnKey(r, a) : a \in req[r].failed}]

LEMMA AskedFacts ==
  ASSUME IngestInv, NEW r \in Requests, req[r].pc # "idle"
  PROVE  /\ AskedKeys[r] = {OwnKey(r, a) : a \in Batch(r)}
         /\ AskedKeys[r] \in SUBSET (Tenants \X Aids) /\ AskedKeys[r] # None
         /\ Keys(tx[r]) \subseteq AskedKeys[r]
<1>1. AskedKeys[r] = {OwnKey(r, a) : a \in Batch(r)}
  BY DEF AskedKeys, At
<1>2. req[r].tenant \in Tenants /\ Batch(r) \subseteq Aids
  BY BatchFacts DEF IngestInv, DealtWith
<1>3. AskedKeys[r] \in SUBSET (Tenants \X Aids)
  BY <1>1, <1>2 DEF OwnKey
<1>4. AskedKeys[r] # None
  BY <1>3, NoneAssumption
<1>5. ASSUME NEW i \in DOMAIN tx[r] PROVE Key(tx[r][i]) \in AskedKeys[r]
  <2>1. tx[r][i].tenant = req[r].tenant /\ tx[r][i].aid \in Batch(r)
    BY DEF IngestInv, OwnWrites
  <2>. QED BY <1>1, <2>1 DEF Key, OwnKey
<1>6. Keys(tx[r]) \subseteq AskedKeys[r]
  BY <1>5 DEF Keys
<1>. QED BY <1>1, <1>3, <1>4, <1>6

\* A commit whose answer arrives is an answer of the contract, one whose
\* answer is lost a loss.
LEMMA CommitKeepsContract ==
  ASSUME IngestInv, NEW r \in Requests, Commit(r)
  PROVE  Contract!Answer(r) \/ Contract!Lose(r)
<1> DEFINE S == AskedKeys[r] \cap Keys(alerts')
           F == {OwnKey(r, a) : a \in req[r].failed}
<1>1. /\ req[r].pc = "commit" /\ req \in [Requests -> RequestState]
      /\ \/ req' = [req EXCEPT ![r].pc = "answered"]
         \/ req' = [req EXCEPT ![r].pc = "lost"]
  BY DEF Commit, At, IngestInv, TablesTyped
<1>2. Keys(alerts') = Keys(alerts) \cup Keys(tx[r])
  BY Committing DEF Known
<1>3. Keys(alerts)' = Keys(alerts) \cup S
  <2>1. Keys(tx[r]) \subseteq AskedKeys[r]
    BY <1>1, AskedFacts
  <2>2. Keys(alerts)' = Keys(alerts')
    BY DEF Keys
  <2>. QED BY <1>2, <2>1, <2>2
<1>4. AskedKeys' = AskedKeys
  <2> SUFFICES ASSUME NEW q \in Requests
               PROVE  /\ At(q, "idle")' <=> At(q, "idle")
                      /\ {OwnKey(q, a) : a \in Batch(q)}' = {OwnKey(q, a) : a \in Batch(q)}
    BY DEF AskedKeys
  <2>1. /\ req'[q].tenant = req[q].tenant /\ req'[q].batch = req[q].batch
        /\ req'[q].pc = "idle" <=> req[q].pc = "idle"
    BY <1>1 DEF RequestState
  <2>. QED BY <2>1 DEF At, OwnKey, Batch
<1>5. AskedKeys[r] # None /\ FailedKeys[r] = None /\ S \in SUBSET AskedKeys[r]
  BY <1>1, AskedFacts DEF FailedKeys, At
<1>6. CASE req' = [req EXCEPT ![r].pc = "answered"]
  <2>1. F \in SUBSET AskedKeys[r]
    <3>1. req[r].failed \subseteq Batch(r)
      BY DEF IngestInv, DealtWith
    <3>. QED BY <1>1, <3>1, AskedFacts
  <2>2. AskedKeys[r] \ F \subseteq S
    <3> SUFFICES ASSUME NEW a \in Batch(r), a \notin req[r].failed
                 PROVE  OwnKey(r, a) \in Keys(alerts')
      BY <1>1, AskedFacts
    <3>1. OwnKey(r, a) \in Known(r)
      BY <1>1 DEF IngestInv, DealtWith
    <3>. QED BY <1>2, <3>1 DEF Known
  <2>3. FailedKeys' = [FailedKeys EXCEPT ![r] = F]
    <3>1. \A q \in Requests \ {r} : req'[q] = req[q]
      BY <1>1, <1>6
    <3>2. req'[r].pc = "answered" /\ req'[r].tenant = req[r].tenant
          /\ req'[r].failed = req[r].failed
      BY <1>1, <1>6 DEF RequestState
    <3>3. FailedKeys'[r] = F
      BY <3>2 DEF FailedKeys, At, OwnKey
    <3>4. \A q \in Requests \ {r} : FailedKeys'[q] = FailedKeys[q]
      BY <3>1 DEF FailedKeys, At, OwnKey
    <3>5. FailedKeys' = [q \in Requests |-> FailedKeys'[q]]
          /\ FailedKeys = [q \in Requests |-> FailedKeys[q]]
      BY DEF FailedKeys
    <3> HIDE DEF F
    <3>. QED BY <3>3, <3>4, <3>5
  <2>4. Contract!Answer(r) <=>
          /\ AskedKeys[r] # None /\ FailedKeys[r] = None
          /\ \E G, H \in SUBSET AskedKeys[r] :
               /\ AskedKeys[r] \ G \subseteq H
               /\ FailedKeys' = [FailedKeys EXCEPT ![r] = G]
               /\ Keys(alerts)' = Keys(alerts) \cup H
          /\ UNCHANGED AskedKeys
    BY DEF Contract!Answer, AskedKeys, FailedKeys
  <2> HIDE DEF F, S
  <2>. QED BY <1>3, <1>4, <1>5, <2>1, <2>2, <2>3, <2>4
<1>7. CASE req' = [req EXCEPT ![r].pc = "lost"]
  <2>1. FailedKeys' = FailedKeys
    <3> SUFFICES ASSUME NEW q \in Requests
                 PROVE  /\ At(q, "answered")' <=> At(q, "answered")
                        /\ At(q, "answered") =>
                             {OwnKey(q, a) : a \in req[q].failed}'
                               = {OwnKey(q, a) : a \in req[q].failed}
      BY DEF FailedKeys
    <3>1. /\ req'[q].tenant = req[q].tenant /\ req'[q].failed = req[q].failed
          /\ req'[q].pc = "answered" <=> req[q].pc = "answered"
      BY <1>1, <1>7 DEF RequestState
    <3>. QED BY <3>1 DEF At, OwnKey
  <2>2. Contract!Lose(r) <=>
          /\ AskedKeys[r] # None /\ FailedKeys[r] = None
          /\ \E H \in SUBSET AskedKeys[r] : Keys(alerts)' = Keys(alerts) \cup H
          /\ UNCHANGED <<AskedKeys, FailedKeys>>
    BY DEF Contract!Lose, AskedKeys, FailedKeys
  <2> HIDE DEF S
  <2>. QED BY <1>3, <1>4, <1>5, <2>1, <2>2
<1>. QED BY <1>1, <1>6, <1>7

LEMMA SelectAsks ==
  ASSUME IngestInv, IngestInv', NEW r \in Requests, Select(r)
  PROVE  Contract!Ask(r)
<1>1. /\ req[r].pc = "idle" /\ req'[r].pc = "bulk" /\ alerts' = alerts
      /\ \A q \in Requests \ {r} : req'[q] = req[q]
  BY DEF Select, At, table, Idle, IngestInv, TablesTyped
<1> DEFINE K == {<<req'[r].tenant, a>> : a \in {req'[r].batch[k] : k \in DOMAIN req'[r].batch}}
<1>2. K \in SUBSET (Tenants \X Aids)
  <2>1. req'[r].tenant \in Tenants
    BY <1>1 DEF IngestInv, DealtWith
  <2>2. req'[r].batch \in Seq(Aids)
    BY DEF IngestInv, TablesTyped, RequestState
  <2>. QED BY <2>1, <2>2
<1>3. AskedKeys' = [AskedKeys EXCEPT ![r] = K]
  <2>1. AskedKeys'[r] = K
    BY <1>1 DEF AskedKeys, At, OwnKey, Batch
  <2>2. \A q \in Requests \ {r} : AskedKeys'[q] = AskedKeys[q]
    BY <1>1 DEF AskedKeys, At, OwnKey, Batch
  <2>3. AskedKeys' = [q \in Requests |-> AskedKeys'[q]]
        /\ AskedKeys = [q \in Requests |-> AskedKeys[q]]
    BY DEF AskedKeys
  <2> HIDE DEF K
  <2>. QED BY <2>1, <2>2, <2>3
<1>4. UNCHANGED <<Keys(alerts), FailedKeys>>
  <2>1. \A q \in Requests :
          /\ At(q, "answered")' <=> At(q, "answered")
          /\ At(q, "answered") => req'[q] = req[q]
    BY <1>1 DEF At
  <2>. QED BY <1>1, <2>1 DEF FailedKeys, OwnKey, Keys
<1>5. AskedKeys[r] = None
  BY <1>1 DEF AskedKeys, At
<1>6. Contract!Ask(r) <=>
        /\ AskedKeys[r] = None
        /\ \E L \in SUBSET (Tenants \X Aids) : AskedKeys' = [AskedKeys EXCEPT ![r] = L]
        /\ UNCHANGED <<Keys(alerts), FailedKeys>>
  BY DEF Contract!Ask, AskedKeys, FailedKeys
<1> HIDE DEF K
<1>. QED BY <1>2, <1>3, <1>4, <1>5, <1>6

\* Between its question and its answer a request is silent.
LEMMA Silent ==
  ASSUME IngestInv, NEW r \in Requests, NEW new,
         req' = [req EXCEPT ![r] = new],
         req[r].pc \notin {"idle", "answered"}, new.pc \notin {"idle", "answered"},
         new.tenant = req[r].tenant, new.batch = req[r].batch, alerts' = alerts
  PROVE  UNCHANGED <<Keys(alerts), AskedKeys, FailedKeys>>
<1>1. /\ req'[r] = new /\ \A q \in Requests \ {r} : req'[q] = req[q]
  BY DEF IngestInv, TablesTyped
<1>2. \A q \in Requests :
        /\ At(q, "idle")' <=> At(q, "idle")
        /\ At(q, "answered")' <=> At(q, "answered")
        /\ At(q, "answered") => req'[q] = req[q]
        /\ req'[q].tenant = req[q].tenant /\ req'[q].batch = req[q].batch
  BY <1>1 DEF At
<1>3. AskedKeys' = AskedKeys
  BY <1>2 DEF AskedKeys, OwnKey, Batch
<1>4. FailedKeys' = FailedKeys
  BY <1>2 DEF FailedKeys, OwnKey
<1>. QED BY <1>3, <1>4 DEF Keys

LEMMA HandleKeepsContract ==
  ASSUME IngestInv, IngestInv', NEW r \in Requests, Handle(r)
  PROVE  \/ Contract!Ask(r) \/ Contract!Answer(r) \/ Contract!Lose(r)
         \/ UNCHANGED <<Keys(alerts), AskedKeys, FailedKeys>>
<1>1. req[r] \in RequestState /\ req \in [Requests -> RequestState]
  BY DEF IngestInv, TablesTyped
<1>2. CASE Select(r)
  BY <1>2, SelectAsks
<1>3. CASE Commit(r)
  BY <1>3, CommitKeepsContract
<1>4. CASE Write(r)
  <2>1. req[r].pc = "write" /\ req' = [req EXCEPT ![r] = Advanced(r)] /\ alerts' = alerts
    BY <1>4 DEF Write, At
  <2>. QED BY <2>1, Advance, Silent
<1>5. CASE WriteRaises(r)
  <2> DEFINE new == [Advanced(r) EXCEPT !.failed = Failed(r)]
  <2>1. req[r].pc = "write" /\ req' = [req EXCEPT ![r] = new] /\ alerts' = alerts
    BY <1>5 DEF WriteRaises, At, table
  <2>2. /\ new.pc \in {"item", "commit"} /\ new.tenant = req[r].tenant
        /\ new.batch = req[r].batch
    BY <2>1, Advance DEF RequestState
  <2> HIDE DEF new
  <2>. QED BY <2>1, <2>2, Silent
<1>6. CASE Bulk(r) \/ BulkRaises(r) \/ Lookup(r) \/ Die(r)
  <2>1. /\ req[r].pc \notin {"idle", "answered"} /\ alerts' = alerts
    BY <1>6 DEF Bulk, BulkRaises, Lookup, Die, At, table
  <2>2. \E pc \in {"commit", "item", "write", "lost"}, hit \in BOOLEAN :
          req' = [req EXCEPT ![r] = [req[r] EXCEPT !.pc = pc, !.hit = hit]]
    <3>1. CASE Bulk(r)
      <4>1. req' = [req EXCEPT ![r] = [req[r] EXCEPT !.pc = "commit", !.hit = req[r].hit]]
        BY <1>1, <3>1 DEF Bulk, RequestState
      <4>. QED BY <1>1, <4>1 DEF RequestState
    <3>2. CASE BulkRaises(r)
      <4>1. req' = [req EXCEPT ![r] = [req[r] EXCEPT !.pc = "item", !.hit = req[r].hit]]
        BY <1>1, <3>2 DEF BulkRaises, RequestState
      <4>. QED BY <1>1, <4>1 DEF RequestState
    <3>3. CASE Lookup(r)
      <4> DEFINE hit == OwnKey(r, Item(r)) \in Keys(View(r))
      <4>1. hit \in BOOLEAN
        OBVIOUS
      <4>2. req' = [req EXCEPT ![r] = [req[r] EXCEPT !.pc = "write", !.hit = hit]]
        <5>1. req' = [req EXCEPT ![r].pc = "write", ![r].hit = hit]
          BY <3>3 DEF Lookup
        <5> HIDE DEF hit
        <5>. QED BY <1>1, <5>1
      <4> HIDE DEF hit
      <4>. QED BY <4>1, <4>2
    <3>4. CASE Die(r)
      <4>1. req' = [req EXCEPT ![r] = [req[r] EXCEPT !.pc = "lost", !.hit = req[r].hit]]
        BY <1>1, <3>4 DEF Die, RequestState
      <4>. QED BY <1>1, <4>1 DEF RequestState
    <3>. QED BY <1>6, <3>1, <3>2, <3>3, <3>4
  <2>3. PICK pc \in {"commit", "item", "write", "lost"}, hit \in BOOLEAN :
          req' = [req EXCEPT ![r] = [req[r] EXCEPT !.pc = pc, !.hit = hit]]
    BY <2>2
  <2> DEFINE new == [req[r] EXCEPT !.pc = pc, !.hit = hit]
  <2>4. /\ new.pc \notin {"idle", "answered"} /\ new.tenant = req[r].tenant
        /\ new.batch = req[r].batch /\ req' = [req EXCEPT ![r] = new]
    BY <1>1, <2>3 DEF RequestState
  <2> HIDE DEF new
  <2>. QED BY <2>1, <2>4, Silent
<1>. QED BY <1>2, <1>3, <1>4, <1>5, <1>6 DEF Handle

\* The ingest endpoint implements IngestContract: a request stores alerts of
\* its own tenant only, all at once or not at all, what its answer does not
\* list as failed is stored, and what is stored stays -- whatever the bulk
\* statement does, however the two forms of writing mix, whoever dies.
THEOREM IngestKeepsContract == Spec => KeepsContract
<1>1. Init => Contract!Init
  <2> SUFFICES ASSUME Init PROVE Contract!Init
    OBVIOUS
  <2>1. Keys(alerts) = {} /\ \A r \in Requests : req[r].pc = "idle"
    BY FragmentFacts DEF Init, Idle
  <2>. QED BY <2>1 DEF Contract!Init, At
<1>2. IngestInv /\ IngestInv' /\ [Next]_vars =>
        [Contract!Next]_<<Keys(alerts), AskedKeys, FailedKeys>>
  <2> SUFFICES ASSUME IngestInv, IngestInv', [Next]_vars
               PROVE  \/ Contract!Next
                      \/ UNCHANGED <<Keys(alerts), AskedKeys, FailedKeys>>
    OBVIOUS
  <2>1. CASE \E r \in Requests : Handle(r)
    BY <2>1, HandleKeepsContract DEF Contract!Next
  <2>2. CASE UNCHANGED <<table, req>>
    BY <2>2 DEF table, Keys, AskedKeys, FailedKeys, At, OwnKey, Batch
  <2>3. CASE \/ Page \/ UNCHANGED vars
             \/ \E t \in Tenants : CreateSensorToken(t) \/ StartReading(t)
    BY <2>2, <2>3 DEF Page, CreateSensorToken, StartReading, vars, table
  <2>. QED BY <2>1, <2>3 DEF Next
<1>. QED BY <1>1, <1>2, RequestsAreSound, PTL
     DEF Spec, KeepsContract, Contract!Spec, AskedKeys, FailedKeys

-----------------------------------------------------------------------------
(* The pages of the listing *)

Above(S, i) == {j \in S : j > i}

\* The larger a member, the fewer are above it.
LEMMA AboveFacts ==
  ASSUME NEW S \in SUBSET Nat, IsFiniteSet(S)
  PROVE  /\ Cardinality(S) \in Nat
         /\ \A i \in S : Cardinality(Above(S, i)) \in 0 .. Cardinality(S) - 1
         /\ \A i, j \in S :
              i < j => Cardinality(Above(S, j)) < Cardinality(Above(S, i))
<1>1. \A i \in S : IsFiniteSet(Above(S, i)) /\ Cardinality(Above(S, i)) \in Nat
  <2> SUFFICES ASSUME NEW i \in S
               PROVE  IsFiniteSet(Above(S, i)) /\ Cardinality(Above(S, i)) \in Nat
    OBVIOUS
  <2>1. Above(S, i) \in SUBSET S
    BY DEF Above
  <2>2. IsFiniteSet(Above(S, i))
    BY <2>1, FS_Subset
  <2>. QED BY <2>2, FS_CardinalityType
<1>2. Cardinality(S) \in Nat
  BY FS_CardinalityType
<1>3. ASSUME NEW i \in S
      PROVE  Cardinality(Above(S, i)) \in 0 .. Cardinality(S) - 1
  <2>1. Above(S, i) \in SUBSET S /\ Above(S, i) # S
    BY DEF Above
  <2>2. Cardinality(Above(S, i)) <= Cardinality(S)
        /\ Cardinality(S) # Cardinality(Above(S, i))
    BY <2>1, FS_Subset
  <2>. QED BY <1>1, <1>2, <2>2
<1>4. ASSUME NEW i \in S, NEW j \in S, i < j
      PROVE  Cardinality(Above(S, j)) < Cardinality(Above(S, i))
  <2>1. Above(S, j) \in SUBSET Above(S, i)
    <3>1. \A m \in S : m > j => m > i
      <4> SUFFICES ASSUME NEW m \in S, m > j PROVE m > i
        OBVIOUS
      <4>1. i \in Nat /\ j \in Nat /\ m \in Nat
        OBVIOUS
      <4>. QED BY <1>4, <4>1
    <3>. QED BY <3>1 DEF Above
  <2>2. Above(S, j) # Above(S, i)
    <3>1. j \in Above(S, i) /\ j \notin Above(S, j)
      BY <1>4 DEF Above
    <3>. QED BY <3>1
  <2>3. Cardinality(Above(S, j)) <= Cardinality(Above(S, i))
        /\ Cardinality(Above(S, i)) # Cardinality(Above(S, j))
    BY <1>1, <2>1, <2>2, FS_Subset
  <2>. QED BY <1>1, <2>3
<1>. QED BY <1>2, <1>3, <1>4

\* Every place of the order is taken.
LEMMA EveryRank ==
  ASSUME NEW S \in SUBSET Nat, IsFiniteSet(S), NEW k \in 1 .. Cardinality(S)
  PROVE  \E i \in S : Cardinality(Above(S, i)) = k - 1
<1> DEFINE n == Cardinality(S)
           rank == [i \in S |-> Cardinality(Above(S, i)) + 1]
<1>1. n \in Nat /\ \A i \in S : Cardinality(Above(S, i)) \in 0 .. n - 1
  BY AboveFacts
<1>2. rank \in [S -> 1 .. n]
  BY <1>1
<1>3. \A i, j \in S : rank[i] = rank[j] => i = j
  <2> SUFFICES ASSUME NEW i \in S, NEW j \in S, i # j
               PROVE  Cardinality(Above(S, i)) # Cardinality(Above(S, j))
    BY <1>1
  <2>1. i < j \/ j < i
    OBVIOUS
  <2>. QED BY <1>1, <2>1, AboveFacts
<1>4. rank \in Injection(S, 1 .. n)
  BY <1>2, <1>3 DEF Injection, IsInjective
<1>5. IsFiniteSet(1 .. n) /\ Cardinality(1 .. n) = n
  BY <1>1, FS_Interval
<1>6. rank \in Surjection(S, 1 .. n)
  <2> HIDE DEF rank
  <2>. QED BY <1>4, <1>5, FS_Injection
<1>7. \E i \in S : rank[i] = k
  BY <1>6 DEF Surjection
<1>. QED BY <1>1, <1>7

\* Descending(S) lists S, the largest first.
LEMMA DescendingFacts ==
  ASSUME NEW S \in SUBSET Nat, IsFiniteSet(S)
  PROVE  LET d == Descending(S) IN
         /\ Cardinality(S) \in Nat /\ d \in Seq(S) /\ Len(d) = Cardinality(S)
         /\ \A i \in S : \E k \in 1 .. Len(d) : d[k] = i
         /\ \A k, l \in 1 .. Len(d) : k < l => d[k] > d[l]
<1> DEFINE n == Cardinality(S)
           d == Descending(S)
           rank(i) == Cardinality(Above(S, i))
<1>1. /\ n \in Nat
      /\ \A i \in S : rank(i) \in 0 .. n - 1
      /\ \A i, j \in S : i < j => rank(j) < rank(i)
  BY AboveFacts
<1>2. d = [k \in 1 .. n |-> CHOOSE i \in S : rank(i) = k - 1]
  BY DEF Descending, Above
<1>3. \A k \in 1 .. n : \E i \in S : rank(i) = k - 1
  BY EveryRank
<1> HIDE DEF d, n, rank
<1>4. \A k \in 1 .. n : d[k] \in S /\ rank(d[k]) = k - 1
  BY <1>2, <1>3
<1>5. d \in [1 .. n -> S]
  BY <1>2, <1>4
<1>6. d \in Seq(S) /\ Len(d) = n
  BY <1>1, <1>5
<1>7. ASSUME NEW i \in S PROVE \E k \in 1 .. n : d[k] = i
  <2>1. rank(i) \in 0 .. n - 1 /\ rank(i) + 1 \in 1 .. n
    BY <1>1
  <2>2. d[rank(i) + 1] \in S /\ rank(d[rank(i) + 1]) = rank(i)
    BY <1>4, <2>1
  <2>3. d[rank(i) + 1] = i
    <3> DEFINE j == d[rank(i) + 1]
    <3>1. j \in S /\ rank(j) = rank(i) /\ rank(i) \in Nat
      BY <2>1, <2>2
    <3> HIDE DEF j
    <3>2. ~(i < j) /\ ~(j < i)
      BY <1>1, <3>1
    <3>3. j = i
      BY <3>1, <3>2
    <3>. QED BY <3>3 DEF j
  <2>. QED BY <2>1, <2>3
<1>8. ASSUME NEW k \in 1 .. n, NEW l \in 1 .. n, k < l PROVE d[k] > d[l]
  <2>1. /\ d[k] \in S /\ d[l] \in S /\ d[k] \in Nat /\ d[l] \in Nat
        /\ rank(d[k]) = k - 1 /\ rank(d[l]) = l - 1
    BY <1>4
  <2>2. rank(d[k]) < rank(d[l]) /\ rank(d[k]) \in Nat /\ rank(d[l]) \in Nat
    BY <1>1, <1>8, <2>1
  <2>3. ~(d[k] < d[l]) /\ d[k] # d[l]
    <3>1. d[k] < d[l] => rank(d[l]) < rank(d[k])
      BY <1>1, <2>1
    <3>2. ~(rank(d[l]) < rank(d[k])) /\ rank(d[l]) # rank(d[k])
      BY <2>2
    <3>. QED BY <3>1, <3>2
  <2>. QED BY <2>1, <2>3
<1>. QED BY <1>1, <1>6, <1>7, <1>8 DEF d, n

\* A page is empty only if nothing is left, and what it leaves out is older
\* than all it holds.
LEMMA NewestFacts ==
  ASSUME NEW S \in SUBSET Nat, IsFiniteSet(S)
  PROVE  /\ Newest(S) \subseteq S /\ IsFiniteSet(Newest(S))
         /\ Newest(S) = {} => S = {}
         /\ \A i \in S \ Newest(S), m \in Newest(S) : i < m
<1>1. Newest(S) = {i \in S : Cardinality(Above(S, i)) < PageSize}
  BY DEF Newest, Above
<1>2. Newest(S) \subseteq S /\ IsFiniteSet(Newest(S))
  <2>1. Newest(S) \in SUBSET S
    BY <1>1
  <2>. QED BY <2>1, FS_Subset
<1>3. ASSUME S # {} PROVE Newest(S) # {}
  <2>1. Cardinality(S) \in Nat /\ Cardinality(S) # 0
    BY <1>3, FS_EmptySet, FS_CardinalityType
  <2>2. PICK i \in S : Cardinality(Above(S, i)) = 1 - 1
    BY <2>1, EveryRank
  <2>3. Cardinality(Above(S, i)) < PageSize
    BY <2>2, PageAssumption
  <2>. QED BY <1>1, <2>3
<1>4. ASSUME NEW i \in S \ Newest(S), NEW m \in Newest(S) PROVE i < m
  <2>1. /\ i \in S /\ m \in S /\ i # m
        /\ ~(Cardinality(Above(S, i)) < PageSize)
        /\ Cardinality(Above(S, m)) < PageSize
    BY <1>1
  <2>2. /\ Cardinality(Above(S, i)) \in Nat /\ Cardinality(Above(S, m)) \in Nat
        /\ m < i => Cardinality(Above(S, i)) < Cardinality(Above(S, m))
        /\ PageSize \in Nat
    BY <2>1, AboveFacts, PageAssumption
  <2>. QED BY <2>1, <2>2
<1>. QED BY <1>2, <1>3, <1>4

Seen == {reader.seen[k] : k \in 1 .. Len(reader.seen)}

\* What was shown is in order and not older than the cursor; what is due was
\* shown, or is still below the cursor.
ReaderInv ==
  /\ reader \in [pc : {"idle", "reading", "done"}, tenant : Tenants \cup {None},
                 cursor : Nat, seen : Seq(Nat), due : SUBSET Nat]
  /\ reader.pc = "idle" => reader.seen = <<>> /\ reader.cursor = 0
  /\ \A k, l \in 1 .. Len(reader.seen) : k < l => reader.seen[k] > reader.seen[l]
  /\ \A i \in Seen : 0 < reader.cursor /\ reader.cursor <= i
  /\ reader.pc # "idle" => reader.due \subseteq Own(reader.tenant)
  /\ reader.pc = "reading" => \A i \in reader.due : i \in Seen \/ Below(i, reader.cursor)
  /\ reader.pc = "done" => reader.due \subseteq Seen

\* The rows of a tenant stay its rows.
LEMMA OwnGrows ==
  ASSUME IngestInv, [Next]_vars
  PROVE  \A t : Own(t) \subseteq Own(t)'
<1>1. \A i \in DOMAIN alerts : i \in DOMAIN alerts' /\ alerts'[i].tenant = alerts[i].tenant
  <2>1. CASE alerts' = alerts
    BY <2>1
  <2>2. CASE \E r \in Requests : Commit(r)
    BY <2>2, Committing DEF TableGrows, Key
  <2>. QED BY <2>1, <2>2, TableChanges
<1>. QED BY <1>1 DEF Own

LEMMA OwnIsFinite ==
  ASSUME IngestInv, NEW t, NEW S \in SUBSET Own(t)
  PROVE  S \in SUBSET Nat /\ IsFiniteSet(S) /\ \A i \in S : i > 0
<1>1. lastId \in Nat /\ S \in SUBSET (1 .. lastId)
  BY DEF IngestInv, TablesTyped, Own
<1>2. IsFiniteSet(1 .. lastId)
  BY <1>1, FS_Interval
<1>3. IsFiniteSet(S)
  BY <1>1, <1>2, FS_Subset
<1>. QED BY <1>1, <1>3

\* A page that is not empty.
LEMMA PageStep ==
  ASSUME IngestInv, ReaderInv, Page, alerts' = alerts
  PROVE  ReaderInv'
<1> DEFINE S == {i \in Own(reader.tenant) : Below(i, reader.cursor)}
           N == Newest(S)
           rows == Descending(N)
           n == Len(rows)
           m == Len(reader.seen)
<1>1. /\ reader.pc = "reading" /\ reader.cursor \in Nat /\ reader.seen \in Seq(Nat)
      /\ \A k, l \in 1 .. m : k < l => reader.seen[k] > reader.seen[l]
      /\ \A i \in Seen : 0 < reader.cursor /\ reader.cursor <= i
      /\ reader.due \subseteq Own(reader.tenant)
      /\ \A i \in reader.due : i \in Seen \/ i \in S
      /\ m \in Nat /\ \A k \in 1 .. m : reader.seen[k] \in Seen /\ reader.seen[k] \in Nat
  BY DEF ReaderInv, Page, Seen
<1>2. /\ reader' = IF rows = <<>> THEN [reader EXCEPT !.pc = "done"] ELSE
                   [reader EXCEPT !.seen = @ \o rows, !.cursor = rows[Len(rows)]]
  BY DEF Page
<1>3. S \in SUBSET Nat /\ IsFiniteSet(S)
      /\ \A i \in S : i > 0 /\ (reader.cursor > 0 => i < reader.cursor)
  BY OwnIsFinite DEF Below
<1> HIDE DEF S
<1>4. /\ N \subseteq S /\ IsFiniteSet(N) /\ N \in SUBSET Nat
      /\ N = {} => S = {}
      /\ \A i \in S \ N, j \in N : i < j
  BY <1>3, NewestFacts
<1> HIDE DEF N
<1>5. /\ rows \in Seq(N) /\ n \in Nat
      /\ \A i \in N : \E k \in 1 .. n : rows[k] = i
      /\ \A k, l \in 1 .. n : k < l => rows[k] > rows[l]
      /\ \A k \in 1 .. n : rows[k] \in N /\ rows[k] \in Nat
  <2>1. /\ Cardinality(N) \in Nat /\ rows \in Seq(N) /\ n = Cardinality(N)
        /\ \A i \in N : \E k \in 1 .. n : rows[k] = i
        /\ \A k, l \in 1 .. n : k < l => rows[k] > rows[l]
    BY <1>4, DescendingFacts
  <2> HIDE DEF rows
  <2>2. \A k \in 1 .. Len(rows) : rows[k] \in N
    <3>1. rows \in Seq(N)
      BY <2>1
    <3>. QED BY ONLY <3>1
  <2>3. \A k \in 1 .. Len(rows) : rows[k] \in Nat
    BY <1>4, <2>2
  <2>4. Len(rows) \in Nat
    BY <2>1
  <2>. QED BY <2>1, <2>2, <2>3, <2>4
<1> HIDE DEF rows
<1>6. /\ reader \in [pc : {"idle", "reading", "done"}, tenant : Tenants \cup {None},
                     cursor : Nat, seen : Seq(Nat), due : SUBSET Nat]
      /\ \A t : Own(t)' = Own(t)
  BY DEF ReaderInv, Own
<1>7. CASE rows = <<>>
  <2>1. reader' = [reader EXCEPT !.pc = "done"]
    BY <1>2, <1>7
  <2>2. /\ reader'.pc = "done" /\ reader'.tenant = reader.tenant
        /\ reader'.cursor = reader.cursor /\ reader'.seen = reader.seen
        /\ reader'.due = reader.due
    BY <1>6, <2>1
  <2>3. S = {}
    BY <1>4, <1>5, <1>7
  <2>4. Seen' = Seen
    BY <2>2 DEF Seen
  <2>. QED BY <1>1, <1>6, <2>1, <2>2, <2>3, <2>4 DEF ReaderInv
<1>8. CASE rows # <<>>
  <2> DEFINE all == reader.seen \o rows
             last == rows[n]
  <2>1. reader' = [reader EXCEPT !.seen = all, !.cursor = last]
    BY <1>2, <1>8
  <2>2. n \in 1 .. n
    BY <1>5, <1>8
  <2>3. last \in N /\ last \in Nat /\ last > 0 /\ last \in S
    BY <1>3, <1>4, <1>5, <2>2
  <2>4. rows \in Seq(Nat)
    BY <1>4, <1>5
  <2>5. /\ all \in Seq(Nat) /\ Len(all) = m + n
        /\ \A k \in 1 .. m + n : all[k] = IF k <= m THEN reader.seen[k] ELSE rows[k - m]
    BY <1>1, <2>4, ConcatProperties
  <2> HIDE DEF all, last, m, n
  <2>6. /\ reader'.pc = "reading" /\ reader'.tenant = reader.tenant
        /\ reader'.cursor = last /\ reader'.seen = all /\ reader'.due = reader.due
        /\ reader' \in [pc : {"idle", "reading", "done"}, tenant : Tenants \cup {None},
                        cursor : Nat, seen : Seq(Nat), due : SUBSET Nat]
    BY <1>1, <1>6, <2>1, <2>3, <2>5
  <2>7. Seen' = Seen \cup N
    <3>1. \A k \in 1 .. m + n :
            IF k <= m THEN k \in 1 .. m ELSE k - m \in 1 .. n
      BY <1>1, <1>5
    <3>2. \A k \in 1 .. m + n : all[k] \in Seen \cup N
      BY <1>1, <1>5, <2>5, <3>1
    <3>3. \A k \in 1 .. m : k \in 1 .. m + n /\ k <= m
      BY <1>1, <1>5
    <3>4. \A k \in 1 .. n : k + m \in 1 .. m + n /\ ~(k + m <= m) /\ (k + m) - m = k
      BY <1>1, <1>5
    <3>5. Seen \subseteq {all[k] : k \in 1 .. m + n}
      BY <2>5, <3>3 DEF Seen, m
    <3>6. N \subseteq {all[k] : k \in 1 .. m + n}
      <4> SUFFICES ASSUME NEW i \in N PROVE \E k \in 1 .. m + n : all[k] = i
        OBVIOUS
      <4>1. PICK k \in 1 .. n : rows[k] = i
        BY <1>5
      <4>2. k + m \in 1 .. m + n /\ all[k + m] = rows[k]
        BY <2>5, <3>4
      <4>. QED BY <4>1, <4>2
    <3>7. Seen' = {all[k] : k \in 1 .. m + n}
      BY <2>5, <2>6 DEF Seen
    <3>. QED BY <3>2, <3>5, <3>6, <3>7
  <2>8. \A i \in N : last <= i
    <3> SUFFICES ASSUME NEW i \in N PROVE last <= i
      OBVIOUS
    <3>1. PICK k \in 1 .. n : rows[k] = i
      BY <1>5
    <3>2. k < n \/ k = n
      BY <1>5
    <3>. QED BY <1>5, <2>2, <2>3, <3>1, <3>2 DEF last
  <2>9. \A i \in Seen' : 0 < last /\ last <= i
    <3>1. ASSUME NEW i \in Seen PROVE last <= i
      <4>1. 0 < reader.cursor /\ reader.cursor <= i /\ last < reader.cursor
        BY <1>1, <1>3, <2>3
      <4>2. i \in Nat
        BY <1>1 DEF Seen, m
      <4>. QED BY <1>1, <2>3, <4>1, <4>2
    <3>. QED BY <2>3, <2>7, <2>8, <3>1
  <2>10. \A k, l \in 1 .. m + n : k < l => all[k] > all[l]
    <3> SUFFICES ASSUME NEW k \in 1 .. m + n, NEW l \in 1 .. m + n, k < l
                 PROVE  all[k] > all[l]
      OBVIOUS
    <3>1. CASE l <= m
      <4>1. k \in 1 .. m /\ l \in 1 .. m /\ k <= m
        BY <1>1, <1>5, <3>1
      <4>. QED BY <1>1, <2>5, <3>1, <4>1
    <3>2. CASE k <= m /\ ~(l <= m)
      <4>1. k \in 1 .. m /\ l - m \in 1 .. n
        BY <1>1, <1>5, <3>2
      <4>2. all[k] = reader.seen[k] /\ all[l] = rows[l - m]
        BY <2>5, <3>2
      <4>3. /\ reader.seen[k] \in Seen /\ reader.seen[k] \in Nat
            /\ rows[l - m] \in N /\ rows[l - m] \in Nat
        BY <1>1, <1>5, <4>1
      <4>4. rows[l - m] < reader.cursor /\ reader.cursor <= reader.seen[k]
        BY <1>1, <1>3, <1>4, <4>3
      <4>. QED BY <1>1, <4>2, <4>3, <4>4
    <3>3. CASE ~(k <= m) /\ ~(l <= m)
      <4>1. k - m \in 1 .. n /\ l - m \in 1 .. n /\ k - m < l - m
        BY <1>1, <1>5, <3>3
      <4>2. all[k] = rows[k - m] /\ all[l] = rows[l - m]
        BY <2>5, <3>3
      <4>. QED BY <1>5, <4>1, <4>2
    <3>4. (k <= m) \/ ~(l <= m)
      BY <1>1, <1>5
    <3>. QED BY <3>1, <3>2, <3>3, <3>4
  <2>11. ASSUME NEW i \in reader.due PROVE i \in Seen' \/ Below(i, last)
    <3>1. CASE i \in Seen
      BY <2>7, <3>1
    <3>2. CASE i \in N
      BY <2>7, <3>2
    <3>3. CASE i \in S \ N
      BY <1>4, <2>3, <3>3 DEF Below
    <3>. QED BY <1>1, <3>1, <3>2, <3>3
  <2>. QED BY <1>1, <1>6, <2>5, <2>6, <2>9, <2>10, <2>11 DEF ReaderInv, Below
<1>. QED BY <1>7, <1>8

\* A client that follows the cursor to the end has seen every alert that was
\* there when it began, newest first and none twice, whatever is committed
\* meanwhile and in whatever order of ids.
THEOREM PagesAreComplete == Spec => []PagesComplete
<1>1. Init => ReaderInv
  <2> SUFFICES ASSUME Init PROVE ReaderInv
    OBVIOUS
  <2>1. reader = [pc |-> "idle", tenant |-> None, cursor |-> 0, seen |-> <<>>, due |-> {}]
    BY DEF Init
  <2>. QED BY <2>1 DEF ReaderInv, Seen
<1>2. IngestInv /\ ReaderInv /\ [Next]_vars => ReaderInv'
  <2> SUFFICES ASSUME IngestInv, ReaderInv, [Next]_vars PROVE ReaderInv'
    OBVIOUS
  <2>1. CASE UNCHANGED reader
    <3>1. Seen' = Seen
      BY <2>1 DEF Seen
    <3>2. \A t : Own(t) \subseteq Own(t)'
      BY OwnGrows
    <3>. QED BY <2>1, <3>1, <3>2 DEF ReaderInv, Below
  <2>2. CASE \E r \in Requests : Handle(r)
    <3>1. PICK r \in Requests : Handle(r)
      BY <2>2
    <3>2. UNCHANGED reader
      BY <3>1 DEF Handle, Select, Bulk, BulkRaises, Lookup, Write, WriteRaises, Commit, Die
    <3>. QED BY <2>1, <3>2
  <2>3. ASSUME NEW t \in Tenants, StartReading(t) PROVE ReaderInv'
    <3>1. /\ reader.pc = "idle" /\ reader.seen = <<>> /\ reader.cursor = 0
          /\ reader' = [reader EXCEPT !.pc = "reading", !.tenant = t, !.due = Own(t)]
          /\ alerts' = alerts
      BY <2>3 DEF StartReading, ReaderInv, table
    <3>2. Own(t) \in SUBSET Nat /\ Own(t)' = Own(t)
      BY <3>1, OwnIsFinite DEF Own
    <3>3. /\ reader'.pc = "reading" /\ reader'.seen = <<>> /\ reader'.cursor = 0
          /\ reader'.due = Own(t) /\ reader'.tenant = t
          /\ reader' \in [pc : {"idle", "reading", "done"}, tenant : Tenants \cup {None},
                          cursor : Nat, seen : Seq(Nat), due : SUBSET Nat]
      BY <3>1, <3>2 DEF ReaderInv
    <3>4. Seen' = {}
      BY <3>3 DEF Seen
    <3>. QED BY <3>2, <3>3, <3>4 DEF ReaderInv, Below
  <2>4. CASE Page
    <3>1. alerts' = alerts
      BY <2>4 DEF Page, table
    <3>. QED BY <2>4, <3>1, PageStep
  <2>5. CASE (\E t \in Tenants : CreateSensorToken(t)) \/ UNCHANGED vars
    BY <2>1, <2>5 DEF CreateSensorToken, vars
  <2>. QED BY <2>2, <2>3, <2>4, <2>5 DEF Next
<1>3. ReaderInv => PagesComplete
  <2> SUFFICES ASSUME ReaderInv PROVE PagesComplete
    OBVIOUS
  <2>1. /\ reader.seen \in Seq(Nat) /\ Len(reader.seen) \in Nat
        /\ DOMAIN reader.seen = 1 .. Len(reader.seen)
    BY DEF ReaderInv
  <2>2. ASSUME NEW k \in 1 .. Len(reader.seen) - 1
        PROVE  reader.seen[k] > reader.seen[k + 1]
    <3>1. k \in 1 .. Len(reader.seen) /\ k + 1 \in 1 .. Len(reader.seen) /\ k < k + 1
      BY <2>1
    <3>. QED BY <3>1 DEF ReaderInv
  <2>. QED BY <2>1, <2>2 DEF PagesComplete, ReaderInv, Seen
<1>. QED BY <1>1, <1>2, <1>3, RequestsAreSound, PTL DEF Spec

-----------------------------------------------------------------------------
(* Ingestion and listing are not disturbed by the other parts *)

LEMMA IngestsOrNot ==
  ASSUME [ApiNext]_apiVars
  PROVE  [Next]_vars
<1>1. CASE part = "requests" /\ Serve
  <2>1. CASE \E t \in Tenants : CreateSensorToken(t) \/ StartReading(t)
    BY <2>1 DEF Next
  <2>2. CASE Page \/ \E r \in Requests : Handle(r)
    BY <2>2 DEF Next
  <2>3. CASE UNCHANGED vars \/ UNCHANGED requests
    BY <2>3 DEF requests
  <2>. QED BY <1>1, <2>1, <2>2, <2>3 DEF Serve
<1>2. CASE UNCHANGED requests
  BY <1>2 DEF requests
<1>3. CASE UNCHANGED apiVars
  BY <1>3 DEF apiVars, requests
<1>4. CASE Terminal(C!Environment \/ C!Poll)
  BY <1>2, <1>4 DEF Terminal
<1>. QED BY <1>1, <1>2, <1>3, <1>4 DEF ApiNext

\* Every behaviour of the API is one of the ingest endpoint.
THEOREM ApiIngests == ApiSpec => Spec
<1>1. ApiInit => Init
  BY DEF ApiInit
<1>2. [ApiNext]_apiVars => [Next]_vars
  BY IngestsOrNot
<1>. QED BY <1>1, <1>2, PTL DEF ApiSpec, Spec

\* So what was proved of the endpoint holds of the API.
THEOREM ApiKeepsAlerts == ApiSpec => KeepsContract /\ OwnRowsOnly /\ []PagesComplete
BY ApiIngests, IngestKeepsContract, RowsAreWrittenByTheirOwner, PagesAreComplete

-----------------------------------------------------------------------------
(* Triage *)

\* What a triage request knows once it is under way; a row that was read is
\* still there, for rows are not deleted.
TriageState ==
  [pc : {"idle", "commit", "raised", "audit", "answered"},
   incident : Incidents \cup {None}, new : T!Row \cup {None}, row : T!Row \cup {None}]

TriageInv ==
  /\ triage \in [Incidents -> T!Row \cup {None}] /\ audit \in Seq(T!Entry)
  /\ treq \in [Requests -> TriageState] /\ failures \in 0 .. MaxFailures
  /\ \A r \in Requests :
       treq[r].pc # "idle" =>
         /\ treq[r].incident \in Incidents /\ treq[r].new \in T!Row
         /\ treq[r].pc = "commit" /\ treq[r].row # None => triage[treq[r].incident] # None
         /\ treq[r].pc = "audit" => triage[treq[r].incident] # None
  /\ T!StatusIsAudited /\ T!ActorSetStatus

LEMMA TriageInit ==
  ASSUME T!Init
  PROVE  TriageInv
<1>1. /\ triage = Rows /\ audit = Log /\ failures = 0 /\ mixed = {}
      /\ treq = [r \in Requests |-> [pc |-> "idle", incident |-> None,
                                    new |-> None, row |-> None]]
  BY DEF T!Init, T!Idle
<1>2. /\ treq \in [Requests -> TriageState] /\ \A r \in Requests : treq[r].pc = "idle"
  BY <1>1 DEF TriageState
<1>3. T!StatusIsAudited
  BY <1>1, ApiAssumption DEF T!StatusIsAudited, T!TriageAssumption
<1>4. T!ActorSetStatus
  BY <1>1 DEF T!ActorSetStatus
<1>. QED BY <1>1, <1>2, <1>3, <1>4, ApiAssumption DEF TriageInv, T!TriageAssumption

LEMMA TriageSelect ==
  ASSUME TriageInv, NEW r \in Requests, T!Select(r)
  PROVE  TriageInv'
<1>1. /\ treq[r].pc = "idle" /\ UNCHANGED <<triage, audit, failures, mixed>>
      /\ \E i \in Incidents, row \in T!Row :
           treq' = [treq EXCEPT ![r] = [pc |-> "commit", incident |-> i,
                                        new |-> row, row |-> triage[i]]]
  BY DEF T!Select, T!At
<1>2. PICK i \in Incidents, row \in T!Row :
        treq' = [treq EXCEPT ![r] = [pc |-> "commit", incident |-> i,
                                     new |-> row, row |-> triage[i]]]
  BY <1>1
<1> DEFINE new == [pc |-> "commit", incident |-> i, new |-> row, row |-> triage[i]]
<1>3. new \in TriageState
  BY DEF TriageInv, TriageState
<1>4. /\ treq' \in [Requests -> TriageState] /\ treq'[r] = new
      /\ \A q \in Requests \ {r} : treq'[q] = treq[q]
  BY <1>2, <1>3 DEF TriageInv
<1>5. T!StatusIsAudited'
  BY <1>1, <1>4 DEF TriageInv, T!StatusIsAudited, T!At
<1>6. T!ActorSetStatus'
  BY <1>1, <1>4 DEF TriageInv, T!ActorSetStatus
<1>. QED BY <1>1, <1>4, <1>5, <1>6 DEF TriageInv

\* A request that wrote its columns over the row it had read.
LEMMA UpdatedFacts ==
  ASSUME NEW row \in T!Row, NEW read \in T!Row, NEW new \in T!Row
  PROVE  /\ T!Updated(row, read, new) \in T!Row
         /\ T!Updated(row, row, new) = new
         /\ T!Updated(row, read, new).status \in {row.status, new.status}
<1>1. /\ new = [status |-> new.status, actor |-> new.actor]
      /\ row.status \in Statuses /\ row.actor \in Users
      /\ new.status \in Statuses /\ new.actor \in Users
  BY DEF T!Row
<1>2. DOMAIN new = {"status", "actor"}
  BY <1>1
<1>3. \A old : T!Updated(row, old, new) =
        [status |-> IF new.status = old.status THEN row.status ELSE new.status,
         actor |-> IF new.actor = old.actor THEN row.actor ELSE new.actor]
  BY <1>2 DEF T!Updated
<1>. QED BY <1>1, <1>3 DEF T!Row

LEMMA TriageCommit ==
  ASSUME TriageInv, NEW r \in Requests, T!Commit(r)
  PROVE  TriageInv'
<1> DEFINE i == treq[r].incident
           Insert == /\ treq[r].row = None /\ triage[i] = None
                     /\ triage' = [triage EXCEPT ![i] = treq[r].new]
                     /\ treq' = [treq EXCEPT ![r].pc = "audit"] /\ mixed' = mixed
           Update == /\ treq[r].row # None
                     /\ triage' = [triage EXCEPT ![i] =
                                     T!Updated(triage[i], treq[r].row, treq[r].new)]
                     /\ mixed' = IF triage[i] = treq[r].row THEN mixed ELSE mixed \cup {i}
                     /\ treq' = [treq EXCEPT ![r].pc = "audit"]
           Raise == /\ treq' = [treq EXCEPT ![r].pc = "raised"]
                    /\ UNCHANGED <<triage, mixed>>
<1>1. /\ treq[r].pc = "commit" /\ UNCHANGED <<audit, failures>>
      /\ Raise \/ Insert \/ Update
  BY DEF T!Commit, T!At, T!Goto
<1>2. /\ i \in Incidents /\ treq[r].new \in T!Row /\ treq[r].row \in T!Row \cup {None}
      /\ triage[i] \in T!Row \cup {None} /\ None \notin T!Row
      /\ treq[r].row # None => triage[i] # None
  BY <1>1, ApiAssumption DEF TriageInv, TriageState, T!TriageAssumption
<1>3. /\ treq' \in [Requests -> TriageState] /\ treq'[r].pc \in {"raised", "audit"}
      /\ treq'[r].incident = i /\ treq'[r].new = treq[r].new
      /\ \A q \in Requests \ {r} : treq'[q] = treq[q]
  BY <1>1 DEF TriageInv, TriageState
<1>4. CASE Raise
  <2>1. T!StatusIsAudited'
    BY <1>1, <1>3, <1>4 DEF TriageInv, T!StatusIsAudited, T!At
  <2>2. T!ActorSetStatus'
    BY <1>1, <1>3, <1>4 DEF TriageInv, T!ActorSetStatus
  <2>. QED BY <1>1, <1>2, <1>3, <1>4, <2>1, <2>2 DEF TriageInv
<1>5. CASE Insert \/ Update
  <2>1. treq' = [treq EXCEPT ![r].pc = "audit"] /\ treq'[r].pc = "audit"
    BY <1>5 DEF TriageInv, TriageState
  <2>2. PICK row \in T!Row :
          /\ triage' = [triage EXCEPT ![i] = row]
          /\ row.status = treq[r].new.status \/ (triage[i] # None /\ row.status = triage[i].status)
          /\ \/ row = treq[r].new /\ mixed' = mixed
             \/ mixed' = mixed \cup {i}
    <3>1. CASE Insert
      BY <1>2, <3>1
    <3>2. CASE Update
      <4> DEFINE row == T!Updated(triage[i], treq[r].row, treq[r].new)
      <4>1. /\ row \in T!Row /\ row.status \in {triage[i].status, treq[r].new.status}
            /\ triage[i] = treq[r].row => row = treq[r].new
        <5>1. /\ triage[i] \in T!Row /\ treq[r].row \in T!Row /\ treq[r].new \in T!Row
          BY <1>2, <3>2
        <5> HIDE DEF i
        <5>2. /\ row \in T!Row /\ row.status \in {triage[i].status, treq[r].new.status}
              /\ T!Updated(triage[i], triage[i], treq[r].new) = treq[r].new
          BY ONLY <5>1, UpdatedFacts
        <5>. QED BY <5>2
      <4>2. triage' = [triage EXCEPT ![i] = row] /\ triage[i] # None
            /\ mixed' = IF triage[i] = treq[r].row THEN mixed ELSE mixed \cup {i}
        BY <1>2, <3>2
      <4> HIDE DEF row
      <4>. QED BY <4>1, <4>2
    <3>. QED BY <1>5, <3>1, <3>2
  <2>3. /\ triage' \in [Incidents -> T!Row \cup {None}] /\ triage'[i] = row
        /\ \A j \in Incidents \ {i} : triage'[j] = triage[j]
        /\ row # None
    BY <1>2, <2>2 DEF TriageInv
  <2> HIDE DEF Insert, Update, Raise, i
  <2>4. T!StatusIsAudited'
    <3> SUFFICES ASSUME NEW j \in Incidents
                 PROVE  \/ triage'[j] = None \/ failures' > 0
                        \/ \E k \in DOMAIN audit' :
                             audit'[k].incident = j /\ audit'[k].status = triage'[j].status
                        \/ \E q \in Requests :
                             /\ treq'[q].pc = "audit" /\ treq'[q].incident = j
                             /\ treq'[q].new.status = triage'[j].status
      BY DEF T!StatusIsAudited, T!At
    <3>1. \/ triage[j] = None \/ failures > 0
          \/ \E k \in DOMAIN audit :
               audit[k].incident = j /\ audit[k].status = triage[j].status
          \/ \E q \in Requests :
               /\ treq[q].pc = "audit" /\ treq[q].incident = j
               /\ treq[q].new.status = triage[j].status
      BY DEF TriageInv, T!StatusIsAudited, T!At
    <3>2. CASE j = i /\ row.status = treq[r].new.status
      BY <1>3, <2>1, <2>3, <3>2
    <3>3. CASE j = i /\ row.status # treq[r].new.status
      <4>1. triage[j] # None /\ triage'[j].status = triage[j].status
        BY <2>2, <2>3, <3>3
      <4>2. \A q \in Requests : treq[q].pc = "audit" => treq'[q] = treq[q]
        BY <1>1, <1>3
      <4>. QED BY <1>1, <3>1, <4>1, <4>2
    <3>4. CASE j # i
      <4>1. triage'[j] = triage[j]
        BY <2>3, <3>4
      <4>2. \A q \in Requests : treq[q].pc = "audit" => treq'[q] = treq[q]
        BY <1>1, <1>3
      <4>. QED BY <1>1, <3>1, <4>1, <4>2
    <3>. QED BY <3>2, <3>3, <3>4
  <2>5. T!ActorSetStatus'
    <3> SUFFICES ASSUME NEW j \in Incidents, j \notin mixed'
                 PROVE  \/ triage'[j] \in {None, Rows[j]}
                        \/ \E q \in Requests :
                             /\ treq'[q].pc \in {"audit", "answered"}
                             /\ treq'[q].incident = j /\ treq'[q].new = triage'[j]
      BY DEF T!ActorSetStatus
    <3>1. CASE j = i
      BY <1>3, <2>1, <2>2, <2>3, <3>1
    <3>2. CASE j # i
      <4>1. j \notin mixed /\ triage'[j] = triage[j]
        BY <2>2, <2>3, <3>2
      <4>2. \A q \in Requests : treq[q].pc \in {"audit", "answered"} => treq'[q] = treq[q]
        BY <1>1, <1>3
      <4>. QED BY <4>1, <4>2 DEF TriageInv, T!ActorSetStatus
    <3>. QED BY <3>1, <3>2
  <2>6. ASSUME NEW q \in Requests, treq'[q].pc # "idle"
        PROVE  /\ treq'[q].incident \in Incidents /\ treq'[q].new \in T!Row
               /\ treq'[q].pc = "commit" /\ treq'[q].row # None
                    => triage'[treq'[q].incident] # None
               /\ treq'[q].pc = "audit" => triage'[treq'[q].incident] # None
    <3>1. CASE q = r
      BY <1>2, <1>3, <2>1, <2>3, <3>1
    <3>2. CASE q # r
      <4>1. treq'[q] = treq[q]
        BY <1>3, <3>2
      <4>. QED BY <2>3, <2>6, <4>1 DEF TriageInv
    <3>. QED BY <3>1, <3>2
  <2>. QED BY <1>1, <1>3, <2>3, <2>4, <2>5, <2>6 DEF TriageInv
<1>. QED BY <1>1, <1>4, <1>5

LEMMA TriageRecord ==
  ASSUME TriageInv, NEW r \in Requests, T!Record(r)
  PROVE  TriageInv'
<1> DEFINE entry == [incident |-> treq[r].incident, status |-> treq[r].new.status,
                     actor |-> treq[r].new.actor]
<1>1. /\ treq[r].pc = "audit" /\ treq' = [treq EXCEPT ![r].pc = "answered"]
      /\ UNCHANGED <<triage, mixed>>
      /\ \/ audit' = Append(audit, entry) /\ UNCHANGED failures
         \/ failures < MaxFailures /\ failures' = failures + 1 /\ UNCHANGED audit
  BY DEF T!Record, T!Recorded, T!At, T!Goto
<1>2. /\ treq[r].incident \in Incidents /\ treq[r].new \in T!Row
      /\ MaxFailures \in Nat /\ failures \in 0 .. MaxFailures /\ audit \in Seq(T!Entry)
  BY <1>1, ApiAssumption DEF TriageInv, T!TriageAssumption
<1>3. entry \in T!Entry /\ entry.incident = treq[r].incident
      /\ entry.status = treq[r].new.status
  BY <1>2 DEF T!Row, T!Entry
<1> HIDE DEF entry
<1>4. /\ treq' \in [Requests -> TriageState] /\ treq'[r].pc = "answered"
      /\ treq'[r].incident = treq[r].incident /\ treq'[r].new = treq[r].new
      /\ \A q \in Requests \ {r} : treq'[q] = treq[q]
  BY <1>1 DEF TriageInv, TriageState
<1>5. /\ audit' \in Seq(T!Entry) /\ failures' \in 0 .. MaxFailures
      /\ failures > 0 => failures' > 0
      /\ \A k \in DOMAIN audit : k \in DOMAIN audit' /\ audit'[k] = audit[k]
      /\ failures' > 0 \/ \E k \in DOMAIN audit' : audit'[k] = entry
  <2>1. CASE audit' = Append(audit, entry) /\ UNCHANGED failures
    <3>1. /\ audit' \in Seq(T!Entry) /\ Len(audit') = Len(audit) + 1
          /\ audit'[Len(audit) + 1] = entry
          /\ \A k \in 1 .. Len(audit) : audit'[k] = audit[k]
      BY <1>2, <1>3, <2>1, AppendProperties
    <3>2. Len(audit) \in Nat /\ DOMAIN audit = 1 .. Len(audit)
          /\ DOMAIN audit' = 1 .. Len(audit) + 1
      BY <1>2, <3>1
    <3>3. Len(audit) + 1 \in DOMAIN audit' /\ DOMAIN audit \subseteq DOMAIN audit'
      BY <3>2
    <3>. QED BY <1>2, <2>1, <3>1, <3>2, <3>3
  <2>2. CASE failures < MaxFailures /\ failures' = failures + 1 /\ UNCHANGED audit
    BY <1>2, <2>2
  <2>. QED BY <1>1, <2>1, <2>2
<1>6. T!StatusIsAudited'
  <2> SUFFICES ASSUME NEW j \in Incidents
               PROVE  \/ triage'[j] = None \/ failures' > 0
                      \/ \E k \in DOMAIN audit' :
                           audit'[k].incident = j /\ audit'[k].status = triage'[j].status
                      \/ \E q \in Requests :
                           /\ treq'[q].pc = "audit" /\ treq'[q].incident = j
                           /\ treq'[q].new.status = triage'[j].status
    BY DEF T!StatusIsAudited, T!At
  <2>1. \/ triage[j] = None \/ failures > 0
        \/ \E k \in DOMAIN audit :
             audit[k].incident = j /\ audit[k].status = triage[j].status
        \/ \E q \in Requests :
             /\ treq[q].pc = "audit" /\ treq[q].incident = j
             /\ treq[q].new.status = triage[j].status
    BY DEF TriageInv, T!StatusIsAudited, T!At
  <2>2. triage' = triage
    BY <1>1
  <2>3. CASE triage[j] = None \/ failures > 0
    BY <1>5, <2>2, <2>3
  <2>4. CASE \E k \in DOMAIN audit :
               audit[k].incident = j /\ audit[k].status = triage[j].status
    BY <1>5, <2>2, <2>4
  <2>5. ASSUME NEW q \in Requests, treq[q].pc = "audit", treq[q].incident = j,
               treq[q].new.status = triage[j].status
        PROVE  \/ failures' > 0
               \/ \E k \in DOMAIN audit' :
                    audit'[k].incident = j /\ audit'[k].status = triage'[j].status
               \/ \E p \in Requests :
                    /\ treq'[p].pc = "audit" /\ treq'[p].incident = j
                    /\ treq'[p].new.status = triage'[j].status
    <3>1. CASE q = r
      BY <1>3, <1>5, <2>2, <2>5, <3>1
    <3>2. CASE q # r
      BY <1>4, <2>2, <2>5, <3>2
    <3>. QED BY <3>1, <3>2
  <2>. QED BY <2>1, <2>3, <2>4, <2>5
<1>7. T!ActorSetStatus'
  <2>1. \A q \in Requests :
          treq[q].pc \in {"audit", "answered"} =>
            /\ treq'[q].pc \in {"audit", "answered"}
            /\ treq'[q].incident = treq[q].incident /\ treq'[q].new = treq[q].new
    BY <1>4
  <2>. QED BY <1>1, <2>1 DEF TriageInv, T!ActorSetStatus
<1>. QED BY <1>1, <1>4, <1>5, <1>6, <1>7 DEF TriageInv

LEMMA TriageStep ==
  ASSUME TriageInv, [ApiNext]_apiVars
  PROVE  TriageInv'
<1>1. CASE \E r \in Requests : T!Handle(r)
  BY <1>1, TriageSelect, TriageCommit, TriageRecord DEF T!Handle
<1>2. CASE UNCHANGED triageVars
  BY <1>2 DEF triageVars, TriageInv, T!StatusIsAudited, T!ActorSetStatus, T!At
<1>3. CASE part = "requests" /\ Serve
  BY <1>1, <1>2, <1>3 DEF Serve, requests
<1>4. CASE UNCHANGED requests
  BY <1>2, <1>4 DEF requests
<1>5. CASE UNCHANGED apiVars
  BY <1>2, <1>5 DEF apiVars, requests
<1>6. CASE Terminal(C!Environment \/ C!Poll)
  BY <1>4, <1>6 DEF Terminal
<1>. QED BY <1>3, <1>4, <1>5, <1>6 DEF ApiNext

\* However triage requests overlap, with each other and with ingestion, the
\* status of an incident was set by somebody the audit trail names (or will
\* name), and by the actor its row names unless a request wrote over a row
\* that had changed since it was read.
THEOREM OverlapsAreSound == ApiSpec => []RequestsSound
<1>1. ApiInit => TriageInv
  BY TriageInit DEF ApiInit
<1>2. TriageInv /\ [ApiNext]_apiVars => TriageInv'
  BY TriageStep
<1>3. TriageInv => T!StatusIsAudited /\ T!ActorSetStatus
  BY DEF TriageInv
<1>4. ApiSpec => []TypeOK
  BY ApiIngests, IngestTyped
<1>5. ApiSpec => []TriageInv
  BY <1>1, <1>2, PTL DEF ApiSpec
<1>. QED BY <1>3, <1>4, <1>5, PTL DEF RequestsSound

-----------------------------------------------------------------------------
(* Consoles *)

\* An answer that was cached is of the tenant in its key.
CacheIsOwn ==
  \A t \in Tenants, r \in C!Reads :
    cache[<<t, r>>] # None => cache[<<t, r>>].of = t

ConsoleInv ==
  /\ C!TypeOK /\ C!HealthIsNews /\ C!OwnTenantOnly /\ CacheIsOwn
  /\ DOMAIN cache = Tenants \X C!Reads /\ DOMAIN page = Sessions

LEMMA ConsoleInit ==
  ASSUME C!Init
  PROVE  ConsoleInv
<1>1. C!TypeOK
  <2>1. stored = [t \in Tenants |-> 0] /\ 0 \in 0 .. MaxAlerts
    BY ListAssumption DEF C!Init, C!Nothing
  <2>2. /\ api \in C!Answers /\ poller = "alerts" /\ healthy = FALSE
        /\ token \in [Sessions -> Tenants \cup {None}]
    BY DEF C!Init
  <2>. QED BY <2>1, <2>2 DEF C!TypeOK
<1>2. C!HealthIsNews
  BY DEF C!Init, C!HealthIsNews
<1>3. C!OwnTenantOnly
  BY DEF C!Init, C!OwnTenantOnly, C!Blank
<1>4. /\ DOMAIN cache = Tenants \X C!Reads /\ DOMAIN page = Sessions
      /\ \A k \in Tenants \X C!Reads : cache[k] = None
  BY DEF C!Init
<1>5. CacheIsOwn
  BY <1>4 DEF CacheIsOwn
<1>. QED BY <1>1, <1>2, <1>3, <1>4, <1>5 DEF ConsoleInv

LEMMA EnvironmentStep ==
  ASSUME ConsoleInv, C!Environment
  PROVE  ConsoleInv'
<1>1. /\ UNCHANGED <<poller, shown, healthy, round, token, cache, page>>
      /\ \/ api' \in C!Answers /\ UNCHANGED stored
         \/ \E t \in Tenants : /\ stored[t] < MaxAlerts
                               /\ stored' = [stored EXCEPT ![t] = @ + 1]
                               /\ UNCHANGED api
  BY DEF C!Environment, C!manager, C!sessions
<1>2. api' \in C!Answers /\ stored' \in [Tenants -> 0 .. MaxAlerts]
  <2>1. api \in C!Answers /\ stored \in [Tenants -> 0 .. MaxAlerts]
    BY DEF ConsoleInv, C!TypeOK
  <2>2. ASSUME NEW t \in Tenants, stored[t] < MaxAlerts,
               stored' = [stored EXCEPT ![t] = stored[t] + 1]
        PROVE  stored' \in [Tenants -> 0 .. MaxAlerts]
    <3>1. stored[t] + 1 \in 0 .. MaxAlerts
      BY <2>1, <2>2, ListAssumption
    <3>. QED BY <2>1, <2>2, <3>1
  <2>. QED BY <1>1, <2>1, <2>2
<1>. QED BY <1>1, <1>2 DEF ConsoleInv, C!TypeOK, C!HealthIsNews, C!OwnTenantOnly, CacheIsOwn

LEMMA PollStep ==
  ASSUME ConsoleInv, C!Poll
  PROVE  ConsoleInv'
<1>1. UNCHANGED <<api, stored, token, cache, page>>
  BY DEF C!Poll, C!FetchAlerts, C!FetchStats, C!Sleep, C!sessions
<1>2. /\ poller' \in {"alerts", "stats", "sleep", "ended"} /\ healthy' \in BOOLEAN
      /\ round' \in {"refusing", "down"} => ~healthy'
      /\ round' = "ok" => healthy'
  <2>1. /\ poller \in {"alerts", "stats", "sleep", "ended"} /\ healthy \in BOOLEAN
        /\ round \in {"refusing", "down"} => ~healthy
        /\ round = "ok" => healthy
        /\ api \in {"ok", "odd", "refusing", "down"}
    BY DEF ConsoleInv, C!TypeOK, C!HealthIsNews, C!Answers
  <2>2. CASE C!FetchAlerts
    BY <2>1, <2>2 DEF C!FetchAlerts, C!Health, C!AfterError
  <2>3. CASE C!FetchStats
    BY <2>1, <2>3 DEF C!FetchStats, C!AfterError
  <2>4. CASE C!Sleep
    BY <2>1, <2>4 DEF C!Sleep
  <2>. QED BY <2>2, <2>3, <2>4 DEF C!Poll
<1>. QED BY <1>1, <1>2 DEF ConsoleInv, C!TypeOK, C!HealthIsNews, C!OwnTenantOnly, CacheIsOwn

\* What a session is answered is its own tenant's, cached or not.
LEMMA AnswerIsOwn ==
  ASSUME ConsoleInv, NEW s \in Sessions, token[s] # None, NEW r \in C!Reads
  PROVE  /\ C!Key(s, r) \in DOMAIN cache
         /\ C!Answer(s, r) # None => C!Answer(s, r).of = token[s]
<1>1. token[s] \in Tenants
  BY DEF ConsoleInv, C!TypeOK
<1>2. cache[<<token[s], r>>] # None => cache[<<token[s], r>>].of = token[s]
  BY <1>1 DEF ConsoleInv, CacheIsOwn
<1>3. <<token[s], r>> \in DOMAIN cache
  BY <1>1 DEF ConsoleInv
<1>. QED BY <1>2, <1>3 DEF C!Answer, C!Key

LEMMA RenderStep ==
  ASSUME ConsoleInv, NEW s \in Sessions, C!Render(s)
  PROVE  ConsoleInv'
<1> DEFINE alerts0 == C!Answer(s, "alerts")
           stats0 == IF alerts0 = None THEN None ELSE C!Answer(s, "stats")
<1>1. /\ token[s] # None /\ UNCHANGED <<api, stored, poller, shown, healthy, round, token>>
      /\ cache' = [k \in DOMAIN cache |->
                     IF k = C!Key(s, "alerts") /\ alerts0 # None THEN alerts0
                     ELSE IF k = C!Key(s, "stats") /\ stats0 # None THEN stats0
                     ELSE cache[k]]
      /\ page' = [page EXCEPT ![s] =
                    IF stats0 = None THEN C!Blank
                    ELSE [healthy |-> TRUE, of |-> alerts0.of, count |-> alerts0.count]]
  BY DEF C!Render, C!manager
<1>2. /\ "alerts" \in C!Reads /\ "stats" \in C!Reads
  BY DEF C!Reads
<1>3. /\ alerts0 # None => alerts0.of = token[s]
      /\ stats0 # None => stats0.of = token[s] /\ alerts0 # None
      /\ DOMAIN cache = Tenants \X C!Reads /\ DOMAIN page = Sessions
  BY <1>1, <1>2, AnswerIsOwn DEF ConsoleInv
<1> HIDE DEF alerts0, stats0
<1>4. DOMAIN cache' = Tenants \X C!Reads /\ DOMAIN page' = Sessions
  BY <1>1, <1>3
<1>5. CacheIsOwn'
  <2> SUFFICES ASSUME NEW t \in Tenants, NEW r \in C!Reads, cache'[<<t, r>>] # None
               PROVE  cache'[<<t, r>>].of = t
    BY DEF CacheIsOwn
  <2>1. cache'[<<t, r>>] =
          IF <<t, r>> = C!Key(s, "alerts") /\ alerts0 # None THEN alerts0
          ELSE IF <<t, r>> = C!Key(s, "stats") /\ stats0 # None THEN stats0
          ELSE cache[<<t, r>>]
    BY <1>1, <1>3
  <2>2. \A x : <<t, r>> = C!Key(s, x) => t = token[s]
    BY DEF C!Key
  <2>3. cache[<<t, r>>] # None => cache[<<t, r>>].of = t
    BY DEF ConsoleInv, CacheIsOwn
  <2>. QED BY <1>3, <2>1, <2>2, <2>3
<1>6. C!OwnTenantOnly'
  <2> SUFFICES ASSUME NEW q \in Sessions, page'[q].of # None
               PROVE  page'[q].of = token[q]
    BY <1>1 DEF C!OwnTenantOnly
  <2>1. CASE q = s
    BY <1>1, <1>3, <2>1 DEF C!Blank
  <2>2. CASE q # s
    <3>1. page'[q] = page[q]
      BY <1>1, <1>3, <2>2
    <3>. QED BY <3>1 DEF ConsoleInv, C!OwnTenantOnly
  <2>. QED BY <2>1, <2>2
<1>7. C!TypeOK' /\ C!HealthIsNews'
  BY <1>1 DEF ConsoleInv, C!TypeOK, C!HealthIsNews
<1>. QED BY <1>4, <1>5, <1>6, <1>7 DEF ConsoleInv

LEMMA BrowseStep ==
  ASSUME ConsoleInv, C!Browse
  PROVE  ConsoleInv'
<1>1. ASSUME NEW s \in Sessions, NEW t \in Tenants \cup {None}, C!Login(s, t)
      PROVE  ConsoleInv'
  <2>1. /\ token' = [token EXCEPT ![s] = t] /\ page' = [page EXCEPT ![s] = C!Blank]
        /\ UNCHANGED <<api, stored, poller, shown, healthy, round, cache>>
    BY <1>1 DEF C!Login, C!manager
  <2>2. /\ token \in [Sessions -> Tenants \cup {None}] /\ DOMAIN page = Sessions
    BY DEF ConsoleInv, C!TypeOK
  <2>3. C!TypeOK' /\ C!HealthIsNews' /\ DOMAIN page' = Sessions
    BY <2>1, <2>2 DEF ConsoleInv, C!TypeOK, C!HealthIsNews
  <2>4. C!OwnTenantOnly'
    <3> SUFFICES ASSUME NEW q \in Sessions, page'[q].of # None
                 PROVE  page'[q].of = token'[q]
      BY DEF C!OwnTenantOnly
    <3>1. q # s
      BY <2>1, <2>2 DEF C!Blank
    <3>2. page'[q] = page[q] /\ token'[q] = token[q]
      BY <2>1, <2>2, <3>1
    <3>. QED BY <3>2 DEF ConsoleInv, C!OwnTenantOnly
  <2>. QED BY <2>1, <2>3, <2>4 DEF ConsoleInv, CacheIsOwn
<1>2. ASSUME NEW k \in DOMAIN cache, C!Expire(k)
      PROVE  ConsoleInv'
  <2>1. /\ cache' = [cache EXCEPT ![k] = None]
        /\ UNCHANGED <<api, stored, poller, shown, healthy, round, token, page>>
    BY <1>2 DEF C!Expire, C!manager
  <2>2. DOMAIN cache' = Tenants \X C!Reads
        /\ \A j \in Tenants \X C!Reads : cache'[j] \in {None, cache[j]}
    BY <2>1 DEF ConsoleInv
  <2>3. CacheIsOwn'
    BY <2>2 DEF ConsoleInv, CacheIsOwn
  <2>. QED BY <2>1, <2>2, <2>3 DEF ConsoleInv, C!TypeOK, C!HealthIsNews, C!OwnTenantOnly
<1>. QED BY <1>1, <1>2, RenderStep DEF C!Browse

LEMMA ConsoleStep ==
  ASSUME ConsoleInv, [ApiNext]_apiVars
  PROVE  ConsoleInv'
<1>1. CASE UNCHANGED console
  BY <1>1 DEF console, ConsoleInv, C!TypeOK, C!HealthIsNews, C!OwnTenantOnly, CacheIsOwn
<1>2. CASE C!Environment \/ C!Poll \/ C!Browse
  BY <1>2, EnvironmentStep, PollStep, BrowseStep
<1>3. CASE Terminal(C!Environment \/ C!Poll)
  BY <1>2, <1>3 DEF Terminal
<1>. QED BY <1>1, <1>2, <1>3 DEF ApiNext, apiVars

-----------------------------------------------------------------------------
(* Incidents *)

\* Every alert is behind the one incident of its source, which names its ends.
LEMMA AllShown == I!NoneUnshown
<1> SUFFICES ASSUME NEW k \in DOMAIN list
             PROVE  \E i \in I!Synthesized(list) :
                      /\ k \in i.related
                      /\ \A j \in I!Synthesized(list) : k \in j.related => i = j
                      /\ ({list[k].source, list[k].destination} \ {I!Missing}) \subseteq i.entities
  BY DEF I!NoneUnshown
<1> DEFINE source == I!Source(list[k])
           i == I!Incident(list, source)
<1>1. i \in I!Synthesized(list)
  BY DEF I!Synthesized
<1>2. k \in i.related
  BY DEF I!Incident, I!Group
<1>3. ASSUME NEW j \in I!Synthesized(list), k \in j.related
      PROVE  i = j
  <2>1. PICK other : j = I!Incident(list, other)
    BY DEF I!Synthesized
  <2>2. k \in I!Group(list, other)
    BY <1>3, <2>1 DEF I!Incident
  <2>3. other = source
    BY <2>2 DEF I!Group
  <2>. QED BY <2>1, <2>3
<1>4. ({list[k].source, list[k].destination} \ {I!Missing}) \subseteq i.entities
  <2>1. i.entities = I!Entities(list, source)
    BY DEF I!Incident
  <2>2. k \in I!Group(list, source)
    BY DEF I!Group
  <2>3. list[k].destination \in {list[j].destination : j \in I!Group(list, source)}
    BY <2>2
  <2>4. list[k].source # I!Missing => source = list[k].source
    BY DEF I!Source
  <2>. QED BY <2>1, <2>3, <2>4 DEF I!Entities
<1> HIDE DEF i
<1>. QED BY <1>1, <1>2, <1>3, <1>4

\* The severity of an incident is that of an alert behind it which none
\* outranks.
LEMMA GravestFirst ==
  ASSUME NEW alerts0 \in Seq(Listed), NEW source, I!Group(alerts0, source) # {}
  PROVE  \E k \in I!Group(alerts0, source) :
           /\ I!Severity(alerts0, source) = alerts0[k].severity
           /\ \A j \in I!Group(alerts0, source) :
                I!Rank(alerts0[j].severity) <= I!Rank(alerts0[k].severity)
<1> DEFINE group == I!Group(alerts0, source)
           rank(k) == I!Rank(alerts0[k].severity)
           worst == {k \in group : \A j \in group : rank(j) <= rank(k)}
<1>1. group \in SUBSET Nat /\ IsFiniteSet(group)
  <2>1. group \in SUBSET (1 .. Len(alerts0)) /\ Len(alerts0) \in Nat
    BY DEF I!Group
  <2>2. IsFiniteSet(1 .. Len(alerts0))
    BY <2>1, FS_Interval
  <2>. QED BY <2>1, <2>2, FS_Subset
<1>2. \A k : rank(k) \in 1 .. 4
  BY DEF I!Rank
<1>3. worst # {}
  <2> HIDE DEF rank, group
  <2>1. CASE \E k \in group : rank(k) = 4
    BY <1>2, <2>1
  <2>2. CASE (\A k \in group : rank(k) # 4) /\ \E k \in group : rank(k) = 3
    BY <1>2, <2>2
  <2>3. CASE (\A k \in group : rank(k) \notin {3, 4}) /\ \E k \in group : rank(k) = 2
    BY <1>2, <2>3
  <2>4. CASE \A k \in group : rank(k) \notin {2, 3, 4}
    <3>1. \A k \in group : rank(k) = 1
      BY <1>2, <2>4
    <3>2. group # {}
      BY DEF group
    <3>. QED BY <3>1, <3>2
  <2>. QED BY <2>1, <2>2, <2>3, <2>4
<1>4. \E k \in worst : \A j \in worst : k <= j
  <2>1. worst \in SUBSET Nat /\ worst \in SUBSET group
    BY <1>1
  <2> HIDE DEF worst, group
  <2>2. IsFiniteSet(worst)
    BY <1>1, <2>1, FS_Subset
  <2>3. Cardinality(worst) \in Nat /\ Cardinality(worst) # 0
    BY <1>3, <2>2, FS_EmptySet, FS_CardinalityType
  <2>4. PICK k \in worst : Cardinality(Above(worst, k)) = Cardinality(worst) - 1
    BY <2>1, <2>2, <2>3, EveryRank
  <2>5. ASSUME NEW j \in worst PROVE k <= j
    <3>1. j < k => Cardinality(Above(worst, k)) < Cardinality(Above(worst, j))
      BY <2>1, <2>2, AboveFacts
    <3>2. Cardinality(Above(worst, j)) \in 0 .. Cardinality(worst) - 1
      BY <2>1, <2>2, AboveFacts
    <3>3. ~(j < k)
      BY <2>3, <2>4, <3>1, <3>2
    <3>4. j \in Nat /\ k \in Nat
      BY <2>1
    <3>. QED BY <3>3, <3>4
  <2>. QED BY <2>5
<1> DEFINE first == CHOOSE k \in worst : \A j \in worst : k <= j
<1>5. I!Severity(alerts0, source) = alerts0[first].severity
  BY DEF I!Severity
<1>6. first \in worst
  <2> HIDE DEF worst
  <2>. QED BY <1>4
<1>7. first \in group /\ \A j \in group : rank(j) <= rank(first)
  <2> HIDE DEF first, group, rank
  <2>. QED BY <1>6
<1>. QED BY <1>5, <1>7

\* A list with the alerts of another among its own shows no incident of it as
\* less grave.
LEMMA AsGrave ==
  ASSUME NEW longer \in Seq(Listed), list \in Seq(Listed), NEW shift \in Nat,
         \A k \in DOMAIN list :
           k + shift \in DOMAIN longer /\ longer[k + shift] = list[k],
         NEW i \in I!Synthesized(list)
  PROVE  \E j \in I!Synthesized(longer) :
           j.source = i.source /\ I!Rank(j.severity) >= I!Rank(i.severity)
<1>1. PICK p \in DOMAIN list : i = I!Incident(list, I!Source(list[p]))
  BY DEF I!Synthesized
<1> DEFINE source == I!Source(list[p])
           j == I!Incident(longer, source)
<1>2. i.source = source /\ i.severity = I!Severity(list, source)
      /\ j.source = source /\ j.severity = I!Severity(longer, source)
  BY <1>1 DEF I!Incident
<1>3. p \in I!Group(list, source)
  BY DEF I!Group
<1>4. \A k \in I!Group(list, source) : k + shift \in I!Group(longer, source)
                                      /\ longer[k + shift] = list[k]
  BY DEF I!Group
<1>5. j \in I!Synthesized(longer)
  <2>1. p + shift \in DOMAIN longer /\ I!Source(longer[p + shift]) = source
    BY <1>3, <1>4 DEF I!Group
  <2>. QED BY <2>1 DEF I!Synthesized
<1> HIDE DEF source, j
<1>6. PICK k \in I!Group(list, source) : I!Severity(list, source) = list[k].severity
  BY <1>3, GravestFirst
<1>7. PICK l \in I!Group(longer, source) :
        /\ I!Severity(longer, source) = longer[l].severity
        /\ \A m \in I!Group(longer, source) :
             I!Rank(longer[m].severity) <= I!Rank(longer[l].severity)
  BY <1>3, <1>4, GravestFirst
<1>8. I!Rank(list[k].severity) <= I!Rank(longer[l].severity)
  BY <1>4, <1>7
<1>9. \A s : I!Rank(s) \in Nat
  BY DEF I!Rank
<1>10. I!Rank(j.severity) >= I!Rank(i.severity)
  BY <1>2, <1>6, <1>7, <1>8, <1>9
<1>. QED BY <1>2, <1>5, <1>10

LEMMA NeverBetter ==
  ASSUME list \in Seq(Listed)
  PROVE  I!NeverLooksBetter
<1> SUFFICES ASSUME NEW i \in I!Synthesized(list), NEW a \in Listed,
                    NEW longer \in {<<a>> \o list, Append(list, a)}
             PROVE  \E j \in I!Synthesized(longer) :
                      j.source = i.source /\ I!Rank(j.severity) >= I!Rank(i.severity)
  BY DEF I!NeverLooksBetter
<1>1. Len(list) \in Nat /\ DOMAIN list = 1 .. Len(list)
  OBVIOUS
<1>2. CASE longer = <<a>> \o list
  <2>1. <<a>> \in Seq(Listed) /\ Len(<<a>>) = 1
    OBVIOUS
  <2>2. /\ longer \in Seq(Listed) /\ Len(longer) = 1 + Len(list)
        /\ \A n \in 1 .. 1 + Len(list) :
             longer[n] = IF n <= 1 THEN <<a>>[n] ELSE list[n - 1]
    BY <1>2, <2>1, ConcatProperties
  <2>3. \A k \in DOMAIN list : k + 1 \in DOMAIN longer /\ longer[k + 1] = list[k]
    <3> SUFFICES ASSUME NEW k \in 1 .. Len(list)
                 PROVE  k + 1 \in DOMAIN longer /\ longer[k + 1] = list[k]
      BY <1>1
    <3>1. k + 1 \in 1 .. 1 + Len(list) /\ ~(k + 1 <= 1) /\ (k + 1) - 1 = k
      BY <1>1
    <3>. QED BY <2>2, <3>1
  <2>. QED BY <2>2, <2>3, AsGrave
<1>3. CASE longer = Append(list, a)
  <2>1. /\ longer \in Seq(Listed) /\ Len(longer) = Len(list) + 1
        /\ \A n \in 1 .. Len(list) : longer[n] = list[n]
    BY <1>3, AppendProperties
  <2>2. \A k \in DOMAIN list : k + 0 \in DOMAIN longer /\ longer[k + 0] = list[k]
    BY <1>1, <2>1
  <2>3. 0 \in Nat
    OBVIOUS
  <2>. QED BY <2>1, <2>2, <2>3, AsGrave
<1>. QED BY <1>2, <1>3

\* What is shown is no stale health, no other tenant's data, every alert that
\* was read, and no incident that looks better than its alerts.
THEOREM ConsolesAreSound == ApiSpec => []ConsolesSound
<1>1. ApiInit => ConsoleInv /\ list \in Seq(Listed)
  BY ConsoleInit DEF ApiInit, I!Init
<1>2. ConsoleInv /\ list \in Seq(Listed) /\ [ApiNext]_apiVars =>
        ConsoleInv' /\ (list \in Seq(Listed))'
  <2> SUFFICES ASSUME list \in Seq(Listed), [ApiNext]_apiVars
               PROVE  list' \in Seq(Listed)
    BY ConsoleStep
  <2>1. CASE UNCHANGED list
    BY <2>1
  <2>2. CASE I!Next
    <3>1. (\E a \in Listed : list' = Append(list, a)) \/ list' = <<>>
      BY <2>2 DEF I!Next, I!Show
    <3>2. ASSUME NEW a \in Listed, list' = Append(list, a) PROVE list' \in Seq(Listed)
      BY <3>2, AppendProperties
    <3>3. CASE list' = <<>>
      BY <3>3
    <3>. QED BY <3>1, <3>2, <3>3
  <2>3. CASE Terminal(C!Environment \/ C!Poll)
    BY <2>1, <2>3 DEF Terminal
  <2>. QED BY <2>1, <2>2, <2>3 DEF ApiNext, apiVars
<1>3. ConsoleInv /\ list \in Seq(Listed) => ConsolesSound
  BY AllShown, NeverBetter DEF ConsoleInv, ConsolesSound
<1>. QED BY <1>1, <1>2, <1>3, PTL DEF ApiSpec

-----------------------------------------------------------------------------
(* Revisions of the schema *)

AnyRow == [aid : Aids, tenant : Tenants \cup {D!Null, D!Default},
           owner : Tenants \cup {D!Nobody}]
Schema == [tables : SUBSET D!AllTables, tenantId : BOOLEAN,
           unique : {"alert_id", D!Composite}, mfa : BOOLEAN, rows : SUBSET AnyRow]

\* A row has the tenant it came with, or none that signed up.
HasOwner(row) ==
  IF row.owner \in Tenants THEN row.tenant = row.owner
  ELSE row.tenant \in {D!Null, D!Default}

\* A schema that a database at this revision may have, also after create_all
\* made tables of later revisions: the index the revisions 2 and 3 rely on is
\* the old one, for with the new one the tables of revision 2 are there too.
Fits(d, rev) ==
  /\ d \in Schema
  /\ \A row \in d.rows : HasOwner(row)
  /\ d.unique = D!Composite => \A row \in d.rows : row.tenant # D!Null
  /\ "alerts" \notin d.tables => d.rows = {}
  /\ rev >= 1 => "alerts" \in d.tables
  /\ rev \in {2, 3} => d.unique = "alert_id"
  /\ rev >= 4 => d.unique = D!Composite
  /\ rev <= 1 /\ d.unique = D!Composite => "tenants" \in d.tables

\* Tables that the revisions up to this one create
TablesUpTo(rev) ==
  CASE rev = 0 -> {} [] rev = 1 -> {"alerts"}
    [] rev = 2 -> {"alerts", "tenants", "users"}
    [] rev \in {3, 4} -> {"alerts", "tenants", "users", "incident_triage", "sensor_tokens"}
    [] OTHER -> {"alerts", "tenants", "users", "incident_triage", "sensor_tokens", "audit_log"}

\* The schema the revisions make, and nothing else
Models(d, rev) ==
  /\ d.tables = TablesUpTo(rev)
  /\ d.tenantId <=> rev >= 2
  /\ d.unique = IF rev >= 4 THEN D!Composite ELSE "alert_id"
  /\ d.mfa <=> rev >= 6

\* ... or what the API from before them made: to be stamped.
Unstamped(d, rev) ==
  /\ rev = 0 /\ d.tables = {"alerts"} /\ ~d.tenantId /\ ~d.mfa
  /\ d.unique = "alert_id"

\* No alert is gone, though it may be forgotten whose it was.
NoneGone(rows, kept) ==
  \A row \in rows : \E other \in kept :
    other.aid = row.aid /\ other.owner \in {row.owner, D!Nobody}

LEMMA TableFacts ==
  /\ D!TablesOf(1) = {"alerts"} /\ D!TablesOf(2) = {"tenants", "users"}
  /\ D!TablesOf(3) = {"incident_triage", "sensor_tokens"} /\ D!TablesOf(4) = {}
  /\ D!TablesOf(5) = {"audit_log"} /\ D!TablesOf(6) = {}
  /\ D!AllTables = {"alerts", "tenants", "users", "incident_triage", "sensor_tokens",
                   "audit_log"}
  /\ D!Newest = 6 /\ D!Composite # "alert_id" /\ D!Composite # "failed"
<1>1. /\ D!TablesOf(1) = {"alerts"} /\ D!TablesOf(2) = {"tenants", "users"}
      /\ D!TablesOf(3) = {"incident_triage", "sensor_tokens"} /\ D!TablesOf(4) = {}
      /\ D!TablesOf(5) = {"audit_log"} /\ D!TablesOf(6) = {}
  BY DEF D!TablesOf
<1>2. D!Newest = 6 /\ D!Composite # "alert_id" /\ D!Composite # "failed"
  BY DEF D!Newest, D!Composite
<1>3. D!AllTables = UNION {D!TablesOf(1), D!TablesOf(2), D!TablesOf(3),
                           D!TablesOf(4), D!TablesOf(5), D!TablesOf(6)}
  <2>1. 1 .. D!Newest = {1, 2, 3, 4, 5, 6}
    BY <1>2
  <2>. QED BY <2>1 DEF D!AllTables
<1>. QED BY <1>1, <1>2, <1>3

LEMMA FailedFacts ==
  /\ D!Failed \notin Schema
  /\ \A rev : D!Up(D!Failed, rev) = D!Failed /\ D!Down(D!Failed, rev) = D!Failed
<1>1. D!Failed.unique = "failed"
  BY DEF D!Failed, D!Blank
<1>2. D!Failed \notin Schema
  BY <1>1, TableFacts DEF Schema
<1>3. \A rev : D!Up(D!Failed, rev) = D!Failed
  BY DEF D!Up
<1>4. \A rev : D!Down(D!Failed, rev) = D!Failed
  BY DEF D!Down
<1>. QED BY <1>2, <1>3, <1>4

\* Rows that were without a tenant are the default tenant's.
LEMMA BackfilledFacts ==
  ASSUME NEW rows \in SUBSET AnyRow, \A row \in rows : HasOwner(row)
  PROVE  /\ D!Backfilled(rows) \in SUBSET AnyRow
         /\ \A row \in D!Backfilled(rows) : HasOwner(row) /\ row.tenant # D!Null
         /\ NoneGone(rows, D!Backfilled(rows))
         /\ rows = {} => D!Backfilled(rows) = {}
<1> DEFINE Filled(row) == [row EXCEPT !.tenant = IF @ = D!Null THEN D!Default ELSE @]
<1>1. D!Backfilled(rows) = {Filled(row) : row \in rows}
  BY DEF D!Backfilled
<1>2. ASSUME NEW row \in rows
      PROVE  /\ Filled(row) \in AnyRow /\ Filled(row).aid = row.aid
             /\ Filled(row).owner = row.owner /\ Filled(row).tenant # D!Null
             /\ HasOwner(Filled(row))
  <2>1. row \in AnyRow /\ HasOwner(row) /\ D!Null \notin Tenants /\ D!Default # D!Null
    BY ApiAssumption DEF D!TenantAssumption, D!Default, D!Null
  <2>2. /\ Filled(row) \in AnyRow /\ Filled(row).aid = row.aid
        /\ Filled(row).owner = row.owner
        /\ Filled(row).tenant = IF row.tenant = D!Null THEN D!Default ELSE row.tenant
    BY <2>1 DEF AnyRow
  <2>. QED BY <2>1, <2>2 DEF HasOwner
<1> HIDE DEF Filled
<1>3. NoneGone(rows, D!Backfilled(rows))
  BY <1>1, <1>2 DEF NoneGone
<1>. QED BY <1>1, <1>2, <1>3

LEMMA NoneGoneFacts ==
  /\ \A rows : NoneGone(rows, rows)
  /\ \A a, b, c : NoneGone(a, b) /\ NoneGone(b, c) => NoneGone(a, c)
<1>1. ASSUME NEW a, NEW b, NEW c, NoneGone(a, b), NoneGone(b, c)
      PROVE  NoneGone(a, c)
  <2> SUFFICES ASSUME NEW row \in a
               PROVE  \E other \in c :
                        other.aid = row.aid /\ other.owner \in {row.owner, D!Nobody}
    BY DEF NoneGone
  <2>1. PICK mid \in b : mid.aid = row.aid /\ mid.owner \in {row.owner, D!Nobody}
    BY <1>1 DEF NoneGone
  <2>2. PICK other \in c : other.aid = mid.aid /\ other.owner \in {mid.owner, D!Nobody}
    BY <1>1 DEF NoneGone
  <2>. QED BY <2>1, <2>2
<1>2. \A rows : NoneGone(rows, rows)
  BY DEF NoneGone
<1>. QED BY <1>1, <1>2

\* A new schema with other tables, and what else changes: fields of a record.
LEMMA CreateTablesFacts ==
  ASSUME NEW d \in Schema, NEW rev \in {1, 2, 3, 5}, D!CreateTables(d, rev) # D!Failed
  PROVE  LET new == D!CreateTables(d, rev) IN
         /\ new \in Schema /\ new.tables = d.tables \cup D!TablesOf(rev)
         /\ d.tables \cap D!TablesOf(rev) = {}
         /\ new.tenantId = d.tenantId /\ new.unique = d.unique
         /\ new.mfa = d.mfa /\ new.rows = d.rows
<1>1. D!TablesOf(rev) \in SUBSET D!AllTables
  BY TableFacts
<1>2. d.tables \cap D!TablesOf(rev) = {}
      /\ D!CreateTables(d, rev) = [d EXCEPT !.tables = @ \cup D!TablesOf(rev)]
  BY DEF D!CreateTables
<1>. QED BY <1>1, <1>2 DEF Schema

\* One revision of an upgrade leads from a schema that fits to one that fits
\* the next, and to the next the models describe.
LEMMA UpStep ==
  ASSUME NEW k \in 1 .. 6, NEW d, Fits(d, k - 1), D!Up(d, k) # D!Failed
  PROVE  /\ Fits(D!Up(d, k), k) /\ NoneGone(d.rows, D!Up(d, k).rows)
         /\ Models(d, k - 1) \/ Unstamped(d, k - 1) => Models(D!Up(d, k), k)
<1> DEFINE new == D!Up(d, k)
<1>1. d \in Schema /\ d # D!Failed /\ \A row \in d.rows : HasOwner(row)
  BY FailedFacts DEF Fits
<1>2. ASSUME k \in {1, 3, 5} PROVE new = D!CreateTables(d, k)
  BY <1>1, <1>2 DEF D!Up
<1>3. CASE k \in {1, 3, 5}
  <2>1. /\ new \in Schema /\ new.tables = d.tables \cup D!TablesOf(k)
        /\ d.tables \cap D!TablesOf(k) = {}
        /\ new.tenantId = d.tenantId /\ new.unique = d.unique
        /\ new.mfa = d.mfa /\ new.rows = d.rows
    BY <1>1, <1>2, <1>3, CreateTablesFacts
  <2> HIDE DEF new
  <2>2. Fits(new, k)
    BY <1>3, <2>1, TableFacts DEF Fits
  <2>3. Models(d, k - 1) \/ Unstamped(d, k - 1) => Models(new, k)
    BY <1>3, <2>1, TableFacts DEF Models, Unstamped, TablesUpTo
  <2>. QED BY <2>1, <2>2, <2>3, NoneGoneFacts DEF new
<1>4. CASE k = 2
  <2> DEFINE made == D!CreateTables(d, 2)
  <2>1. new = D!AddTenants(d)
    BY <1>1, <1>4 DEF D!Up
  <2>2. /\ made # D!Failed /\ ~d.tenantId
        /\ new = [made EXCEPT !.tenantId = TRUE, !.rows = D!Backfilled(made.rows)]
    BY <2>1 DEF D!AddTenants
  <2>3. /\ made \in Schema /\ made.tables = d.tables \cup {"tenants", "users"}
        /\ d.tables \cap {"tenants", "users"} = {}
        /\ made.unique = d.unique /\ made.mfa = d.mfa /\ made.rows = d.rows
    BY <1>1, <2>2, CreateTablesFacts, TableFacts
  <2>4. d.rows \in SUBSET AnyRow
    BY <1>1 DEF Schema
  <2>5. /\ D!Backfilled(d.rows) \in SUBSET AnyRow
        /\ \A row \in D!Backfilled(d.rows) : HasOwner(row) /\ row.tenant # D!Null
        /\ NoneGone(d.rows, D!Backfilled(d.rows))
        /\ d.rows = {} => D!Backfilled(d.rows) = {}
    BY <1>1, <2>4, BackfilledFacts
  <2> HIDE DEF new, made
  <2>6. /\ new \in Schema /\ new.tables = d.tables \cup {"tenants", "users"}
        /\ new.tenantId = TRUE /\ new.unique = d.unique /\ new.mfa = d.mfa
        /\ new.rows = D!Backfilled(d.rows)
    BY <2>2, <2>3, <2>5 DEF Schema
  <2>7. Fits(new, 2)
    BY <1>4, <2>3, <2>5, <2>6, TableFacts DEF Fits, Schema
  <2>8. Models(d, 1) => Models(new, 2)
    BY <2>6 DEF Models, TablesUpTo
  <2>. QED BY <1>4, <2>5, <2>6, <2>7, <2>8 DEF new, Unstamped
<1>5. CASE k = 4
  <2>1. new = D!ComposeKey(d)
    BY <1>1, <1>5 DEF D!Up
  <2>2. new = [d EXCEPT !.rows = D!Backfilled(d.rows), !.unique = D!Composite]
    BY <2>1 DEF D!ComposeKey
  <2>4. d.rows \in SUBSET AnyRow
    BY <1>1 DEF Schema
  <2>5. /\ D!Backfilled(d.rows) \in SUBSET AnyRow
        /\ \A row \in D!Backfilled(d.rows) : HasOwner(row) /\ row.tenant # D!Null
        /\ NoneGone(d.rows, D!Backfilled(d.rows))
        /\ d.rows = {} => D!Backfilled(d.rows) = {}
    BY <1>1, <2>4, BackfilledFacts
  <2> HIDE DEF new
  <2>6. /\ new \in Schema /\ new.tables = d.tables
        /\ new.tenantId = d.tenantId /\ new.unique = D!Composite /\ new.mfa = d.mfa
        /\ new.rows = D!Backfilled(d.rows)
    BY <1>1, <2>2, <2>5 DEF Schema
  <2>7. Fits(new, 4)
    BY <1>5, <2>5, <2>6, TableFacts DEF Fits
  <2>8. Models(d, 3) => Models(new, 4)
    BY <2>6 DEF Models, TablesUpTo
  <2>. QED BY <1>5, <2>5, <2>6, <2>7, <2>8 DEF new, Unstamped
<1>6. CASE k = 6
  <2>1. new = D!AddMfa(d)
    BY <1>1, <1>6 DEF D!Up
  <2>2. new = [d EXCEPT !.mfa = TRUE]
    BY <2>1 DEF D!AddMfa
  <2> HIDE DEF new
  <2>6. /\ new \in Schema /\ new.tables = d.tables
        /\ new.tenantId = d.tenantId /\ new.unique = d.unique /\ new.mfa = TRUE
        /\ new.rows = d.rows
    BY <1>1, <2>2 DEF Schema
  <2>7. Fits(new, 6)
    BY <1>6, <2>6, TableFacts DEF Fits
  <2>8. Models(d, 5) => Models(new, 6)
    BY <2>6 DEF Models, TablesUpTo
  <2>. QED BY <1>6, <2>6, <2>7, <2>8, NoneGoneFacts DEF new, Unstamped
<1>7. k \in {1, 2, 3, 4, 5, 6}
  OBVIOUS
<1>. QED BY <1>3, <1>4, <1>5, <1>6, <1>7

\* From the schema the models describe, no revision fails.
LEMMA UpWorks ==
  ASSUME NEW k \in 1 .. 6, NEW d \in Schema, Models(d, k - 1)
  PROVE  D!Up(d, k) # D!Failed
<1>1. d # D!Failed
  BY FailedFacts
<1>2. k \in {1, 2, 3, 4, 5, 6}
  OBVIOUS
<1>3. ASSUME NEW rev \in {1, 2, 3, 5}, d.tables \cap D!TablesOf(rev) = {}
      PROVE  D!CreateTables(d, rev) \in Schema
  <2>1. D!TablesOf(rev) \in SUBSET D!AllTables
    BY TableFacts
  <2>2. D!CreateTables(d, rev) = [d EXCEPT !.tables = @ \cup D!TablesOf(rev)]
    BY <1>3 DEF D!CreateTables
  <2>. QED BY <2>1, <2>2 DEF Schema
<1>4. CASE k \in {1, 3, 5}
  <2>1. d.tables \cap D!TablesOf(k) = {}
    BY <1>4, TableFacts DEF Models, TablesUpTo
  <2>2. D!Up(d, k) = D!CreateTables(d, k)
    BY <1>1, <1>4 DEF D!Up
  <2>. QED BY <1>3, <1>4, <2>1, <2>2, FailedFacts
<1>5. CASE k = 2
  <2> DEFINE made == D!CreateTables(d, 2)
  <2>1. d.tables \cap D!TablesOf(2) = {} /\ ~d.tenantId
    BY <1>5, TableFacts DEF Models, TablesUpTo
  <2>2. made \in Schema /\ made # D!Failed
    BY <1>3, <2>1, FailedFacts
  <2>3. D!Up(d, 2) = [made EXCEPT !.tenantId = TRUE, !.rows = D!Backfilled(made.rows)]
    BY <1>1, <2>1, <2>2 DEF D!Up, D!AddTenants
  <2> HIDE DEF made
  <2>4. D!Up(d, 2).unique = made.unique /\ made.unique \in {"alert_id", D!Composite}
    BY <2>2, <2>3 DEF Schema
  <2>. QED BY <1>5, <2>4, TableFacts DEF D!Failed, D!Blank
<1>6. CASE k = 4
  <2>1. D!Up(d, 4) = [d EXCEPT !.rows = D!Backfilled(@), !.unique = D!Composite]
    BY <1>1, <1>6 DEF D!Up, D!ComposeKey, Models
  <2>2. D!Up(d, 4).unique = D!Composite
    BY <2>1 DEF Schema
  <2>. QED BY <1>6, <2>2, TableFacts DEF D!Failed, D!Blank
<1>7. CASE k = 6
  <2>1. D!Up(d, 6) = [d EXCEPT !.mfa = TRUE]
    BY <1>1, <1>7 DEF D!Up, D!AddMfa, Models
  <2>2. D!Up(d, 6) \in Schema
    BY <2>1 DEF Schema
  <2>. QED BY <1>7, <2>2, FailedFacts
<1>. QED BY <1>2, <1>4, <1>5, <1>6, <1>7

\* The function of an upgrade: it exists, since it can be written out for the at
\* most six revisions ahead.
LEMMA UpgradedFacts ==
  ASSUME revision \in 0 .. 6
  PROVE  \E f : /\ f[revision] = db
                /\ \A rev \in revision + 1 .. 6 : f[rev] = D!Up(f[rev - 1], rev)
                /\ \A to \in revision .. 6 : D!Upgraded(to) = f[to]
<1> DEFINE Walks(f) == f = [rev \in revision .. 6 |->
                               IF rev = revision THEN db ELSE D!Up(f[rev - 1], rev)]
           e1 == D!Up(db, revision + 1)
           e2 == D!Up(e1, revision + 2)
           e3 == D!Up(e2, revision + 3)
           e4 == D!Up(e3, revision + 4)
           e5 == D!Up(e4, revision + 5)
           e6 == D!Up(e5, revision + 6)
           walk == [rev \in revision .. 6 |->
                      IF rev = revision THEN db
                      ELSE IF rev = revision + 1 THEN e1
                      ELSE IF rev = revision + 2 THEN e2
                      ELSE IF rev = revision + 3 THEN e3
                      ELSE IF rev = revision + 4 THEN e4
                      ELSE IF rev = revision + 5 THEN e5 ELSE e6]
           f == CHOOSE f : Walks(f)
<1>1. ASSUME NEW rev \in revision .. 6
      PROVE  walk[rev] = IF rev = revision THEN db ELSE D!Up(walk[rev - 1], rev)
  <2>1. \/ rev = revision \/ rev = revision + 1 \/ rev = revision + 2
        \/ rev = revision + 3 \/ rev = revision + 4 \/ rev = revision + 5
        \/ rev = revision + 6
    OBVIOUS
  <2>2. rev # revision => rev - 1 \in revision .. 6
    OBVIOUS
  <2> HIDE DEF e1, e2, e3, e4, e5, e6
  <2>3. CASE rev = revision
    BY <2>3
  <2>4. CASE rev = revision + 1
    BY <2>2, <2>4 DEF e1
  <2>5. CASE rev = revision + 2
    BY <2>2, <2>5 DEF e2
  <2>6. CASE rev = revision + 3
    BY <2>2, <2>6 DEF e3
  <2>7. CASE rev = revision + 4
    BY <2>2, <2>7 DEF e4
  <2>8. CASE rev = revision + 5
    BY <2>2, <2>8 DEF e5
  <2>9. CASE rev = revision + 6
    BY <2>2, <2>9 DEF e6
  <2>. QED BY <2>1, <2>3, <2>4, <2>5, <2>6, <2>7, <2>8, <2>9
<1>2. Walks(walk)
  <2> DEFINE same == [rev \in revision .. 6 |->
                        IF rev = revision THEN db ELSE D!Up(walk[rev - 1], rev)]
  <2>1. \A rev \in revision .. 6 : walk[rev] = same[rev]
    <3> HIDE DEF walk
    <3>. QED BY <1>1
  <2>2. walk = [rev \in revision .. 6 |-> walk[rev]]
    OBVIOUS
  <2>3. same = [rev \in revision .. 6 |-> same[rev]]
    OBVIOUS
  <2>. QED BY <2>1, <2>2, <2>3
<1>3. Walks(f)
  <2> HIDE DEF Walks, walk
  <2>. QED BY <1>2
<1>4. \A to \in revision .. 6 : D!Upgraded(to) = f[to]
  BY DEF D!Upgraded, D!Newest
<1> HIDE DEF f
<1>5. f[revision] = db /\ \A rev \in revision + 1 .. 6 : f[rev] = D!Up(f[rev - 1], rev)
  BY <1>3
<1>. QED BY <1>4, <1>5

\* ... and of a downgrade.
LEMMA DowngradedFacts ==
  ASSUME revision \in 0 .. 6
  PROVE  \E f : /\ f[revision] = db
                /\ \A rev \in 0 .. revision - 1 : f[rev] = D!Down(f[rev + 1], rev + 1)
                /\ \A to \in 0 .. revision : D!Downgraded(to) = f[to]
<1> DEFINE Walks(f) == f = [rev \in 0 .. revision |->
                               IF rev = revision THEN db ELSE D!Down(f[rev + 1], rev + 1)]
           e1 == D!Down(db, revision)
           e2 == D!Down(e1, revision - 1)
           e3 == D!Down(e2, revision - 2)
           e4 == D!Down(e3, revision - 3)
           e5 == D!Down(e4, revision - 4)
           e6 == D!Down(e5, revision - 5)
           walk == [rev \in 0 .. revision |->
                      IF rev = revision THEN db
                      ELSE IF rev = revision - 1 THEN e1
                      ELSE IF rev = revision - 2 THEN e2
                      ELSE IF rev = revision - 3 THEN e3
                      ELSE IF rev = revision - 4 THEN e4
                      ELSE IF rev = revision - 5 THEN e5 ELSE e6]
           f == CHOOSE f : Walks(f)
<1>1. ASSUME NEW rev \in 0 .. revision
      PROVE  walk[rev] = IF rev = revision THEN db ELSE D!Down(walk[rev + 1], rev + 1)
  <2>1. \/ rev = revision \/ rev = revision - 1 \/ rev = revision - 2
        \/ rev = revision - 3 \/ rev = revision - 4 \/ rev = revision - 5
        \/ rev = revision - 6
    OBVIOUS
  <2>2. rev # revision => rev + 1 \in 0 .. revision
    OBVIOUS
  <2> HIDE DEF e1, e2, e3, e4, e5, e6
  <2>3. CASE rev = revision
    BY <2>3
  <2>4. CASE rev = revision - 1
    BY <2>2, <2>4 DEF e1
  <2>5. CASE rev = revision - 2
    BY <2>2, <2>5 DEF e2
  <2>6. CASE rev = revision - 3
    BY <2>2, <2>6 DEF e3
  <2>7. CASE rev = revision - 4
    BY <2>2, <2>7 DEF e4
  <2>8. CASE rev = revision - 5
    BY <2>2, <2>8 DEF e5
  <2>9. CASE rev = revision - 6
    BY <2>2, <2>9 DEF e6
  <2>. QED BY <2>1, <2>3, <2>4, <2>5, <2>6, <2>7, <2>8, <2>9
<1>2. Walks(walk)
  <2> DEFINE same == [rev \in 0 .. revision |->
                        IF rev = revision THEN db ELSE D!Down(walk[rev + 1], rev + 1)]
  <2>1. \A rev \in 0 .. revision : walk[rev] = same[rev]
    <3> HIDE DEF walk
    <3>. QED BY <1>1
  <2>2. walk = [rev \in 0 .. revision |-> walk[rev]]
    OBVIOUS
  <2>3. same = [rev \in 0 .. revision |-> same[rev]]
    OBVIOUS
  <2>. QED BY <2>1, <2>2, <2>3
<1>3. Walks(f)
  <2> HIDE DEF Walks, walk
  <2>. QED BY <1>2
<1>4. \A to \in 0 .. revision : D!Downgraded(to) = f[to]
  BY DEF D!Downgraded
<1> HIDE DEF f
<1>5. f[revision] = db /\ \A rev \in 0 .. revision - 1 : f[rev] = D!Down(f[rev + 1], rev + 1)
  BY <1>3
<1>. QED BY <1>4, <1>5


\* Where an upgrade leads
Upwards(d, rev) ==
  /\ d # D!Failed =>
       /\ Fits(d, rev) /\ NoneGone(db.rows, d.rows)
       /\ Models(db, revision) \/ Unstamped(db, revision) =>
            Models(d, rev) \/ Unstamped(d, rev)
  /\ Models(db, revision) => d # D!Failed /\ Models(d, rev)

LEMMA UpgradeFacts ==
  ASSUME NEW to \in revision .. 6, revision \in 0 .. 6, Fits(db, revision)
  PROVE  Upwards(D!Upgraded(to), to)
<1>1. PICK f : /\ f[revision] = db
               /\ \A rev \in revision + 1 .. 6 : f[rev] = D!Up(f[rev - 1], rev)
               /\ \A rev \in revision .. 6 : D!Upgraded(rev) = f[rev]
  BY UpgradedFacts
<1> DEFINE P(n) == revision + n <= 6 => Upwards(f[revision + n], revision + n)
<1>2. P(0)
  <2>1. db # D!Failed
    BY FailedFacts DEF Fits
  <2>2. Upwards(db, revision)
    BY <2>1, NoneGoneFacts DEF Upwards
  <2>. QED BY <1>1, <2>2
<1>3. ASSUME NEW n \in 0 .. 5, P(n) PROVE P(n + 1)
  <2> SUFFICES ASSUME revision + (n + 1) <= 6
               PROVE  Upwards(f[revision + (n + 1)], revision + (n + 1))
    OBVIOUS
  <2> DEFINE k == revision + (n + 1)
             d == f[k - 1]
             new == f[k]
  <2>1. k \in 1 .. 6 /\ k - 1 = revision + n /\ k \in revision + 1 .. 6
    OBVIOUS
  <2>2. Upwards(d, k - 1) /\ new = D!Up(d, k)
    <3>1. Upwards(f[revision + n], revision + n)
      BY <1>3
    <3>. QED BY <1>1, <2>1, <3>1
  <2> HIDE DEF d, new, k, P
  <2>3. ASSUME d = D!Failed PROVE Upwards(new, k)
    <3>1. new = D!Failed
      BY <2>2, <2>3, FailedFacts
    <3>. QED BY <2>2, <2>3, <3>1 DEF Upwards
  <2>4. ASSUME d # D!Failed PROVE Upwards(new, k)
    <3>1. Fits(d, k - 1) /\ NoneGone(db.rows, d.rows)
      BY <2>2, <2>4 DEF Upwards
    <3>2. ASSUME new # D!Failed PROVE Upwards(new, k)
      <4>1. /\ Fits(new, k) /\ NoneGone(d.rows, new.rows)
            /\ Models(d, k - 1) \/ Unstamped(d, k - 1) => Models(new, k)
        BY <2>1, <2>2, <3>1, <3>2, UpStep
      <4>2. NoneGone(db.rows, new.rows)
        BY <3>1, <4>1, NoneGoneFacts
      <4>. QED BY <2>2, <2>4, <3>2, <4>1, <4>2 DEF Upwards
    <3>3. ASSUME new = D!Failed PROVE Upwards(new, k)
      <4>1. d \in Schema
        BY <3>1 DEF Fits
      <4>2. ~Models(d, k - 1)
        BY <2>1, <2>2, <3>3, <4>1, UpWorks
      <4>. QED BY <2>2, <3>3, <4>2 DEF Upwards
    <3>. QED BY <3>2, <3>3
  <2>. QED BY <2>3, <2>4 DEF k, new
<1> HIDE DEF P
<1>4. P(1) /\ P(2) /\ P(3) /\ P(4) /\ P(5) /\ P(6)
  <2>1. P(1)
    BY <1>2, <1>3
  <2>2. P(2)
    BY <2>1, <1>3
  <2>3. P(3)
    BY <2>2, <1>3
  <2>4. P(4)
    BY <2>3, <1>3
  <2>5. P(5)
    BY <2>4, <1>3
  <2>6. P(6)
    BY <2>5, <1>3
  <2>. QED BY <2>1, <2>2, <2>3, <2>4, <2>5, <2>6
<1>5. \A n \in 0 .. 6 : P(n)
  BY <1>2, <1>4
<1>6. to - revision \in 0 .. 6 /\ revision + (to - revision) = to /\ to <= 6
  OBVIOUS
<1>. QED BY <1>1, <1>5, <1>6 DEF P

\* One revision of a downgrade likewise; the first one drops the alerts.
LEMMA DownStep ==
  ASSUME NEW k \in 1 .. 6, NEW d, Fits(d, k), D!Down(d, k) # D!Failed
  PROVE  /\ Fits(D!Down(d, k), k - 1)
         /\ k # 1 => NoneGone(d.rows, D!Down(d, k).rows)
         /\ Models(d, k) => Models(D!Down(d, k), k - 1)
<1> DEFINE new == D!Down(d, k)
<1>1. d \in Schema /\ d # D!Failed /\ \A row \in d.rows : HasOwner(row)
  BY FailedFacts DEF Fits
<1>2. CASE k \in {3, 5}
  <2>1. new = [d EXCEPT !.tables = @ \ D!TablesOf(k)]
    BY <1>1, <1>2 DEF D!Down
  <2> HIDE DEF new
  <2>2. /\ new \in Schema /\ new.tables = d.tables \ D!TablesOf(k)
        /\ new.tenantId = d.tenantId /\ new.unique = d.unique
        /\ new.mfa = d.mfa /\ new.rows = d.rows
    BY <1>1, <2>1 DEF Schema
  <2>3. Fits(new, k - 1)
    BY <1>2, <2>2, TableFacts DEF Fits
  <2>4. Models(d, k) => Models(new, k - 1)
    BY <1>2, <2>2, TableFacts DEF Models, TablesUpTo
  <2>. QED BY <2>2, <2>3, <2>4, NoneGoneFacts DEF new
<1>3. CASE k = 1
  <2>1. new = [d EXCEPT !.tables = @ \ {"alerts"}, !.tenantId = FALSE,
                        !.unique = "alert_id", !.rows = {}]
    BY <1>1, <1>3, TableFacts DEF D!Down, D!DropAlerts
  <2> HIDE DEF new
  <2>2. /\ new \in Schema /\ new.tables = d.tables \ {"alerts"}
        /\ new.tenantId = FALSE /\ new.unique = "alert_id"
        /\ new.mfa = d.mfa /\ new.rows = {}
    BY <1>1, <2>1 DEF Schema
  <2>3. Fits(new, 0)
    BY <2>2, TableFacts DEF Fits
  <2>4. Models(d, 1) => Models(new, 0)
    BY <2>2, TableFacts DEF Models, TablesUpTo
  <2>. QED BY <1>3, <2>2, <2>3, <2>4 DEF new
<1>4. CASE k = 2
  <2> DEFINE Dropped(row) == [row EXCEPT !.tenant = D!Null, !.owner = D!Nobody]
             dropped == {Dropped(row) : row \in d.rows}
  <2>1. new = [d EXCEPT !.tables = @ \ {"tenants", "users"}, !.tenantId = FALSE,
                        !.rows = dropped, !.mfa = FALSE]
    BY <1>1, <1>4, TableFacts DEF D!Down, D!DropTenants
  <2>2. ASSUME NEW row \in d.rows
        PROVE  /\ Dropped(row) \in AnyRow /\ Dropped(row).aid = row.aid
               /\ Dropped(row).owner = D!Nobody /\ HasOwner(Dropped(row))
    <3>1. row \in AnyRow
      BY <1>1 DEF Schema
    <3>2. D!Nobody \notin Tenants
      BY ApiAssumption DEF D!TenantAssumption
    <3>3. /\ Dropped(row) \in AnyRow /\ Dropped(row).aid = row.aid
          /\ Dropped(row).owner = D!Nobody /\ Dropped(row).tenant = D!Null
      BY <3>1 DEF AnyRow
    <3>. QED BY <3>2, <3>3 DEF HasOwner
  <2> HIDE DEF new, Dropped
  <2>3. /\ dropped \in SUBSET AnyRow /\ \A row \in dropped : HasOwner(row)
        /\ NoneGone(d.rows, dropped) /\ (d.rows = {} => dropped = {})
    BY <2>2 DEF NoneGone
  <2> HIDE DEF dropped
  <2>4. /\ new \in Schema /\ new.tables = d.tables \ {"tenants", "users"}
        /\ new.tenantId = FALSE /\ new.unique = d.unique
        /\ new.mfa = FALSE /\ new.rows = dropped
    BY <1>1, <2>1, <2>3 DEF Schema
  <2>5. Fits(new, 1)
    BY <1>4, <2>3, <2>4, TableFacts DEF Fits
  <2>6. Models(d, 2) => Models(new, 1)
    BY <2>4 DEF Models, TablesUpTo
  <2>. QED BY <1>4, <2>3, <2>4, <2>5, <2>6 DEF new
<1>5. CASE k = 4
  <2>1. new = [d EXCEPT !.unique = "alert_id"]
    BY <1>1, <1>5 DEF D!Down, D!SplitKey
  <2> HIDE DEF new
  <2>2. /\ new \in Schema /\ new.tables = d.tables
        /\ new.tenantId = d.tenantId /\ new.unique = "alert_id"
        /\ new.mfa = d.mfa /\ new.rows = d.rows
    BY <1>1, <2>1 DEF Schema
  <2>3. Fits(new, 3)
    BY <1>5, <2>2, TableFacts DEF Fits
  <2>4. Models(d, 4) => Models(new, 3)
    BY <2>2 DEF Models, TablesUpTo
  <2>. QED BY <1>5, <2>2, <2>3, <2>4, NoneGoneFacts DEF new
<1>6. CASE k = 6
  <2>1. new = [d EXCEPT !.mfa = FALSE]
    BY <1>1, <1>6 DEF D!Down
  <2> HIDE DEF new
  <2>2. /\ new \in Schema /\ new.tables = d.tables
        /\ new.tenantId = d.tenantId /\ new.unique = d.unique
        /\ new.mfa = FALSE /\ new.rows = d.rows
    BY <1>1, <2>1 DEF Schema
  <2>3. Fits(new, 5)
    BY <1>6, <2>2, TableFacts DEF Fits
  <2>4. Models(d, 6) => Models(new, 5)
    BY <2>2 DEF Models, TablesUpTo
  <2>. QED BY <1>6, <2>2, <2>3, <2>4, NoneGoneFacts DEF new
<1>7. k \in {1, 2, 3, 4, 5, 6}
  OBVIOUS
<1>. QED BY <1>2, <1>3, <1>4, <1>5, <1>6, <1>7

\* Where a downgrade leads
Downwards(d, rev) ==
  d # D!Failed =>
    /\ Fits(d, rev) /\ (rev # 0 => NoneGone(db.rows, d.rows))
    /\ Models(db, revision) => Models(d, rev)

LEMMA DowngradeFacts ==
  ASSUME NEW to \in 0 .. revision, revision \in 0 .. 6, Fits(db, revision)
  PROVE  Downwards(D!Downgraded(to), to)
<1>1. PICK f : /\ f[revision] = db
               /\ \A rev \in 0 .. revision - 1 : f[rev] = D!Down(f[rev + 1], rev + 1)
               /\ \A rev \in 0 .. revision : D!Downgraded(rev) = f[rev]
  BY DowngradedFacts
<1> DEFINE P(n) == n <= revision => Downwards(f[revision - n], revision - n)
<1>2. P(0)
  <2>1. Downwards(db, revision)
    BY NoneGoneFacts DEF Downwards
  <2>. QED BY <1>1, <2>1
<1>3. ASSUME NEW n \in 0 .. 5, P(n) PROVE P(n + 1)
  <2> SUFFICES ASSUME n + 1 <= revision
               PROVE  Downwards(f[revision - (n + 1)], revision - (n + 1))
    OBVIOUS
  <2> DEFINE k == revision - n
             d == f[k]
             new == f[k - 1]
  <2>1. k \in 1 .. 6 /\ k - 1 = revision - (n + 1) /\ k - 1 \in 0 .. revision - 1
        /\ (k - 1) + 1 = k
    OBVIOUS
  <2>2. Downwards(d, k) /\ new = D!Down(d, k)
    <3>1. Downwards(f[revision - n], revision - n)
      BY <1>3
    <3>. QED BY <1>1, <2>1, <3>1
  <2> HIDE DEF d, new, k, P
  <2>3. ASSUME d = D!Failed PROVE Downwards(new, k - 1)
    BY <2>2, <2>3, FailedFacts DEF Downwards
  <2>4. ASSUME d # D!Failed, new # D!Failed PROVE Downwards(new, k - 1)
    <3>1. Fits(d, k) /\ NoneGone(db.rows, d.rows)
      BY <2>1, <2>2, <2>4 DEF Downwards
    <3>2. /\ Fits(new, k - 1) /\ (k # 1 => NoneGone(d.rows, new.rows))
          /\ Models(d, k) => Models(new, k - 1)
      BY <2>1, <2>2, <2>4, <3>1, DownStep
    <3>3. k # 1 => NoneGone(db.rows, new.rows)
      BY <3>1, <3>2, NoneGoneFacts
    <3>4. k - 1 # 0 => k # 1
      BY <2>1
    <3>. QED BY <2>2, <2>4, <3>2, <3>3, <3>4 DEF Downwards
  <2>5. ASSUME new = D!Failed PROVE Downwards(new, k - 1)
    BY <2>5 DEF Downwards
  <2>6. Downwards(new, k - 1)
    BY <2>3, <2>4, <2>5
  <2>. QED BY <2>1, <2>6 DEF new
<1> HIDE DEF P
<1>4. P(1) /\ P(2) /\ P(3) /\ P(4) /\ P(5) /\ P(6)
  <2>1. P(1)
    BY <1>2, <1>3
  <2>2. P(2)
    BY <2>1, <1>3
  <2>3. P(3)
    BY <2>2, <1>3
  <2>4. P(4)
    BY <2>3, <1>3
  <2>5. P(5)
    BY <2>4, <1>3
  <2>6. P(6)
    BY <2>5, <1>3
  <2>. QED BY <2>1, <2>2, <2>3, <2>4, <2>5, <2>6
<1>5. \A n \in 0 .. 6 : P(n)
  BY <1>2, <1>4
<1>6. revision - to \in 0 .. 6 /\ revision - (revision - to) = to /\ revision - to <= revision
  OBVIOUS
<1>. QED BY <1>1, <1>5, <1>6 DEF P

\* create_all adds tables and loses no row; what the models describe, and what
\* is to be stamped, it leaves alone, or "early" says so.
LEMMA CreatedFacts ==
  ASSUME NEW rev \in 0 .. 6, NEW d, Fits(d, rev), NEW app \in {"old", "new"}
  PROVE  LET new == D!Created(d, app) IN
         /\ Fits(new, rev) /\ new.rows = d.rows
         /\ app = "old" /\ (Models(d, rev) \/ Unstamped(d, rev)) =>
              Models(new, rev) \/ Unstamped(new, rev)
<1> DEFINE new == D!Created(d, app)
<1>1. d \in Schema /\ "alerts" \in D!AllTables
  BY TableFacts DEF Fits
<1>2. CASE app = "old"
  <2>1. new = [d EXCEPT !.tables = @ \cup {"alerts"}]
    BY <1>2 DEF D!Created
  <2> HIDE DEF new
  <2>2. /\ new \in Schema /\ new.tables = d.tables \cup {"alerts"}
        /\ new.tenantId = d.tenantId /\ new.unique = d.unique
        /\ new.mfa = d.mfa /\ new.rows = d.rows
    BY <1>1, <2>1 DEF Schema
  <2>3. Fits(new, rev)
    BY <2>2 DEF Fits
  <2>4. Models(d, rev) \/ Unstamped(d, rev) => Models(new, rev) \/ Unstamped(new, rev)
    <3>1. CASE rev = 0
      BY <2>2, <3>1, TableFacts DEF Models, Unstamped, TablesUpTo
    <3>2. CASE rev # 0
      <4>1. "alerts" \in d.tables
        BY <3>2 DEF Fits
      <4>. QED BY <2>2, <3>2, <4>1 DEF Models, Unstamped
    <3>. QED BY <3>1, <3>2
  <2>. QED BY <2>2, <2>3, <2>4 DEF new
<1>3. CASE app = "new"
  <2>1. new = [d EXCEPT !.tables = D!AllTables,
                        !.tenantId = IF "alerts" \in d.tables THEN @ ELSE TRUE,
                        !.unique = IF "alerts" \in d.tables THEN @ ELSE D!Composite,
                        !.mfa = IF "users" \in d.tables THEN @ ELSE TRUE]
    BY <1>3 DEF D!Created
  <2> HIDE DEF new
  <2>2. /\ new \in Schema /\ new.tables = D!AllTables
        /\ new.unique = IF "alerts" \in d.tables THEN d.unique ELSE D!Composite
        /\ new.rows = d.rows
    BY <1>1, <2>1 DEF Schema
  <2>3. Fits(new, rev)
    BY <1>1, <2>2, TableFacts DEF Fits
  <2>. QED BY <1>3, <2>2, <2>3 DEF new
<1>. QED BY <1>2, <1>3

\* The schema fits its revision, and is the one the models describe unless the
\* API got there first.
SchemaInv ==
  /\ revision \in 0 .. 6 /\ early \in BOOLEAN
  /\ Fits(db, revision)
  /\ ~early => Models(db, revision) \/ Unstamped(db, revision)

LEMMA SchemaInit == D!Init => SchemaInv
<1> SUFFICES ASSUME D!Init PROVE SchemaInv
  OBVIOUS
<1>1. revision = 0 /\ early = FALSE
  BY DEF D!Init
<1>2. D!Blank \in Schema /\ Fits(D!Blank, 0) /\ Models(D!Blank, 0)
  <2>1. D!Blank \in Schema
    BY DEF D!Blank, Schema
  <2>2. /\ D!Blank.tables = {} /\ D!Blank.tenantId = FALSE /\ D!Blank.mfa = FALSE
        /\ D!Blank.unique = "alert_id" /\ D!Blank.rows = {}
    BY DEF D!Blank
  <2>3. Fits(D!Blank, 0)
    BY <2>1, <2>2, TableFacts DEF Fits
  <2>4. Models(D!Blank, 0)
    BY <2>2 DEF Models, TablesUpTo
  <2>. QED BY <2>1, <2>3, <2>4
<1>3. Fits(D!Created(D!Blank, "old"), 0)
      /\ (Models(D!Created(D!Blank, "old"), 0) \/ Unstamped(D!Created(D!Blank, "old"), 0))
  BY <1>2, CreatedFacts
<1>4. db = D!Blank \/ db = D!Created(D!Blank, "old")
  BY DEF D!Init
<1>5. Fits(db, 0) /\ (Models(db, 0) \/ Unstamped(db, 0))
  BY <1>2, <1>3, <1>4
<1>6. Fits(db, revision) /\ (Models(db, revision) \/ Unstamped(db, revision))
  BY <1>1, <1>5
<1>7. revision \in 0 .. 6
  BY <1>1
<1>8. early \in BOOLEAN
  BY <1>1
<1>. QED BY <1>6, <1>7, <1>8 DEF SchemaInv

NoRowLost == revision' # 0 => NoneGone(db.rows, db'.rows)

LEMMA SchemaStep ==
  ASSUME SchemaInv, D!Next
  PROVE  SchemaInv' /\ NoRowLost
<1>1. /\ revision \in 0 .. 6 /\ early \in BOOLEAN /\ Fits(db, revision)
      /\ ~early => Models(db, revision) \/ Unstamped(db, revision)
  BY DEF SchemaInv
<1>2. ASSUME NEW to \in 0 .. D!Newest, D!Migrate(to)
      PROVE  SchemaInv' /\ NoRowLost
  <2>1. /\ to \in 0 .. 6 /\ to # revision /\ revision' = to /\ early' = early
        /\ db' = IF to > revision THEN D!Upgraded(to) ELSE D!Downgraded(to)
        /\ db' # D!Failed
    BY <1>2, TableFacts DEF D!Migrate
  <2>2. CASE to > revision
    <3>1. to \in revision .. 6
      BY <1>1, <2>1, <2>2
    <3>2. Upwards(db', to)
      BY <1>1, <2>1, <2>2, <3>1, UpgradeFacts
    <3>. QED BY <1>1, <2>1, <3>2 DEF Upwards, SchemaInv, NoRowLost
  <2>3. CASE ~(to > revision)
    <3>1. to \in 0 .. revision /\ revision # 0
      BY <1>1, <2>1, <2>3
    <3>2. Downwards(db', to)
      BY <1>1, <2>1, <2>3, <3>1, DowngradeFacts
    <3>3. ~Unstamped(db, revision)
      BY <3>1 DEF Unstamped
    <3>. QED BY <1>1, <2>1, <3>2, <3>3 DEF Downwards, SchemaInv, NoRowLost
  <2>. QED BY <2>2, <2>3
<1>3. ASSUME D!Stamp PROVE SchemaInv' /\ NoRowLost
  <2>1. revision = 0 /\ revision' = 1 /\ "alerts" \in db.tables
        /\ db' = db /\ early' = early
    BY <1>3 DEF D!Stamp
  <2>2. Fits(db, 1)
    BY <1>1, <2>1 DEF Fits
  <2>3. ~early => Models(db, 1)
    BY <1>1, <2>1 DEF Models, Unstamped, TablesUpTo
  <2>. QED BY <1>1, <2>1, <2>2, <2>3, NoneGoneFacts DEF SchemaInv, NoRowLost
<1>4. ASSUME NEW app \in {"old", "new"}, D!Start(app)
      PROVE  SchemaInv' /\ NoRowLost
  <2>1. db' = D!Created(db, app) /\ revision' = revision
        /\ early' = (early \/ (app = "new" /\ db' # db))
    BY <1>4 DEF D!Start
  <2>2. /\ Fits(db', revision) /\ db'.rows = db.rows
        /\ app = "old" /\ (Models(db, revision) \/ Unstamped(db, revision)) =>
             Models(db', revision) \/ Unstamped(db', revision)
    BY <1>1, <2>1, CreatedFacts
  <2>3. ~early' => Models(db', revision) \/ Unstamped(db', revision)
    <3>1. CASE app = "old"
      BY <1>1, <2>1, <2>2, <3>1
    <3>2. CASE app = "new" /\ db' = db
      BY <1>1, <2>1, <3>2
    <3>3. CASE app = "new" /\ db' # db
      BY <2>1, <3>3
    <3>. QED BY <3>1, <3>2, <3>3
  <2>4. early' \in BOOLEAN
    BY <1>1, <2>1
  <2>. QED BY <1>1, <2>1, <2>2, <2>3, <2>4, NoneGoneFacts DEF SchemaInv, NoRowLost
<1>5. ASSUME NEW app \in {"old", "new"}, NEW t \in Tenants, NEW a \in Aids,
             D!Insert(app, t, a)
      PROVE  SchemaInv' /\ NoRowLost
  <2> DEFINE row == D!Row(app, t, a)
  <2>1. /\ "alerts" \in db.tables /\ (app = "old" => db.unique # D!Composite)
        /\ db' = [db EXCEPT !.rows = @ \cup {row}]
        /\ revision' = revision /\ early' = early
    BY <1>5 DEF D!Insert
  <2>2. row \in AnyRow /\ HasOwner(row) /\ (app = "new" => row.tenant # D!Null)
    <3>1. D!Null \notin Tenants /\ D!Nobody \notin Tenants
      BY ApiAssumption DEF D!TenantAssumption
    <3>2. CASE app = "new"
      <4>1. row = [aid |-> a, tenant |-> t, owner |-> t]
        BY <3>2 DEF D!Row
      <4>. QED BY <3>1, <4>1 DEF AnyRow, HasOwner
    <3>3. CASE app = "old"
      <4>1. row = [aid |-> a, tenant |-> D!Null, owner |-> D!Nobody]
        BY <3>3 DEF D!Row
      <4>. QED BY <3>1, <3>3, <4>1 DEF AnyRow, HasOwner
    <3>. QED BY <3>2, <3>3
  <2> HIDE DEF row
  <2>3. /\ db' \in Schema /\ db'.tables = db.tables /\ db'.tenantId = db.tenantId
        /\ db'.unique = db.unique /\ db'.mfa = db.mfa
        /\ db'.rows = db.rows \cup {row}
    <3>1. db \in Schema
      BY <1>1 DEF Fits
    <3>. QED BY <2>1, <2>2, <3>1 DEF Schema
  <2>4. Fits(db', revision)
    BY <1>1, <2>1, <2>2, <2>3 DEF Fits
  <2>5. Models(db, revision) \/ Unstamped(db, revision) =>
          Models(db', revision) \/ Unstamped(db', revision)
    BY <2>3 DEF Models, Unstamped
  <2>6. NoneGone(db.rows, db'.rows)
    BY <2>3 DEF NoneGone
  <2>. QED BY <1>1, <2>1, <2>4, <2>5, <2>6 DEF SchemaInv, NoRowLost
<1>. QED BY <1>2, <1>3, <1>4, <1>5 DEF D!Next

\* The head of the revisions is what create_all makes of an empty database.
LEMMA HeadIsCreated ==
  ASSUME NEW d \in Schema, Models(d, 6)
  PROVE  [d EXCEPT !.rows = {}] = D!Created(D!Blank, "new")
<1> DEFINE head == [tables |-> D!AllTables, tenantId |-> TRUE, unique |-> D!Composite,
                    mfa |-> TRUE, rows |-> {}]
<1>1. D!Created(D!Blank, "new") = head
  BY DEF D!Created, D!Blank
<1>2. d.tables = D!AllTables /\ d.tenantId = TRUE /\ d.unique = D!Composite /\ d.mfa = TRUE
  BY TableFacts DEF Models, TablesUpTo, Schema
<1> DEFINE cleared == [d EXCEPT !.rows = {}]
<1>3. /\ cleared \in Schema /\ cleared.tables = d.tables /\ cleared.rows = {}
      /\ cleared.tenantId = d.tenantId /\ cleared.unique = d.unique
      /\ cleared.mfa = d.mfa
  BY DEF Schema
<1> HIDE DEF cleared
<1>4. cleared = head
  BY <1>2, <1>3 DEF Schema
<1>. QED BY <1>1, <1>4 DEF cleared

LEMMA SchemaHolds ==
  ASSUME SchemaInv
  PROVE  D!TypeOK /\ D!OwnerKept /\ D!UpgradeLeadsToModels
<1>1. /\ revision \in 0 .. 6 /\ Fits(db, revision) /\ db \in Schema
      /\ \A row \in db.rows : row \in AnyRow /\ HasOwner(row)
  BY DEF SchemaInv, Fits, Schema
<1>2. D!TypeOK
  <2>1. db.tables \subseteq D!AllTables /\ db.unique \in {"alert_id", D!Composite}
    BY <1>1 DEF Schema
  <2>2. db.unique = D!Composite => \A row \in db.rows : row.tenant # D!Null
    BY <1>1 DEF Fits
  <2>3. \A row \in db.rows : row.aid \in Aids /\ row.tenant \in Tenants \cup {D!Null, D!Default}
    BY <1>1 DEF AnyRow
  <2>. QED BY <1>1, <2>1, <2>2, <2>3, TableFacts DEF D!TypeOK
<1>3. D!OwnerKept
  BY <1>1 DEF D!OwnerKept, HasOwner
<1>4. D!UpgradeLeadsToModels
  <2> SUFFICES ASSUME ~early, revision = 0 => db.tables = {}
               PROVE  /\ D!Upgraded(6) # D!Failed
                      /\ [D!Upgraded(6) EXCEPT !.rows = {}] = D!Created(D!Blank, "new")
    BY TableFacts DEF D!UpgradeLeadsToModels
  <2>1. Models(db, revision)
    BY DEF SchemaInv, Unstamped
  <2>2. Upwards(D!Upgraded(6), 6)
    BY <1>1, UpgradeFacts
  <2>3. D!Upgraded(6) # D!Failed /\ Models(D!Upgraded(6), 6) /\ D!Upgraded(6) \in Schema
    BY <2>1, <2>2 DEF Upwards, Fits
  <2>. QED BY <2>3, HeadIsCreated
<1>. QED BY <1>2, <1>3, <1>4

\* Upgrades, downgrades and writers of two versions keep the owners of the rows
\* and lose no alert, and the way to the head stays open.
THEOREM SchemasAreSound == ApiSpec => SchemaSound
<1>1. ApiInit => SchemaInv
  BY SchemaInit DEF ApiInit
<1>2. SchemaInv /\ [ApiNext]_apiVars => SchemaInv'
  <2>1. SchemaInv /\ D!Next => SchemaInv'
    BY SchemaStep
  <2>2. SchemaInv /\ UNCHANGED schema => SchemaInv'
    BY DEF SchemaInv, schema
  <2>3. [ApiNext]_apiVars => D!Next \/ UNCHANGED schema
    BY DEF ApiNext, apiVars, Terminal
  <2>. QED BY <2>1, <2>2, <2>3
<1>3. SchemaInv /\ [ApiNext]_apiVars =>
        [revision' # 0 => \A r \in db.rows : \E s \in db'.rows :
            s.aid = r.aid /\ s.owner \in {r.owner, D!Nobody}]_(D!vars)
  <2>1. SchemaInv /\ D!Next => NoRowLost
    BY SchemaStep
  <2>2. [ApiNext]_apiVars => D!Next \/ UNCHANGED D!vars
    BY DEF ApiNext, apiVars, Terminal, schema, D!vars
  <2>. QED BY <2>1, <2>2 DEF NoRowLost, NoneGone
<1>4. SchemaInv => /\ D!TypeOK /\ D!OwnerKept
                   /\ part = "schema" => D!UpgradeLeadsToModels
  BY SchemaHolds
<1>. QED BY <1>1, <1>2, <1>3, <1>4, PTL DEF ApiSpec, SchemaSound, D!NoAlertLost
=============================================================================
