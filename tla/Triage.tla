------------------------------- MODULE Triage -------------------------------
(***************************************************************************)
(* The triage state of incidents (api/routes/triage.py) and the audit      *)
(* entries it leaves (api/audit.py).                                       *)
(*                                                                         *)
(* A request selects the row, commits what it makes of it and then commits *)
(* the audit entry, each in a transaction of its own at READ COMMITTED.    *)
(* SQLAlchemy writes the columns that differ from the row as it was read.  *)
(* The rows are those of one tenant: every query is limited to it.         *)
(***************************************************************************)
EXTENDS Naturals, Sequences

CONSTANTS
  Requests,     \* calls of POST /triage/{incident_id}
  Incidents,
  Statuses,     \* VALID_TRIAGE_STATUSES
  Users,
  None,
  Rows,         \* contents of the table at the start
  Log,          \* the audit entries those rows left
  MaxFailures   \* bound: audit entries that are not written

Row == [status : Statuses, actor : Users]
Entry == [incident : Incidents, status : Statuses, actor : Users]

\* An assumption; the module that instantiates this one makes it.
TriageAssumption ==
  /\ None \notin Users \cup Row /\ MaxFailures \in Nat
  /\ Rows \in [Incidents -> Row \cup {None}]
  /\ Log \in Seq(Entry)
  /\ \A i \in Incidents :
       \/ Rows[i] = None
       \/ \E k \in DOMAIN Log :
            Log[k].incident = i /\ Log[k].status = Rows[i].status

VARIABLES
  rows,
  audit,
  req,        \* what each request is doing
  failures,   \* audit entries lost
  mixed       \* history: rows one request changed behind another's back

vars == <<rows, audit, req, failures, mixed>>

Idle == [pc |-> "idle", incident |-> None, new |-> None, row |-> None]

Init ==
  /\ rows = Rows
  /\ audit = Log
  /\ req = [r \in Requests |-> Idle]
  /\ failures = 0
  /\ mixed = {}

At(r, pc) == req[r].pc = pc
Goto(r, pc) == req' = [req EXCEPT ![r].pc = pc]

\* An analyst's session; the service key is turned away
Select(r) ==
  /\ At(r, "idle")
  /\ \E i \in Incidents, row \in Row :
       req' = [req EXCEPT ![r] = [pc |-> "commit", incident |-> i,
                                  new |-> row, row |-> rows[i]]]
  /\ UNCHANGED <<rows, audit, failures, mixed>>

\* Fault: only the status is written.
UpdatedStatus(stored, read, new) == [stored EXCEPT !.status = new.status]

\* Columns whose new value is the one that was read are not written
Updated(stored, read, new) ==
  [c \in DOMAIN new |-> IF new[c] = read[c] THEN stored[c] ELSE new[c]]

\* uq_incident_triage_tenant_incident: the second of two inserts raises
Commit(r) ==
  /\ At(r, "commit")
  /\ LET i == req[r].incident
         stored == rows[i] IN
     \/ /\ req[r].row = None /\ stored # None
        /\ Goto(r, "raised")
        /\ UNCHANGED <<rows, mixed>>
     \/ /\ req[r].row = None /\ stored = None
        /\ rows' = [rows EXCEPT ![i] = req[r].new]
        /\ Goto(r, "audit")
        /\ UNCHANGED mixed
     \/ /\ req[r].row # None
        /\ rows' = [rows EXCEPT ![i] = Updated(@, req[r].row, req[r].new)]
        /\ mixed' = IF stored = req[r].row THEN mixed ELSE mixed \cup {i}
        /\ Goto(r, "audit")
  /\ UNCHANGED <<audit, failures>>

\* Fault: an update of a row leaves no entry.
RecordedFirst(r) ==
  IF req[r].row # None THEN audit ELSE
  Append(audit, [incident |-> req[r].incident, status |-> req[r].new.status,
                 actor |-> req[r].new.actor])

Recorded(r) ==
  Append(audit, [incident |-> req[r].incident, status |-> req[r].new.status,
                 actor |-> req[r].new.actor])

\* record_audit_event swallows a failure
Record(r) ==
  /\ At(r, "audit")
  /\ \/ audit' = Recorded(r) /\ UNCHANGED failures
     \/ /\ failures < MaxFailures /\ failures' = failures + 1
        /\ UNCHANGED audit
  /\ Goto(r, "answered")
  /\ UNCHANGED <<rows, mixed>>

Handle(r) == Select(r) \/ Commit(r) \/ Record(r)

-----------------------------------------------------------------------------
(* Properties                                                              *)

\* However requests overlap, the status a row has was set by somebody the
\* audit trail names, or will name once the entry is committed (an entry
\* that could not be written aside).
StatusIsAudited ==
  \A i \in Incidents :
    \/ rows[i] = None \/ failures > 0
    \/ \E k \in DOMAIN audit :
         audit[k].incident = i /\ audit[k].status = rows[i].status
    \/ \E r \in Requests :
         /\ At(r, "audit") /\ req[r].incident = i
         /\ req[r].new.status = rows[i].status

\* The actor a row names set the status it shows, unless a request wrote
\* over a row that had changed since it was read: then the columns of two
\* requests may stand side by side.
ActorSetStatus ==
  \A i \in Incidents \ mixed :
    \/ rows[i] \in {None, Rows[i]}
    \/ \E r \in Requests :
         /\ req[r].pc \in {"audit", "answered"} /\ req[r].incident = i
         /\ req[r].new = rows[i]
=============================================================================
