------------------------------ MODULE Accounts ------------------------------
(***************************************************************************)
(* Sign-up, login, MFA, invitations, password links and deactivation       *)
(* (api/routes/auth.py) over the users table and the Redis keys of         *)
(* api/deps.py: the lock-out counter and the denylist of tokens.           *)
(*                                                                         *)
(* A request runs in a thread of its own; each of its actions is one round *)
(* trip to Redis or to the database, and what a handler read is kept in    *)
(* the request until it commits.  SQLAlchemy writes the columns that       *)
(* differ from the row as it was read, and no others.                      *)
(*                                                                         *)
(* Time runs in half seconds, so that int() of a remaining life has        *)
(* something to cut off.  A user is named by its email, unique and never   *)
(* changed.  Passwords, hashes and the audit entries are left out: whether *)
(* a password or a code is right is an input.                              *)
(***************************************************************************)
EXTENDS Integers, Sequences, FiniteSets

CONSTANTS
  Slots,         \* requests served at the same time
  Emails,
  Tenants,       \* tenants at the start, by the address that signed up
  None,
  MaxAttempts,   \* LOGIN_LOCKOUT_MAX_ATTEMPTS
  Window,        \* LOGIN_LOCKOUT_WINDOW_SEC
  Life,          \* seconds a token of each kind lives
  Rows,          \* possible contents of the users table at the start
  Tokens,        \* the tokens in circulation at the start
  Fails,         \* failed attempts counted at the start
  MaxTime,       \* bound: half seconds
  MaxRequests,   \* bound: requests
  MaxFaults      \* bound: Redis errors and requests cut short

Kinds == {"session", "mfa", "link"}
Roles == {"admin", "analyst"}          \* may manage users, or may not
Row == [tenant: Nat, role: Roles, active: BOOLEAN,
        secret: Nat, mfa: BOOLEAN]     \* secret 0: none
Token == [kind: Kinds, user: Emails, exp: Nat,
          deny: Nat,          \* the denylist entry is gone at this time
          retired: BOOLEAN,   \* history: a revocation of it succeeded
          uses: Nat]          \* history: times it was traded in

ASSUME SlotsAssumption == IsFiniteSet(Slots) /\ None \notin Emails \cup Nat \cup Row
ASSUME LockoutAssumption == MaxAttempts \in Nat \ {0} /\ Window \in Nat \ {0}
ASSUME LifeAssumption == Life \in [Kinds -> Nat \ {0}]
ASSUME RowsAssumption ==
  /\ Tenants \in Seq(Emails)
  /\ Rows \subseteq [Emails -> {r \in Row : r.tenant \in DOMAIN Tenants} \cup {None}]
  /\ \A table \in Rows, t \in DOMAIN Tenants :
       table[Tenants[t]] # None /\ table[Tenants[t]].tenant = t
ASSUME TokensAssumption ==
  /\ Tokens \in Seq(Token)
  /\ \A i \in DOMAIN Tokens :
       /\ ~Tokens[i].retired /\ Tokens[i].deny = 0 /\ Tokens[i].uses = 0
       /\ \A table \in Rows : table[Tokens[i].user] # None
ASSUME FailsAssumption == Fails \in Nat /\ Fails < MaxAttempts
ASSUME BoundsAssumption ==
  MaxTime \in Nat /\ MaxRequests \in Nat /\ MaxFaults \in Nat

VARIABLES
  now,
  users,     \* the row of each email
  tenants,   \* rows of the tenants table, the id being the index
  tokens,    \* tokens that reached somebody, with their denylist entry
  fails,     \* tsoc:login_fail:<email>, 0 where the key is missing
  ttl,       \* when that key is gone, 0 where it has no expiry
  minted,    \* TOTP secrets generated so far
  req,       \* the request each slot serves
  started,
  faults,
  proved,    \* history: secrets a code was accepted for at enrolment
  spoiled,   \* history: users whose MFA columns were written blindly
  invited    \* history: users an invitation made

vars == <<now, users, tenants, tokens, fails, ttl, minted, req, started,
          faults, proved, spoiled, invited>>
rows == <<users, tenants>>
counter == <<fails, ttl>>
history == <<minted, proved, spoiled, invited>>

Idle == [op |-> "none", pc |-> "idle", email |-> None, by |-> None,
         tenant |-> None, tok |-> 0, row |-> None]

Init ==
  /\ now = 0
  /\ users \in Rows
  /\ tenants = Tenants
  /\ tokens = Tokens
  /\ fails = [e \in Emails |-> Fails]
  /\ ttl = [e \in Emails |-> IF Fails = 0 THEN 0 ELSE 2 * Window]
  /\ proved = {users[e].secret : e \in {m \in Emails : users[m] # None /\ users[m].mfa}}
  /\ minted = 1 /\ spoiled = {} /\ invited = {}
  /\ req = [s \in Slots |-> Idle]
  /\ started = 0 /\ faults = 0

-----------------------------------------------------------------------------
(* Helpers                                                                 *)

Ok == faults' = faults
Fault == faults < MaxFaults /\ faults' = faults + 1

At(s, pc) == req[s].pc = pc
Goto(s, pc) == req' = [req EXCEPT ![s].pc = pc]
Finish(s) == req' = [req EXCEPT ![s] = Idle]

\* A request arrives and takes a free slot
Arrives(s) == At(s, "idle") /\ started < MaxRequests /\ started' = started + 1

Exists(e) == users[e] # None
Active(e) == Exists(e) /\ users[e].active
ActiveAdmins(t) ==
  {e \in Emails : Active(e) /\ users[e].tenant = t /\ users[e].role = "admin"}

\* exp is a whole number of seconds in the encoded token
NewToken(kind, e) ==
  [kind |-> kind, user |-> e, exp |-> 2 * ((now + 2 * Life[kind]) \div 2),
   deny |-> 0, retired |-> FALSE, uses |-> 0]

Decodes(t) == t \in DOMAIN tokens /\ now < tokens[t].exp
Denied(t) == now < tokens[t].deny

\* is_token_revoked lets the caller pass when Redis does not answer
NotRevoked(t) == \/ ~Denied(t) /\ Ok
                 \/ Fault

\* Fault: the life of the entry is not what is left of the token's.
RevokedHalf(t) ==
  [tokens EXCEPT ![t].retired = TRUE,
                 ![t].deny = now + (tokens[t].exp - now) \div 2]

\* revoke_jti: nothing is stored for less than a whole second
Revoked(t) ==
  LET left == (tokens[t].exp - now) \div 2 IN
  [tokens EXCEPT ![t].retired = TRUE,
                 ![t].deny = IF left <= 0 THEN @ ELSE now + 2 * left]

\* Fault: a link is not revoked once its password is committed.
RevokeOthers(t) ==
  \/ tokens' = (IF tokens[t].kind = "link" THEN tokens ELSE Revoked(t)) /\ Ok
  \/ UNCHANGED tokens /\ Fault

Revoke(t) ==
  \/ tokens' = (IF Decodes(t) THEN Revoked(t) ELSE tokens) /\ Ok
  \/ UNCHANGED tokens /\ Fault

-----------------------------------------------------------------------------
(* Login and its lock-out counter                                          *)

\* Fault: the failure that reaches the limit does not lock.
LockedOutLate(e) == fails[e] > MaxAttempts

LockedOut(e) == fails[e] >= MaxAttempts

\* Fault: the counter is compared before it was incremented.
FirstFailureLate(e) == fails[e] = 1

FirstFailure(e) == fails[e] = 0

\* Fault: a success takes back one failure, counted or not.
ClearedOne(e) == [fails EXCEPT ![e] = @ - 1]

Cleared(e) == [fails EXCEPT ![e] = 0]

\* is_locked_out, which a Redis error answers with no
LoginStart(s) ==
  /\ Arrives(s)
  /\ \E e \in Emails :
       /\ \/ ~LockedOut(e) /\ Ok
          \/ Fault
       /\ req' = [req EXCEPT ![s] =
                    [Idle EXCEPT !.op = "login", !.pc = "find", !.email = e]]
  /\ UNCHANGED <<now, rows, tokens, counter, history>>

\* The active user of that address, and its password
Find(s) ==
  /\ At(s, "find")
  /\ LET e == req[s].email IN
     \/ Active(e) /\ req' = [req EXCEPT ![s].pc = "clear", ![s].row = users[e]]
     \/ Goto(s, "miss")
  /\ UNCHANGED <<now, rows, tokens, counter, history, started, faults>>

\* INCR of record_failed_login
Miss(s) ==
  /\ At(s, "miss")
  /\ LET e == req[s].email IN
     \/ /\ fails' = [fails EXCEPT ![e] = @ + 1]
        /\ IF FirstFailure(e) THEN Goto(s, "expire") ELSE Finish(s)
        /\ Ok
     \/ Finish(s) /\ Fault /\ UNCHANGED fails
  /\ UNCHANGED <<now, rows, tokens, ttl, history, started>>

\* EXPIRE of record_failed_login, for the first failure only
Expire(s) ==
  /\ At(s, "expire")
  /\ LET e == req[s].email IN
     \/ ttl' = (IF fails[e] = 0 THEN ttl
                ELSE [ttl EXCEPT ![e] = now + 2 * Window]) /\ Ok
     \/ UNCHANGED ttl /\ Fault
  /\ Finish(s)
  /\ UNCHANGED <<now, rows, tokens, fails, history, started>>

\* clear_failed_logins
Clear(s) ==
  /\ At(s, "clear")
  /\ LET e == req[s].email IN
     \/ fails' = Cleared(e) /\ ttl' = [ttl EXCEPT ![e] = 0] /\ Ok
     \/ UNCHANGED counter /\ Fault
  /\ Goto(s, "issue")
  /\ UNCHANGED <<now, rows, tokens, history, started>>

\* The answer to a login, to an MFA code and to a sign-up
Issue(s) ==
  /\ At(s, "issue")
  /\ LET challenge == req[s].op = "login" /\ req[s].row.mfa IN
     tokens' = Append(tokens, NewToken(IF challenge THEN "mfa" ELSE "session",
                                       req[s].email))
  /\ Finish(s)
  /\ UNCHANGED <<now, rows, counter, history, started, faults>>

-----------------------------------------------------------------------------
(* The second step of a login                                              *)

VerifyStart(s) ==
  /\ Arrives(s)
  /\ \E t \in DOMAIN tokens :
       /\ Decodes(t) /\ tokens[t].kind = "mfa"
       /\ NotRevoked(t)
       /\ req' = [req EXCEPT ![s] = [Idle EXCEPT !.op = "verify", !.pc = "code",
                                       !.email = tokens[t].user, !.tok = t]]
  /\ UNCHANGED <<now, rows, tokens, counter, history>>

Code(s) ==
  /\ At(s, "code")
  /\ LET e == req[s].email IN
     \/ Active(e) /\ users[e].mfa /\ users[e].secret # 0 /\ Goto(s, "revoke")
     \/ Finish(s)
  /\ UNCHANGED <<now, rows, tokens, counter, history, started, faults>>

\* The token is spent: after an MFA code before the session exists, after a
\* password link once the new password is committed
Spend(s) ==
  /\ At(s, "revoke")
  /\ \/ /\ req[s].op = "verify"
        /\ Goto(s, "issue")
     \/ /\ req[s].op = "accept"
        /\ Finish(s)
  /\ Revoke(req[s].tok)
  /\ UNCHANGED <<now, rows, counter, history, started>>

\* Any token may be logged out; one that does not decode is ignored
Logout(s) ==
  /\ Arrives(s)
  /\ \E t \in DOMAIN tokens : Decodes(t) /\ Revoke(t)
  /\ UNCHANGED <<now, rows, counter, history, req>>

-----------------------------------------------------------------------------
(* Requests of a principal that holds users:manage: an administrator's     *)
(* session, or the service key (token 0), which belongs to no user         *)

Principal(t) == IF t = 0 THEN None ELSE tokens[t].user

MayManage(t) ==
  t # 0 => /\ Decodes(t)
           /\ tokens[t].kind = "session"
           /\ users[tokens[t].user].role = "admin"

OwnTenant(t, tenant) == t # 0 => users[tokens[t].user].tenant = tenant

\* On the principal's own row: enroll, confirm and disable
OwnStart(s) ==
  /\ Arrives(s)
  /\ \E op \in {"enroll", "confirm", "disable"}, t \in DOMAIN tokens :
       /\ MayManage(t) /\ NotRevoked(t)
       /\ req' = [req EXCEPT ![s] = [Idle EXCEPT !.op = op, !.pc = "read",
                                       !.email = tokens[t].user]]
  /\ UNCHANGED <<now, rows, tokens, counter, history>>

InviteStart(s) ==
  /\ Arrives(s)
  /\ \E t \in {0} \cup DOMAIN tokens, e \in Emails, tenant \in DOMAIN tenants :
       /\ MayManage(t) /\ OwnTenant(t, tenant)
       /\ IF t = 0 THEN Ok ELSE NotRevoked(t)
       /\ ~Exists(e)
       /\ req' = [req EXCEPT ![s] = [Idle EXCEPT !.op = "invite",
                                       !.pc = "insert", !.email = e,
                                       !.tenant = tenant]]
  /\ UNCHANGED <<now, rows, tokens, counter, history>>

\* Fault: the own account is not refused.
MayTurnOutAnyone(t, e) == TRUE

\* Nobody deactivates the own account
MayTurnOut(t, e) == e # Principal(t)

DeactivateStart(s) ==
  /\ Arrives(s)
  /\ \E t \in {0} \cup DOMAIN tokens, e \in {m \in Emails : Exists(m)} :
       /\ MayManage(t) /\ OwnTenant(t, users[e].tenant)
       /\ IF t = 0 THEN Ok ELSE NotRevoked(t)
       /\ MayTurnOut(t, e)
       /\ req' = [req EXCEPT ![s] = [Idle EXCEPT !.op = "deactivate",
                                       !.pc = "read", !.email = e,
                                       !.by = Principal(t)]]
  /\ UNCHANGED <<now, rows, tokens, counter, history>>

-----------------------------------------------------------------------------
(* Password links                                                          *)

\* The address of an active user is sent a link; the mail may be lost
RequestReset(s) ==
  /\ Arrives(s)
  /\ \E e \in Emails :
       /\ Active(e)
       /\ tokens' = Append(tokens, NewToken("link", e))
  /\ UNCHANGED <<now, rows, counter, history, req, faults>>

AcceptStart(s) ==
  /\ Arrives(s)
  /\ \E t \in DOMAIN tokens :
       /\ Decodes(t) /\ tokens[t].kind = "link"
       /\ NotRevoked(t)
       /\ req' = [req EXCEPT ![s] = [Idle EXCEPT !.op = "accept", !.pc = "read",
                                       !.email = tokens[t].user, !.tok = t]]
  /\ UNCHANGED <<now, rows, tokens, counter, history>>

-----------------------------------------------------------------------------
(* Reading a row and committing what was made of it                        *)

CodeMayBeRight(op, row) ==
  CASE op = "confirm" -> row.secret # 0
    [] op = "disable" -> row.mfa /\ row.secret # 0
    [] OTHER -> TRUE

Read(s) ==
  /\ At(s, "read")
  /\ LET r == req[s]
         row == users[r.email] IN
     \/ /\ CodeMayBeRight(r.op, row)
        /\ req' = [req EXCEPT ![s].pc = "write", ![s].row = row]
        /\ proved' = IF r.op = "confirm" THEN proved \cup {row.secret}
                     ELSE proved
     \/ /\ r.op \in {"confirm", "disable"}   \* a wrong code, or none to check
        /\ Finish(s)
        /\ UNCHANGED proved
  /\ UNCHANGED <<now, rows, tokens, counter, minted, spoiled, invited, started, faults>>

\* Fault: enrolment switches MFA on before a code was seen.
EnrolledOn(old) == [old EXCEPT !.secret = minted + 1, !.mfa = TRUE]

Enrolled(old) == [old EXCEPT !.secret = minted + 1]

Confirmed(old, row) == IF row.mfa THEN old ELSE [old EXCEPT !.mfa = TRUE]

Disabled(old) == [old EXCEPT !.mfa = FALSE, !.secret = 0]

Deactivated(old, row) ==
  IF row.active THEN [old EXCEPT !.active = FALSE] ELSE old

\* Accepting an invitation activates the account
Accepted(old, row) == IF row.active THEN old ELSE [old EXCEPT !.active = TRUE]

\* The row now stored, given the row as it was read
Written(op, old, row) ==
  CASE op = "enroll"     -> Enrolled(old)
    [] op = "confirm"    -> Confirmed(old, row)
    [] op = "disable"    -> Disabled(old)
    [] op = "deactivate" -> Deactivated(old, row)
    [] op = "accept"     -> Accepted(old, row)

Blind(op, old, row) ==
  /\ op \in {"enroll", "confirm", "disable"}
  /\ \/ <<old.secret, old.mfa>> # <<row.secret, row.mfa>>
     \/ op = "enroll" /\ old.mfa

Write(s) ==
  /\ At(s, "write")
  /\ LET r == req[s]
         old == users[r.email] IN
     /\ users' = [users EXCEPT ![r.email] = Written(r.op, old, r.row)]
     /\ minted' = IF r.op = "enroll" THEN minted + 1 ELSE minted
     /\ spoiled' = IF Blind(r.op, old, r.row) THEN spoiled \cup {r.email}
                   ELSE spoiled
     /\ IF r.op = "accept"
        THEN /\ tokens' = [tokens EXCEPT ![r.tok].uses = @ + 1]
             /\ Goto(s, "revoke")
        ELSE UNCHANGED tokens /\ Finish(s)
  /\ UNCHANGED <<now, tenants, counter, proved, invited, started, faults>>

-----------------------------------------------------------------------------
(* New rows                                                                *)

SignupStart(s) ==
  /\ Arrives(s)
  /\ \E e \in Emails :
       /\ ~Exists(e)
       /\ req' = [req EXCEPT ![s] = [Idle EXCEPT !.op = "signup",
                                       !.pc = "tenant", !.email = e]]
  /\ UNCHANGED <<now, rows, tokens, counter, history, faults>>

\* The tenant is committed before its first user
CreateTenant(s) ==
  /\ At(s, "tenant")
  /\ tenants' = Append(tenants, req[s].email)
  /\ req' = [req EXCEPT ![s].pc = "insert", ![s].tenant = Len(tenants) + 1]
  /\ UNCHANGED <<now, users, tokens, counter, history, started, faults>>

\* Fault: the user lands in the first tenant.
NewRowElsewhere(r, role) ==
  [tenant |-> 1, role |-> IF r.op = "signup" THEN "admin" ELSE role,
   active |-> r.op = "signup", secret |-> 0, mfa |-> FALSE]

\* An invitation names the role.
NewRow(r, role) ==
  [tenant |-> r.tenant, role |-> IF r.op = "signup" THEN "admin" ELSE role,
   active |-> r.op = "signup", secret |-> 0, mfa |-> FALSE]

\* email is UNIQUE: the second of two inserts raises.  The link of an
\* invitation may be lost with its mail.
Insert(s) ==
  /\ At(s, "insert")
  /\ LET r == req[s] IN
     \/ Exists(r.email) /\ Finish(s) /\ UNCHANGED <<users, tokens, invited>>
     \/ /\ ~Exists(r.email)
        /\ \E role \in Roles : users' = [users EXCEPT ![r.email] = NewRow(r, role)]
        /\ \/ r.op = "signup" /\ Goto(s, "issue") /\ UNCHANGED <<tokens, invited>>
           \/ /\ r.op = "invite" /\ Finish(s)
              /\ invited' = invited \cup {r.email}
              /\ tokens' \in {tokens, Append(tokens, NewToken("link", r.email))}
  /\ UNCHANGED <<now, tenants, counter, minted, proved, spoiled, started, faults>>

-----------------------------------------------------------------------------
(* Time and failures                                                       *)

\* Redis drops the keys whose time has come
Tick ==
  /\ now < MaxTime
  /\ now' = now + 1
  /\ LET gone == {e \in Emails : ttl[e] # 0 /\ ttl[e] <= now'} IN
     /\ fails' = [e \in Emails |-> IF e \in gone THEN 0 ELSE fails[e]]
     /\ ttl' = [e \in Emails |-> IF e \in gone THEN 0 ELSE ttl[e]]
  /\ UNCHANGED <<rows, tokens, history, req, started, faults>>

\* The process is killed, or the database refuses the statement
Die(s) ==
  /\ ~At(s, "idle")
  /\ Fault
  /\ Finish(s)
  /\ UNCHANGED <<now, rows, tokens, counter, history, started>>

Handle(s) ==
  \/ LoginStart(s) \/ Find(s) \/ Miss(s) \/ Expire(s) \/ Clear(s) \/ Issue(s)
  \/ VerifyStart(s) \/ Code(s) \/ Spend(s) \/ Logout(s)
  \/ OwnStart(s) \/ InviteStart(s) \/ DeactivateStart(s)
  \/ RequestReset(s) \/ AcceptStart(s) \/ Read(s) \/ Write(s)
  \/ SignupStart(s) \/ CreateTenant(s) \/ Insert(s) \/ Die(s)

\* The bounds are used up and every request was answered
Quiet ==
  /\ now = MaxTime /\ started = MaxRequests /\ \A s \in Slots : At(s, "idle")
  /\ UNCHANGED vars

Next == Tick \/ Quiet \/ \E s \in Slots : Handle(s)

Spec == Init /\ [][Next]_vars

-----------------------------------------------------------------------------
(* Properties                                                              *)

Request ==
  [op: {"none", "login", "verify", "enroll", "confirm", "disable", "invite",
        "deactivate", "accept", "signup"},
   pc: {"idle", "find", "miss", "expire", "clear", "issue", "code", "revoke",
        "read", "write", "tenant", "insert"},
   email: Emails \cup {None}, by: Emails \cup {None},
   tenant: Nat \cup {None}, tok: Nat, row: Row \cup {None}]

TypeOK ==
  /\ now \in Nat
  /\ users \in [Emails -> Row \cup {None}]
  /\ tenants \in Seq(Emails)
  /\ tokens \in Seq(Token)
  /\ fails \in [Emails -> Nat] /\ ttl \in [Emails -> Nat]
  /\ minted \in Nat /\ proved \subseteq Nat
  /\ spoiled \subseteq Emails /\ invited \subseteq Emails
  /\ req \in [Slots -> Request]
  /\ started \in Nat /\ faults \in 0..MaxFaults

\* A token that was logged out or spent stays refused for as long as it
\* decodes, but for less than a second at the very end: the denylist entry
\* of revoke_jti lives a whole number of seconds.
RevokedStaysRevoked ==
  \A t \in DOMAIN tokens :
    tokens[t].retired /\ now + 1 < tokens[t].exp => Denied(t)

\* A password link is traded in at most once per request being served,
\* however many requests present it: whoever commits a password with it
\* leaves it revoked behind (confirm_password_reset checks, uses and revokes
\* it in three steps).  Redis errors and the last second aside.
LinkUsesBounded ==
  \A t \in DOMAIN tokens :
    faults = 0 /\ now + 1 < tokens[t].exp
      => tokens[t].uses <= Cardinality(Slots)

\* A lock-out ends: a counter without an expiry is one whose first failure
\* is being recorded right now, unless Redis failed or the process died
\* between the INCR and the EXPIRE of record_failed_login.
LockoutEnds ==
  \A e \in Emails :
    fails[e] # 0 /\ ttl[e] = 0 /\ faults = 0
      => \E s \in Slots : At(s, "expire") /\ req[s].email = e

\* Requests that passed the check of the counter together can overrun it,
\* but by no more than there are slots (and Redis errors).
AttemptsBounded ==
  \A e \in Emails :
    fails[e] < MaxAttempts + Cardinality(Slots) + faults

\* MFA is on only with a secret for which a code was accepted at enrolment,
\* but where a commit of enroll, confirm or disable wrote over columns that
\* changed after they were read, or an enrolment replaced a secret in use.
MfaProved ==
  \A e \in Emails :
    Exists(e) /\ users[e].mfa => users[e].secret \in proved \/ e \in spoiled

\* A tenant without a user is one whose sign-up is between its two commits,
\* or lost its address to an invitation or another sign-up that was faster,
\* or died.
TenantHasUser ==
  \A t \in DOMAIN tenants :
    LET e == tenants[t] IN
    \/ Exists(e) /\ \/ users[e].tenant = t
                    \/ e \in invited
                    \/ tenants[users[e].tenant] = e
    \/ \E s \in Slots : At(s, "insert") /\ req[s].tenant = t
    \/ faults > 0

\* The last active administrator of a tenant is turned out only by the
\* service key or by an administrator who was turned out before and still
\* holds a session: deactivate_user refuses the own account, and revokes no
\* session.
LastAdmin ==
  [][\A t \in DOMAIN tenants :
       ActiveAdmins(t) # {} /\ ActiveAdmins(t)' = {}
         => \E s \in Slots :
              /\ req[s].op = "deactivate" /\ At(s, "write")
              /\ \/ req[s].by = None
                 \/ ~Active(req[s].by)]_vars

\* Tokens: what was given up stays refused, and a link is used no more often
\* than its requests overlap.
TokensSound == RevokedStaysRevoked /\ LinkUsesBounded

\* Lock-outs: they end, and they begin in time.
LockoutSound == LockoutEnds /\ AttemptsBounded

\* Rows of users: MFA is on with a proved secret, and a tenant has a user.
RowsSound == TypeOK /\ MfaProved /\ TenantHasUser
=============================================================================
