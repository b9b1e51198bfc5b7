--------------------------- MODULE AccountsProofs ----------------------------
(***************************************************************************)
(* Theorems about Accounts, for every number of requests served at a time, *)
(* every set of addresses, rows and tokens, and every limit of the         *)
(* lock-out.                                                               *)
(***************************************************************************)
EXTENDS Accounts, FiniteSetTheorems, SequenceTheorems, TLAPS

-----------------------------------------------------------------------------
(* The inductive invariant *)

\* The row of a user that an invitation or a sign-up made is in a tenant; every
\* token is for a user with a row.
RowsTyped ==
  /\ \A e \in Emails : Exists(e) => users[e].tenant \in DOMAIN tenants
  /\ \A t \in DOMAIN tokens : Exists(tokens[t].user)

\* A sign-up found its address free.  If somebody has it by now, then by an
\* invitation, or as the one who signed up the tenant of that row.
StillFree(e) == Exists(e) => e \in invited \/ tenants[users[e].tenant] = e

\* What a request has read and checked still holds while it waits.
Sound(r) ==
  /\ IF r.pc = "idle" THEN r.op = "none" ELSE r.email \in Emails
  /\ r.pc \in {"clear", "issue", "code", "revoke", "read", "write"} => Exists(r.email)
  /\ r.op \in {"verify", "accept"} => r.tok \in DOMAIN tokens
  /\ r.pc \in {"read", "write"} =>
       r.op \in {"enroll", "confirm", "disable", "deactivate", "accept"}
  /\ r.pc = "code" => r.op = "verify"
  /\ r.pc = "write" => r.row \in Row
  /\ r.pc = "write" /\ r.op = "confirm" => r.row.secret \in proved
  /\ r.pc = "tenant" => r.op = "signup"
  /\ r.pc \in {"tenant", "insert"} /\ r.op = "signup" => StillFree(r.email)
  /\ r.pc = "insert" =>
       /\ r.op \in {"signup", "invite"} /\ r.tenant \in DOMAIN tenants
       /\ r.op = "signup" => tenants[r.tenant] = r.email
  /\ r.op = "deactivate" /\ r.by # None =>
       /\ r.by # r.email /\ Exists(r.by) /\ Exists(r.email)
       /\ users[r.by].role = "admin" /\ users[r.by].tenant = users[r.email].tenant

RequestsSound == \A s \in Slots : Sound(req[s])

AccountsInv == TypeOK /\ RowsTyped /\ RequestsSound

-----------------------------------------------------------------------------
(* Rows, tokens and requests *)

\* Half of a number, and what doubling it leaves
LEMMA HalfFacts ==
  \A n \in Nat : n \div 2 \in Nat /\ 2 * (n \div 2) <= n /\ n <= 2 * (n \div 2) + 1
OBVIOUS

LEMMA IdleFacts ==
  Idle \in Request /\ Sound(Idle)
<1>1. Idle \in Request
  BY DEF Idle, Request
<1>2. Sound(Idle)
  BY DEF Idle, Sound
<1>. QED BY <1>1, <1>2

\* The same of the next state
LEMMA IdleSound ==
  ASSUME NEW s \in Slots, req'[s] = Idle
  PROVE  Sound(req[s])'
BY DEF Idle, Sound

LEMMA NewTokenFacts ==
  ASSUME TypeOK, NEW kind \in Kinds, NEW e \in Emails
  PROVE  /\ NewToken(kind, e) \in Token /\ NewToken(kind, e).user = e
         /\ ~NewToken(kind, e).retired /\ NewToken(kind, e).uses = 0
<1>1. Life[kind] \in Nat /\ now \in Nat
  BY LifeAssumption DEF TypeOK
<1>2. (now + 2 * Life[kind]) \div 2 \in Nat
  BY <1>1, HalfFacts
<1>3. 2 * ((now + 2 * Life[kind]) \div 2) \in Nat
  BY <1>2
<1>. QED BY <1>3 DEF NewToken, Token

\* A revocation changes the token's denylist entry and marks it.
LEMMA RevokedFacts ==
  ASSUME TypeOK, NEW t \in DOMAIN tokens, Decodes(t)
  PROVE  /\ Revoked(t) \in Seq(Token) /\ DOMAIN Revoked(t) = DOMAIN tokens
         /\ Len(Revoked(t)) = Len(tokens)
         /\ \A x \in DOMAIN tokens :
              /\ Revoked(t)[x].user = tokens[x].user /\ Revoked(t)[x].exp = tokens[x].exp
              /\ Revoked(t)[x].uses = tokens[x].uses
              /\ x # t => Revoked(t)[x] = tokens[x]
         /\ Revoked(t)[t].retired
         /\ now + 1 < tokens[t].exp => Revoked(t)[t].deny + 1 >= tokens[t].exp
<1> DEFINE left == (tokens[t].exp - now) \div 2
           deny == IF left <= 0 THEN tokens[t].deny ELSE now + 2 * left
           token == [tokens[t] EXCEPT !.retired = TRUE, !.deny = deny]
<1>1. /\ tokens[t] \in Token /\ now \in Nat /\ now < tokens[t].exp
      /\ tokens[t].exp \in Nat /\ tokens[t].deny \in Nat
  <2>1. tokens[t] \in Token
    BY DEF TypeOK
  <2>. QED BY <2>1 DEF TypeOK, Decodes, Token
<1>2. tokens[t].exp - now \in Nat
  BY <1>1
<1>3. /\ left \in Nat /\ 2 * left <= tokens[t].exp - now
      /\ tokens[t].exp - now <= 2 * left + 1
  BY <1>2, HalfFacts
<1>4. Revoked(t) = [tokens EXCEPT ![t] = token]
  BY DEF Revoked
<1> HIDE DEF left
<1>5. deny \in Nat
  BY <1>1, <1>3
<1>6. now + 1 < tokens[t].exp => deny + 1 >= tokens[t].exp
  BY <1>1, <1>3
<1> HIDE DEF deny
<1>7. /\ token \in Token /\ token.user = tokens[t].user /\ token.exp = tokens[t].exp
      /\ token.uses = tokens[t].uses /\ token.retired /\ token.deny = deny
  BY <1>1, <1>5 DEF Token
<1> HIDE DEF token
<1>8. tokens \in Seq(Token)
  BY DEF TypeOK
<1>. QED BY <1>4, <1>6, <1>7, <1>8

\* Whatever a revocation does, the tokens remain those they were.
LEMMA RevokeFacts ==
  ASSUME TypeOK, NEW t, Revoke(t)
  PROVE  /\ tokens' \in Seq(Token) /\ DOMAIN tokens' = DOMAIN tokens
         /\ Len(tokens') = Len(tokens)
         /\ \A x \in DOMAIN tokens : tokens'[x].user = tokens[x].user
         /\ faults' \in {faults, faults + 1} /\ faults' \in 0 .. MaxFaults
<1>1. faults' \in {faults, faults + 1} /\ faults' \in 0 .. MaxFaults
  BY BoundsAssumption DEF TypeOK, Revoke, Ok, Fault
<1>2. tokens' = tokens \/ (Decodes(t) /\ tokens' = Revoked(t))
  BY DEF Revoke
<1>3. CASE tokens' = tokens
  BY <1>1, <1>3 DEF TypeOK
<1>4. CASE Decodes(t) /\ tokens' = Revoked(t)
  BY <1>1, <1>4, RevokedFacts DEF Decodes
<1>. QED BY <1>2, <1>3, <1>4

\* What no step takes back: rows keep their tenant and role, and whoever got a
\* row was invited or signed up the tenant of it.
Growing ==
  /\ \A e \in Emails : Exists(e) =>
       /\ users'[e] # None
       /\ users'[e].role = users[e].role /\ users'[e].tenant = users[e].tenant
  /\ \A e \in Emails : ~Exists(e) /\ users'[e] # None =>
       e \in invited' \/ tenants'[users'[e].tenant] = e
  /\ invited \subseteq invited' /\ proved \subseteq proved'
  /\ DOMAIN tenants \subseteq DOMAIN tenants'
  /\ \A t \in DOMAIN tenants : tenants'[t] = tenants[t]
  /\ DOMAIN tokens \subseteq DOMAIN tokens'

LEMMA NothingMoved ==
  ASSUME users' = users, tenants' = tenants, invited' = invited,
         proved' = proved, DOMAIN tokens \subseteq DOMAIN tokens'
  PROVE  Growing
BY DEF Growing, Exists

\* A request that takes no part in a step loses nothing by it.
LEMMA StillSound ==
  ASSUME AccountsInv, Growing, NEW s \in Slots, req'[s] = req[s]
  PROVE  Sound(req[s])'
<1> DEFINE r == req[s]
<1>1. Sound(r) /\ r \in Request
  BY DEF AccountsInv, RequestsSound, TypeOK
<1>2. /\ \A e \in Emails : Exists(e) =>
           /\ users'[e] # None /\ users[e].tenant \in DOMAIN tenants
           /\ users'[e].role = users[e].role /\ users'[e].tenant = users[e].tenant
      /\ \A e \in Emails : ~Exists(e) /\ users'[e] # None =>
           e \in invited' \/ tenants'[users'[e].tenant] = e
      /\ invited \subseteq invited' /\ proved \subseteq proved'
      /\ DOMAIN tenants \subseteq DOMAIN tenants'
      /\ \A t \in DOMAIN tenants : tenants'[t] = tenants[t]
      /\ DOMAIN tokens \subseteq DOMAIN tokens'
  BY DEF AccountsInv, RowsTyped, Growing
<1>3. r.email \in Emails \cup {None} /\ r.by \in Emails \cup {None}
  BY <1>1 DEF Request
<1> HIDE DEF r
<1>4. r.pc # "idle" /\ StillFree(r.email) =>
        (users'[r.email] # None =>
           r.email \in invited' \/ tenants'[users'[r.email].tenant] = r.email)
  BY <1>1, <1>2, <1>3 DEF Sound, StillFree
<1>5. req'[s] = r
  BY DEF r
<1>6. r.pc = "insert" =>
        /\ r.op \in {"signup", "invite"} /\ r.tenant \in DOMAIN tenants'
        /\ r.op = "signup" => tenants'[r.tenant] = r.email
  BY <1>1, <1>2 DEF Sound
<1>7. r.op = "deactivate" /\ r.by # None =>
        /\ r.by # r.email /\ users'[r.by] # None /\ users'[r.email] # None
        /\ users'[r.by].role = "admin" /\ users'[r.by].tenant = users'[r.email].tenant
  <2> SUFFICES ASSUME r.op = "deactivate", r.by # None
               PROVE  /\ r.by # r.email /\ users'[r.by] # None /\ users'[r.email] # None
                      /\ users'[r.by].role = "admin"
                      /\ users'[r.by].tenant = users'[r.email].tenant
    OBVIOUS
  <2>1. r.by # r.email /\ Exists(r.by) /\ Exists(r.email)
        /\ users[r.by].role = "admin" /\ users[r.by].tenant = users[r.email].tenant
    BY <1>1 DEF Sound
  <2>2. r.by \in Emails /\ r.email \in Emails
    BY <1>1, <1>3 DEF Sound
  <2>. QED BY <1>2, <2>1, <2>2
<1>8. r.pc \in {"clear", "issue", "code", "revoke", "read", "write"} => users'[r.email] # None
  BY <1>1, <1>2 DEF Sound
<1>9. /\ IF r.pc = "idle" THEN r.op = "none" ELSE r.email \in Emails
      /\ r.op \in {"verify", "accept"} => r.tok \in DOMAIN tokens'
      /\ r.pc \in {"read", "write"} =>
           r.op \in {"enroll", "confirm", "disable", "deactivate", "accept"}
      /\ r.pc = "code" => r.op = "verify"
      /\ r.pc = "write" => r.row \in Row
      /\ r.pc = "write" /\ r.op = "confirm" => r.row.secret \in proved'
      /\ r.pc = "tenant" => r.op = "signup"
      /\ r.pc \in {"tenant", "insert"} /\ r.op = "signup" => StillFree(r.email)
  BY <1>1, <1>2 DEF Sound
<1>. QED BY <1>4, <1>5, <1>6, <1>7, <1>8, <1>9 DEF Sound, Exists, StillFree

-----------------------------------------------------------------------------
(* The steps of a request *)

\* A step of the request of slot s, as far as the other slots see it
Served(s) ==
  /\ TypeOK' /\ RowsTyped' /\ Growing
  /\ req' = [req EXCEPT ![s] = req'[s]] /\ Sound(req[s])'

LEMMA GotoFacts ==
  ASSUME TypeOK, NEW s \in Slots,
         NEW pc \in {"idle", "find", "miss", "expire", "clear", "issue", "code",
                     "revoke", "read", "write", "tenant", "insert"},
         Goto(s, pc)
  PROVE  /\ req' \in [Slots -> Request] /\ req' = [req EXCEPT ![s] = req'[s]]
         /\ req'[s].pc = pc /\ req'[s].op = req[s].op /\ req'[s].email = req[s].email
         /\ req'[s].by = req[s].by /\ req'[s].tenant = req[s].tenant
         /\ req'[s].tok = req[s].tok /\ req'[s].row = req[s].row
<1> DEFINE r == req[s]
           new == [r EXCEPT !.pc = pc]
<1>1. req \in [Slots -> Request] /\ r \in Request /\ req' = [req EXCEPT ![s] = new]
  BY DEF TypeOK, Goto
<1> HIDE DEF r
<1>2. /\ new \in Request /\ new.pc = pc /\ new.op = r.op /\ new.email = r.email
      /\ new.by = r.by /\ new.tenant = r.tenant /\ new.tok = r.tok /\ new.row = r.row
  BY <1>1 DEF Request
<1> HIDE DEF new
<1>3. req'[s] = new /\ req' \in [Slots -> Request]
  BY <1>1, <1>2
<1>. QED BY <1>1, <1>2, <1>3 DEF r

LEMMA FinishFacts ==
  ASSUME TypeOK, NEW s \in Slots, Finish(s)
  PROVE  /\ req' \in [Slots -> Request] /\ req' = [req EXCEPT ![s] = req'[s]]
         /\ req'[s] = Idle
BY IdleFacts DEF TypeOK, Finish

LEMMA ReplacedFacts ==
  ASSUME TypeOK, NEW s \in Slots, NEW new \in Request, req' = [req EXCEPT ![s] = new]
  PROVE  /\ req' \in [Slots -> Request] /\ req' = [req EXCEPT ![s] = req'[s]]
         /\ req'[s] = new
BY DEF TypeOK

TablesKept ==
  /\ users' = users /\ tenants' = tenants /\ minted' = minted
  /\ proved' = proved /\ spoiled' = spoiled /\ invited' = invited

\* A request that only waits and reads: tables and tokens stay.
LEMMA ReadOnly ==
  ASSUME AccountsInv, NEW s \in Slots,
         req' \in [Slots -> Request], req' = [req EXCEPT ![s] = req'[s]], Sound(req[s])',
         now' \in Nat, fails' \in [Emails -> Nat], ttl' \in [Emails -> Nat],
         started' \in Nat, faults' \in 0 .. MaxFaults,
         TablesKept, tokens' = tokens
  PROVE  Served(s)
<1>1. /\ users' = users /\ tenants' = tenants /\ tokens' = tokens /\ minted' = minted
      /\ proved' = proved /\ spoiled' = spoiled /\ invited' = invited
  BY DEF TablesKept
<1>2. TypeOK'
  BY <1>1 DEF AccountsInv, TypeOK
<1>3. RowsTyped'
  BY <1>1 DEF AccountsInv, RowsTyped, Exists
<1>4. Growing
  BY <1>1, NothingMoved
<1>. QED BY <1>2, <1>3, <1>4 DEF Served

\* ... and one that appends a token or revokes one
LEMMA TokensOnly ==
  ASSUME AccountsInv, NEW s \in Slots,
         req' \in [Slots -> Request], req' = [req EXCEPT ![s] = req'[s]], Sound(req[s])',
         tokens' \in Seq(Token), DOMAIN tokens \subseteq DOMAIN tokens',
         \A t \in DOMAIN tokens' : Exists(tokens'[t].user),
         started' \in Nat, faults' \in 0 .. MaxFaults,
         TablesKept, now' = now, fails' = fails, ttl' = ttl
  PROVE  Served(s)
<1>1. /\ users' = users /\ tenants' = tenants /\ minted' = minted
      /\ proved' = proved /\ spoiled' = spoiled /\ invited' = invited
  BY DEF TablesKept
<1>2. TypeOK'
  BY <1>1 DEF AccountsInv, TypeOK
<1>3. RowsTyped'
  BY <1>1 DEF AccountsInv, RowsTyped, Exists
<1>4. Growing
  BY <1>1, NothingMoved
<1>. QED BY <1>2, <1>3, <1>4 DEF Served

\* A token is issued to a user with a row.
LEMMA IssueFacts ==
  ASSUME AccountsInv, NEW kind \in Kinds, NEW e \in Emails, Exists(e),
         tokens' = Append(tokens, NewToken(kind, e))
  PROVE  /\ tokens' \in Seq(Token) /\ DOMAIN tokens \subseteq DOMAIN tokens'
         /\ \A t \in DOMAIN tokens' : Exists(tokens'[t].user)
<1> DEFINE token == NewToken(kind, e)
<1>1. token \in Token /\ token.user = e /\ tokens \in Seq(Token)
  BY NewTokenFacts DEF AccountsInv, TypeOK
<1> HIDE DEF token
<1>2. tokens' = Append(tokens, token)
  BY DEF token
<1>3. /\ tokens' \in Seq(Token) /\ Len(tokens') = Len(tokens) + 1
      /\ \A t \in 1 .. Len(tokens) : tokens'[t] = tokens[t]
      /\ tokens'[Len(tokens) + 1] = token
  BY <1>1, <1>2, AppendProperties
<1>4. \A t \in DOMAIN tokens : Exists(tokens[t].user)
  BY DEF AccountsInv, RowsTyped
<1>5. DOMAIN tokens = 1 .. Len(tokens) /\ DOMAIN tokens' = 1 .. Len(tokens')
      /\ Len(tokens) \in Nat
  BY <1>1, <1>3
<1>6. ASSUME NEW t \in DOMAIN tokens' PROVE Exists(tokens'[t].user)
  <2>1. CASE t \in 1 .. Len(tokens)
    BY <1>3, <1>4, <1>5, <2>1
  <2>2. CASE t = Len(tokens) + 1
    BY <1>1, <1>3, <2>2
  <2>. QED BY <1>3, <1>5, <2>1, <2>2
<1>. QED BY <1>3, <1>5, <1>6

\* The steps of a login
LEMMA LoginSteps ==
  ASSUME AccountsInv, NEW s \in Slots,
         \/ LoginStart(s) \/ Find(s) \/ Miss(s) \/ Expire(s) \/ Clear(s)
  PROVE  Served(s)
<1>1. /\ now \in Nat /\ fails \in [Emails -> Nat] /\ ttl \in [Emails -> Nat]
      /\ started \in Nat /\ faults \in 0 .. MaxFaults /\ MaxFaults \in Nat
      /\ Sound(req[s]) /\ req[s] \in Request /\ Window \in Nat
  BY BoundsAssumption, LockoutAssumption DEF AccountsInv, TypeOK, RequestsSound
<1>2. (Ok \/ Fault => faults' \in 0 .. MaxFaults)
  BY <1>1 DEF Ok, Fault
<1>3. TypeOK
  BY DEF AccountsInv
<1>4. ASSUME LoginStart(s) PROVE Served(s)
  <2>1. PICK e \in Emails :
          /\ Ok \/ Fault
          /\ req' = [req EXCEPT ![s] =
                       [Idle EXCEPT !.op = "login", !.pc = "find", !.email = e]]
    BY <1>4 DEF LoginStart
  <2> DEFINE new == [Idle EXCEPT !.op = "login", !.pc = "find", !.email = e]
  <2>2. new \in Request /\ new.op = "login" /\ new.pc = "find" /\ new.email = e
        /\ new.by = None
    BY DEF Idle, Request
  <2> HIDE DEF new
  <2>3. req' = [req EXCEPT ![s] = new]
    BY <2>1 DEF new
  <2>4. /\ req' \in [Slots -> Request] /\ req' = [req EXCEPT ![s] = req'[s]]
        /\ req'[s] = new
    BY <1>3, <2>2, <2>3, ReplacedFacts
  <2>5. Sound(req[s])'
    BY <2>2, <2>4 DEF Sound
  <2>6. /\ TablesKept /\ tokens' = tokens /\ now' = now
        /\ fails' = fails /\ ttl' = ttl /\ started' = started + 1
    BY <1>4 DEF LoginStart, Arrives, rows, counter, history, TablesKept
  <2>7. faults' \in 0 .. MaxFaults /\ started' \in Nat
    BY <1>1, <1>2, <2>1, <2>6
  <2>. QED BY <1>1, <2>4, <2>5, <2>6, <2>7, ReadOnly
<1>5. ASSUME Find(s) PROVE Served(s)
  <2> DEFINE e == req[s].email
  <2>1. e \in Emails /\ req[s].pc = "find"
    BY <1>1, <1>5 DEF Find, At, Sound
  <2>2. /\ TablesKept /\ tokens' = tokens /\ now' = now /\ fails' = fails
        /\ ttl' = ttl /\ started' = started /\ faults' = faults /\ users' = users
        /\ invited' = invited /\ tenants' = tenants
    BY <1>5 DEF Find, rows, counter, history, TablesKept
  <2>3. CASE Goto(s, "miss")
    <3>1. /\ req' \in [Slots -> Request] /\ req' = [req EXCEPT ![s] = req'[s]]
          /\ req'[s].pc = "miss" /\ req'[s].op = req[s].op /\ req'[s].email = e
          /\ req'[s].by = req[s].by /\ req'[s].tok = req[s].tok
      BY <1>3, <2>3, GotoFacts
    <3>2. Sound(req[s])'
      BY <1>1, <2>1, <2>2, <3>1 DEF Sound, Exists
    <3>. QED BY <1>1, <2>2, <3>1, <3>2, ReadOnly
  <2>4. CASE Active(e) /\ req' = [req EXCEPT ![s].pc = "clear", ![s].row = users[e]]
    <3> DEFINE new == [req[s] EXCEPT !.pc = "clear", !.row = users[e]]
    <3>1. users[e] \in Row
      BY <2>1, <2>4 DEF AccountsInv, TypeOK, Active, Exists
    <3>2. /\ new \in Request /\ new.pc = "clear" /\ new.op = req[s].op /\ new.email = e
          /\ new.by = req[s].by /\ new.tok = req[s].tok
      BY <1>1, <3>1 DEF Request
    <3>3. req' = [req EXCEPT ![s] = new]
      BY <2>4
    <3> HIDE DEF new
    <3>4. /\ req' \in [Slots -> Request] /\ req' = [req EXCEPT ![s] = req'[s]]
          /\ req'[s] = new
      BY <1>3, <3>2, <3>3, ReplacedFacts
    <3>5. Sound(req[s])'
      BY <1>1, <2>1, <2>2, <2>4, <3>2, <3>4 DEF Sound, Exists, Active
    <3>. QED BY <1>1, <2>2, <3>4, <3>5, ReadOnly
  <2>. QED BY <1>5, <2>3, <2>4 DEF Find
<1>6. ASSUME Miss(s) PROVE Served(s)
  <2> DEFINE e == req[s].email
  <2>1. e \in Emails /\ req[s].pc = "miss"
    BY <1>1, <1>6 DEF Miss, At, Sound
  <2>2. /\ TablesKept /\ tokens' = tokens /\ now' = now
        /\ ttl' = ttl /\ started' = started
    BY <1>6 DEF Miss, rows, history, TablesKept
  <2>3. /\ Ok \/ Fault
        /\ Goto(s, "expire") \/ Finish(s)
        /\ fails' = fails \/ fails' = [fails EXCEPT ![e] = @ + 1]
    BY <1>6 DEF Miss
  <2>4. fails' \in [Emails -> Nat]
    BY <1>1, <2>1, <2>3
  <2>5. faults' \in 0 .. MaxFaults
    BY <1>2, <2>3
  <2>6. CASE Goto(s, "expire")
    <3>1. /\ req' \in [Slots -> Request] /\ req' = [req EXCEPT ![s] = req'[s]]
          /\ req'[s].pc = "expire" /\ req'[s].op = req[s].op /\ req'[s].email = e
          /\ req'[s].by = req[s].by /\ req'[s].tok = req[s].tok
      BY <1>3, <2>6, GotoFacts
    <3>2. Sound(req[s])'
      BY <1>1, <2>1, <2>2, <3>1 DEF Sound, Exists, TablesKept
    <3>. QED BY <1>1, <2>2, <2>4, <2>5, <3>1, <3>2, ReadOnly
  <2>7. CASE Finish(s)
    BY <1>1, <1>3, <2>2, <2>4, <2>5, <2>7, FinishFacts, IdleSound, ReadOnly
  <2>. QED BY <2>3, <2>6, <2>7
<1>7. ASSUME Expire(s) PROVE Served(s)
  <2> DEFINE e == req[s].email
  <2>1. e \in Emails
    BY <1>1, <1>7 DEF Expire, At, Sound
  <2>2. /\ TablesKept /\ tokens' = tokens /\ now' = now
        /\ fails' = fails /\ started' = started
    BY <1>7 DEF Expire, rows, history, TablesKept
  <2>3. /\ Ok \/ Fault
        /\ Finish(s)
        /\ ttl' = ttl \/ ttl' = [ttl EXCEPT ![e] = now + 2 * Window]
    BY <1>7 DEF Expire
  <2>4. ttl' \in [Emails -> Nat]
    BY <1>1, <2>1, <2>3
  <2>5. faults' \in 0 .. MaxFaults
    BY <1>2, <2>3
  <2>. QED BY <1>1, <1>3, <2>2, <2>3, <2>4, <2>5, FinishFacts, IdleSound, ReadOnly
<1>8. ASSUME Clear(s) PROVE Served(s)
  <2> DEFINE e == req[s].email
  <2>1. e \in Emails /\ req[s].pc = "clear"
    BY <1>1, <1>8 DEF Clear, At, Sound
  <2>2. /\ TablesKept /\ tokens' = tokens /\ now' = now /\ started' = started
    BY <1>8 DEF Clear, rows, history, TablesKept
  <2>3. /\ Ok \/ Fault
        /\ Goto(s, "issue")
        /\ \/ fails' = [fails EXCEPT ![e] = 0] /\ ttl' = [ttl EXCEPT ![e] = 0]
           \/ fails' = fails /\ ttl' = ttl
    BY <1>8 DEF Clear, Cleared, counter
  <2>4. fails' \in [Emails -> Nat] /\ ttl' \in [Emails -> Nat]
    BY <1>1, <2>1, <2>3
  <2>5. faults' \in 0 .. MaxFaults
    BY <1>2, <2>3
  <2>6. /\ req' \in [Slots -> Request] /\ req' = [req EXCEPT ![s] = req'[s]]
        /\ req'[s].pc = "issue" /\ req'[s].op = req[s].op /\ req'[s].email = e
        /\ req'[s].by = req[s].by /\ req'[s].tok = req[s].tok
    BY <1>3, <2>3, GotoFacts
  <2>7. Sound(req[s])'
    BY <1>1, <2>1, <2>2, <2>6 DEF Sound, Exists, TablesKept
  <2>. QED BY <1>1, <2>2, <2>4, <2>5, <2>6, <2>7, ReadOnly
<1>. QED BY <1>4, <1>5, <1>6, <1>7, <1>8

\* A request arrives, and has read what it needs to start.
LEMMA Arrived ==
  ASSUME AccountsInv, NEW s \in Slots, NEW new \in Request,
         req' = [req EXCEPT ![s] = new], Arrives(s), Ok \/ Fault,
         now' = now, fails' = fails, ttl' = ttl, TablesKept, tokens' = tokens,
         Sound(new)
  PROVE  Served(s)
<1>1. /\ now \in Nat /\ fails \in [Emails -> Nat] /\ ttl \in [Emails -> Nat]
      /\ started \in Nat /\ faults \in 0 .. MaxFaults /\ MaxFaults \in Nat /\ TypeOK
  BY BoundsAssumption DEF AccountsInv, TypeOK
<1>2. started' \in Nat /\ faults' \in 0 .. MaxFaults
  BY <1>1 DEF Ok, Fault, Arrives
<1>3. /\ req' \in [Slots -> Request] /\ req' = [req EXCEPT ![s] = req'[s]]
      /\ req'[s] = new
  BY <1>1, ReplacedFacts
<1>4. Sound(req[s])'
  BY <1>3 DEF Sound, TablesKept, StillFree, Exists
<1>. QED BY <1>1, <1>2, <1>3, <1>4, ReadOnly

\* The steps of requests that present a token, up to their first commit
LEMMA TokenStarts ==
  ASSUME AccountsInv, NEW s \in Slots,
         \/ VerifyStart(s) \/ OwnStart(s) \/ AcceptStart(s)
         \/ InviteStart(s) \/ DeactivateStart(s)
  PROVE  Served(s)
<1>1. /\ now \in Nat /\ fails \in [Emails -> Nat] /\ ttl \in [Emails -> Nat]
      /\ started \in Nat /\ faults \in 0 .. MaxFaults /\ MaxFaults \in Nat
      /\ Sound(req[s]) /\ req[s] \in Request /\ tokens \in Seq(Token)
  BY BoundsAssumption DEF AccountsInv, TypeOK, RequestsSound
<1>2. (Ok \/ Fault => faults' \in 0 .. MaxFaults)
  BY <1>1 DEF Ok, Fault
<1>3. TypeOK
  BY DEF AccountsInv
<1>4. \A t \in DOMAIN tokens : tokens[t].user \in Emails /\ Exists(tokens[t].user)
                               /\ t \in Nat
  <2>1. \A t \in DOMAIN tokens : tokens[t] \in Token /\ Exists(tokens[t].user) /\ t \in Nat
    BY <1>1 DEF AccountsInv, RowsTyped
  <2>. QED BY <2>1 DEF Token
<1>5. \A t \in DOMAIN tokens : NotRevoked(t) => Ok \/ Fault
  BY DEF NotRevoked
<1>6. ASSUME VerifyStart(s) PROVE Served(s)
  <2>1. PICK t \in DOMAIN tokens :
          /\ NotRevoked(t)
          /\ req' = [req EXCEPT ![s] = [Idle EXCEPT !.op = "verify", !.pc = "code",
                                                    !.email = tokens[t].user, !.tok = t]]
    BY <1>6 DEF VerifyStart
  <2> DEFINE new == [Idle EXCEPT !.op = "verify", !.pc = "code",
                                 !.email = tokens[t].user, !.tok = t]
  <2>2. /\ new \in Request /\ new.op = "verify" /\ new.pc = "code"
        /\ new.email = tokens[t].user /\ new.tok = t
    BY <1>4 DEF Idle, Request
  <2>3. req' = [req EXCEPT ![s] = new]
    BY <2>1
  <2> HIDE DEF new
  <2>4. Sound(new)
    BY <1>4, <2>2 DEF Sound
  <2>5. /\ TablesKept /\ tokens' = tokens /\ now' = now /\ fails' = fails /\ ttl' = ttl
        /\ Arrives(s)
    BY <1>6 DEF VerifyStart, rows, counter, history, TablesKept
  <2>. QED BY <1>5, <2>1, <2>2, <2>3, <2>4, <2>5, Arrived
<1>7. ASSUME OwnStart(s) PROVE Served(s)
  <2>1. PICK op \in {"enroll", "confirm", "disable"}, t \in DOMAIN tokens :
          /\ NotRevoked(t)
          /\ req' = [req EXCEPT ![s] = [Idle EXCEPT !.op = op, !.pc = "read",
                                                    !.email = tokens[t].user]]
    BY <1>7 DEF OwnStart
  <2> DEFINE new == [Idle EXCEPT !.op = op, !.pc = "read", !.email = tokens[t].user]
  <2>2. /\ new \in Request /\ new.op = op /\ new.pc = "read"
        /\ new.email = tokens[t].user
    BY <1>4 DEF Idle, Request
  <2>3. req' = [req EXCEPT ![s] = new]
    BY <2>1
  <2> HIDE DEF new
  <2>4. Sound(new)
    BY <1>4, <2>2 DEF Sound
  <2>5. /\ TablesKept /\ tokens' = tokens /\ now' = now /\ fails' = fails /\ ttl' = ttl
        /\ Arrives(s)
    BY <1>7 DEF OwnStart, rows, counter, history, TablesKept
  <2>. QED BY <1>5, <2>1, <2>2, <2>3, <2>4, <2>5, Arrived
<1>8. ASSUME AcceptStart(s) PROVE Served(s)
  <2>1. PICK t \in DOMAIN tokens :
          /\ NotRevoked(t)
          /\ req' = [req EXCEPT ![s] = [Idle EXCEPT !.op = "accept", !.pc = "read",
                                                    !.email = tokens[t].user, !.tok = t]]
    BY <1>8 DEF AcceptStart
  <2> DEFINE new == [Idle EXCEPT !.op = "accept", !.pc = "read",
                                 !.email = tokens[t].user, !.tok = t]
  <2>2. /\ new \in Request /\ new.op = "accept" /\ new.pc = "read"
        /\ new.email = tokens[t].user /\ new.tok = t
    BY <1>4 DEF Idle, Request
  <2>3. req' = [req EXCEPT ![s] = new]
    BY <2>1
  <2> HIDE DEF new
  <2>4. Sound(new)
    BY <1>4, <2>2 DEF Sound
  <2>5. /\ TablesKept /\ tokens' = tokens /\ now' = now /\ fails' = fails /\ ttl' = ttl
        /\ Arrives(s)
    BY <1>8 DEF AcceptStart, rows, counter, history, TablesKept
  <2>. QED BY <1>5, <2>1, <2>2, <2>3, <2>4, <2>5, Arrived
<1>9. ASSUME InviteStart(s) PROVE Served(s)
  <2>1. PICK t \in {0} \cup DOMAIN tokens, e \in Emails, tenant \in DOMAIN tenants :
          /\ IF t = 0 THEN Ok ELSE NotRevoked(t)
          /\ req' = [req EXCEPT ![s] = [Idle EXCEPT !.op = "invite", !.pc = "insert",
                                                    !.email = e, !.tenant = tenant]]
    BY <1>9 DEF InviteStart
  <2> DEFINE new == [Idle EXCEPT !.op = "invite", !.pc = "insert", !.email = e,
                                 !.tenant = tenant]
  <2>2. tenant \in Nat
    BY <1>3 DEF TypeOK
  <2>3. /\ new \in Request /\ new.op = "invite" /\ new.pc = "insert"
        /\ new.email = e /\ new.tenant = tenant
    BY <2>2 DEF Idle, Request
  <2>4. req' = [req EXCEPT ![s] = new]
    BY <2>1
  <2> HIDE DEF new
  <2>5. Sound(new)
    BY <2>3 DEF Sound
  <2>6. /\ TablesKept /\ tokens' = tokens /\ now' = now /\ fails' = fails /\ ttl' = ttl
        /\ Arrives(s)
    BY <1>9 DEF InviteStart, rows, counter, history, TablesKept
  <2>7. Ok \/ Fault
    BY <1>5, <2>1
  <2>. QED BY <2>3, <2>4, <2>5, <2>6, <2>7, Arrived
<1>10. ASSUME DeactivateStart(s) PROVE Served(s)
  <2>1. PICK t \in {0} \cup DOMAIN tokens, e \in {m \in Emails : Exists(m)} :
          /\ IF t = 0 THEN Ok ELSE NotRevoked(t)
          /\ MayManage(t) /\ OwnTenant(t, users[e].tenant) /\ MayTurnOut(t, e)
          /\ req' = [req EXCEPT ![s] = [Idle EXCEPT !.op = "deactivate", !.pc = "read",
                                                    !.email = e, !.by = Principal(t)]]
    BY <1>10 DEF DeactivateStart
  <2> DEFINE by == Principal(t)
             new == [Idle EXCEPT !.op = "deactivate", !.pc = "read", !.email = e,
                                 !.by = by]
  <2>2. /\ by \in Emails \cup {None} /\ by # e
        /\ by # None => /\ Exists(by) /\ users[by].role = "admin"
                        /\ users[by].tenant = users[e].tenant
    <3>1. CASE t = 0
      BY <2>1, <3>1 DEF Principal, MayTurnOut
    <3>2. CASE t # 0
      BY <1>4, <2>1, <3>2 DEF Principal, MayTurnOut, MayManage, OwnTenant
    <3>. QED BY <3>1, <3>2
  <2>3. req' = [req EXCEPT ![s] = new]
    BY <2>1
  <2> HIDE DEF by
  <2>4. /\ new \in Request /\ new.op = "deactivate" /\ new.pc = "read"
        /\ new.email = e /\ new.by = by
    BY <2>2 DEF Idle, Request
  <2> HIDE DEF new
  <2>5. Sound(new)
    BY <2>2, <2>4 DEF Sound
  <2>6. /\ TablesKept /\ tokens' = tokens /\ now' = now /\ fails' = fails /\ ttl' = ttl
        /\ Arrives(s)
    BY <1>10 DEF DeactivateStart, rows, counter, history, TablesKept
  <2>7. Ok \/ Fault
    BY <1>5, <2>1
  <2>. QED BY <2>3, <2>4, <2>5, <2>6, <2>7, Arrived
<1>. QED BY <1>6, <1>7, <1>8, <1>9, <1>10

\* The steps that issue a token or revoke one, and what follows them
LEMMA TokenSteps ==
  ASSUME AccountsInv, NEW s \in Slots,
         Issue(s) \/ Code(s) \/ Spend(s) \/ Logout(s) \/ RequestReset(s)
  PROVE  Served(s)
<1>1. /\ now \in Nat /\ fails \in [Emails -> Nat] /\ ttl \in [Emails -> Nat]
      /\ started \in Nat /\ faults \in 0 .. MaxFaults /\ MaxFaults \in Nat
      /\ Sound(req[s]) /\ req[s] \in Request /\ tokens \in Seq(Token)
  BY BoundsAssumption DEF AccountsInv, TypeOK, RequestsSound
<1>2. (Ok \/ Fault => faults' \in 0 .. MaxFaults)
  BY <1>1 DEF Ok, Fault
<1>3. TypeOK
  BY DEF AccountsInv
<1>4. \A t \in DOMAIN tokens : tokens[t].user \in Emails /\ Exists(tokens[t].user)
                               /\ t \in Nat
  <2>1. \A t \in DOMAIN tokens : tokens[t] \in Token /\ Exists(tokens[t].user) /\ t \in Nat
    BY <1>1 DEF AccountsInv, RowsTyped
  <2>. QED BY <2>1 DEF Token
<1>5. ASSUME Issue(s) PROVE Served(s)
  <2>1. req[s].pc = "issue" /\ req[s].email \in Emails /\ Exists(req[s].email)
    BY <1>1, <1>5 DEF Issue, At, Sound
  <2>2. PICK kind \in Kinds : tokens' = Append(tokens, NewToken(kind, req[s].email))
    BY <1>5 DEF Issue, Kinds
  <2>3. /\ tokens' \in Seq(Token) /\ DOMAIN tokens \subseteq DOMAIN tokens'
        /\ \A t \in DOMAIN tokens' : Exists(tokens'[t].user)
    BY <2>1, <2>2, IssueFacts
  <2>4. /\ TablesKept /\ now' = now /\ fails' = fails /\ ttl' = ttl
        /\ started' = started /\ faults' = faults /\ Finish(s)
    BY <1>5 DEF Issue, rows, counter, history, TablesKept
  <2>. QED BY <1>1, <1>3, <2>3, <2>4, FinishFacts, IdleSound, TokensOnly
<1>6. ASSUME Code(s) PROVE Served(s)
  <2>1. req[s].pc = "code" /\ (Finish(s) \/ Goto(s, "revoke"))
    BY <1>6 DEF Code, At
  <2>2. /\ TablesKept /\ tokens' = tokens /\ now' = now /\ fails' = fails /\ ttl' = ttl
        /\ started' = started /\ faults' = faults
    BY <1>6 DEF Code, rows, counter, history, TablesKept
  <2>3. CASE Finish(s)
    BY <1>1, <1>3, <2>2, <2>3, FinishFacts, IdleSound, ReadOnly
  <2>4. CASE Goto(s, "revoke")
    <3>1. /\ req' \in [Slots -> Request] /\ req' = [req EXCEPT ![s] = req'[s]]
          /\ req'[s].pc = "revoke" /\ req'[s].op = req[s].op
          /\ req'[s].email = req[s].email
          /\ req'[s].by = req[s].by /\ req'[s].tok = req[s].tok
      BY <1>3, <2>4, GotoFacts
    <3>2. Sound(req[s])'
      BY <1>1, <2>1, <2>2, <3>1 DEF Sound, Exists, TablesKept
    <3>. QED BY <1>1, <2>2, <3>1, <3>2, ReadOnly
  <2>. QED BY <2>1, <2>3, <2>4
<1>7. ASSUME NEW x, Revoke(x)
      PROVE  /\ tokens' \in Seq(Token) /\ DOMAIN tokens \subseteq DOMAIN tokens'
             /\ DOMAIN tokens' = DOMAIN tokens
             /\ \A t \in DOMAIN tokens' : Exists(tokens'[t].user)
             /\ faults' \in 0 .. MaxFaults
  BY <1>3, <1>4, <1>7, RevokeFacts
<1>8. ASSUME Spend(s) PROVE Served(s)
  <2>1. req[s].pc = "revoke" /\ (Finish(s) \/ Goto(s, "issue")) /\ Revoke(req[s].tok)
    BY <1>8 DEF Spend, At
  <2>2. /\ TablesKept /\ now' = now /\ fails' = fails /\ ttl' = ttl
        /\ started' = started
    BY <1>8 DEF Spend, rows, counter, history, TablesKept
  <2>3. /\ tokens' \in Seq(Token) /\ DOMAIN tokens \subseteq DOMAIN tokens'
        /\ DOMAIN tokens' = DOMAIN tokens
        /\ \A t \in DOMAIN tokens' : Exists(tokens'[t].user)
        /\ faults' \in 0 .. MaxFaults
    BY <1>7, <2>1
  <2>4. CASE Finish(s)
    BY <1>1, <1>3, <2>2, <2>3, <2>4, FinishFacts, IdleSound, TokensOnly
  <2>5. CASE Goto(s, "issue")
    <3>1. /\ req' \in [Slots -> Request] /\ req' = [req EXCEPT ![s] = req'[s]]
          /\ req'[s].pc = "issue" /\ req'[s].op = req[s].op
          /\ req'[s].email = req[s].email
          /\ req'[s].by = req[s].by /\ req'[s].tok = req[s].tok
      BY <1>3, <2>5, GotoFacts
    <3>2. Sound(req[s])'
      BY <1>1, <2>1, <2>2, <2>3, <3>1 DEF Sound, Exists, TablesKept
    <3>. QED BY <1>1, <2>2, <2>3, <3>1, <3>2, TokensOnly
  <2>. QED BY <2>1, <2>4, <2>5
<1>9. ASSUME req' = req, req[s].pc = "idle", DOMAIN tokens \subseteq DOMAIN tokens',
             TablesKept
      PROVE  Sound(req[s])'
  BY <1>1, <1>9 DEF Sound
<1>10. ASSUME Logout(s) PROVE Served(s)
  <2>1. PICK t \in DOMAIN tokens : Revoke(t)
    BY <1>10 DEF Logout
  <2>2. /\ TablesKept /\ now' = now /\ fails' = fails /\ ttl' = ttl
        /\ started' = started + 1 /\ req' = req /\ req[s].pc = "idle"
    BY <1>10 DEF Logout, Arrives, At, rows, counter, history, TablesKept
  <2>3. /\ tokens' \in Seq(Token) /\ DOMAIN tokens \subseteq DOMAIN tokens'
        /\ \A x \in DOMAIN tokens' : Exists(tokens'[x].user)
        /\ faults' \in 0 .. MaxFaults
    BY <1>7, <2>1
  <2>4. req' \in [Slots -> Request] /\ req' = [req EXCEPT ![s] = req'[s]]
    BY <1>3, <2>2 DEF TypeOK
  <2>5. Sound(req[s])' /\ started' \in Nat
    BY <1>1, <1>9, <2>2, <2>3
  <2>. QED BY <2>2, <2>3, <2>4, <2>5, TokensOnly
<1>11. ASSUME RequestReset(s) PROVE Served(s)
  <2>1. PICK e \in Emails : Active(e) /\ tokens' = Append(tokens, NewToken("link", e))
    BY <1>11 DEF RequestReset
  <2>2. /\ TablesKept /\ now' = now /\ fails' = fails /\ ttl' = ttl /\ faults' = faults
        /\ started' = started + 1 /\ req' = req /\ req[s].pc = "idle"
    BY <1>11 DEF RequestReset, Arrives, At, rows, counter, history, TablesKept
  <2>3. /\ tokens' \in Seq(Token) /\ DOMAIN tokens \subseteq DOMAIN tokens'
        /\ \A x \in DOMAIN tokens' : Exists(tokens'[x].user)
    BY <2>1, IssueFacts DEF Active, Kinds
  <2>4. req' \in [Slots -> Request] /\ req' = [req EXCEPT ![s] = req'[s]]
    BY <1>3, <2>2 DEF TypeOK
  <2>5. Sound(req[s])' /\ started' \in Nat
    BY <1>1, <1>9, <2>2, <2>3
  <2>. QED BY <1>1, <2>2, <2>3, <2>4, <2>5, TokensOnly
<1>. QED BY <1>5, <1>6, <1>8, <1>10, <1>11

\* What is written is a row of the same tenant and role.
LEMMA WrittenFacts ==
  ASSUME minted \in Nat, NEW old \in Row, NEW row \in Row,
         NEW op \in {"enroll", "confirm", "disable", "deactivate", "accept"}
  PROVE  /\ Written(op, old, row) \in Row
         /\ Written(op, old, row).tenant = old.tenant
         /\ Written(op, old, row).role = old.role
<1>1. CASE op = "enroll"
  BY <1>1 DEF Written, Enrolled, Row
<1>2. CASE op = "confirm"
  BY <1>2 DEF Written, Confirmed, Row
<1>3. CASE op = "disable"
  BY <1>3 DEF Written, Disabled, Row
<1>4. CASE op = "deactivate"
  BY <1>4 DEF Written, Deactivated, Row
<1>5. CASE op = "accept"
  BY <1>5 DEF Written, Accepted, Row
<1>. QED BY <1>1, <1>2, <1>3, <1>4, <1>5

\* The steps that read a row and commit what was made of it
LEMMA RowSteps ==
  ASSUME AccountsInv, NEW s \in Slots, Read(s) \/ Write(s)
  PROVE  Served(s)
<1>1. /\ now \in Nat /\ fails \in [Emails -> Nat] /\ ttl \in [Emails -> Nat]
      /\ started \in Nat /\ faults \in 0 .. MaxFaults /\ MaxFaults \in Nat
      /\ Sound(req[s]) /\ req[s] \in Request /\ tokens \in Seq(Token)
  BY BoundsAssumption DEF AccountsInv, TypeOK, RequestsSound
<1>2. (Ok \/ Fault => faults' \in 0 .. MaxFaults)
  BY <1>1 DEF Ok, Fault
<1>3. TypeOK
  BY DEF AccountsInv
<1>4. \A t \in DOMAIN tokens : tokens[t].user \in Emails /\ Exists(tokens[t].user)
                               /\ t \in Nat
  <2>1. \A t \in DOMAIN tokens : tokens[t] \in Token /\ Exists(tokens[t].user) /\ t \in Nat
    BY <1>1 DEF AccountsInv, RowsTyped
  <2>. QED BY <2>1 DEF Token
<1>5. /\ users \in [Emails -> Row \cup {None}] /\ minted \in Nat /\ proved \subseteq Nat
      /\ spoiled \subseteq Emails /\ invited \subseteq Emails /\ tenants \in Seq(Emails)
  BY <1>3 DEF TypeOK
<1> DEFINE e == req[s].email
           old == users[e]
<1>6. ASSUME req[s].pc \in {"read", "write"}
      PROVE  /\ e \in Emails /\ Exists(e) /\ old \in Row
             /\ req[s].op \in {"enroll", "confirm", "disable", "deactivate", "accept"}
  BY <1>1, <1>5, <1>6 DEF Sound, Exists
<1>7. ASSUME Read(s) PROVE Served(s)
  <2>1. /\ req[s].pc = "read" /\ tokens' = tokens /\ now' = now /\ fails' = fails
        /\ ttl' = ttl /\ users' = users /\ tenants' = tenants /\ minted' = minted
        /\ spoiled' = spoiled /\ invited' = invited /\ started' = started
        /\ faults' = faults
    BY <1>7 DEF Read, At, rows, counter
  <2>2. CASE /\ req' = [req EXCEPT ![s].pc = "write", ![s].row = old]
             /\ proved' = IF req[s].op = "confirm" THEN proved \cup {old.secret}
                          ELSE proved
    <3> DEFINE new == [req[s] EXCEPT !.pc = "write", !.row = old]
    <3>1. /\ new \in Request /\ new.pc = "write" /\ new.op = req[s].op /\ new.email = e
          /\ new.by = req[s].by /\ new.tok = req[s].tok /\ new.row = old
      BY <1>1, <1>6, <2>1 DEF Request
    <3>2. req' = [req EXCEPT ![s] = new]
      BY <2>2
    <3> HIDE DEF new
    <3>3. /\ req' \in [Slots -> Request] /\ req' = [req EXCEPT ![s] = req'[s]]
          /\ req'[s] = new
      BY <1>3, <3>1, <3>2, ReplacedFacts
    <3>4. proved \subseteq proved' /\ proved' \subseteq Nat
          /\ (req[s].op = "confirm" => old.secret \in proved')
      BY <1>5, <1>6, <2>1, <2>2 DEF Row
    <3>5. TypeOK'
      BY <1>3, <2>1, <3>3, <3>4 DEF TypeOK
    <3>6. RowsTyped'
      BY <2>1 DEF AccountsInv, RowsTyped, Exists
    <3>7. Growing
      BY <2>1, <3>4 DEF Growing, Exists
    <3>8. Sound(req[s])'
      BY <1>1, <1>6, <2>1, <3>1, <3>3, <3>4 DEF Sound, Exists
    <3>. QED BY <3>3, <3>5, <3>6, <3>7, <3>8 DEF Served
  <2>3. CASE Finish(s) /\ proved' = proved
    <3>1. TablesKept
      BY <2>1, <2>3 DEF TablesKept
    <3>. QED BY <1>1, <1>3, <2>1, <2>3, <3>1, FinishFacts, IdleSound, ReadOnly
  <2>. QED BY <1>7, <2>2, <2>3 DEF Read
<1>8. ASSUME Write(s) PROVE Served(s)
  <2> DEFINE op == req[s].op
             row == req[s].row
             new == Written(op, old, row)
  <2>1. /\ req[s].pc = "write" /\ now' = now /\ fails' = fails
        /\ ttl' = ttl /\ tenants' = tenants /\ proved' = proved
        /\ invited' = invited /\ started' = started /\ faults' = faults
        /\ users' = [users EXCEPT ![e] = new]
        /\ minted' \in {minted, minted + 1} /\ spoiled' \subseteq spoiled \cup {e}
    BY <1>8 DEF Write, At, counter
  <2>2. new \in Row /\ new.tenant = old.tenant /\ new.role = old.role
    <3>1. row \in Row
      BY <1>1, <2>1 DEF Sound
    <3>. QED BY <1>5, <1>6, <2>1, <3>1, WrittenFacts
  <2>3. /\ tokens' \in Seq(Token) /\ DOMAIN tokens' = DOMAIN tokens
        /\ \A t \in DOMAIN tokens : tokens'[t].user = tokens[t].user
    <3>1. tokens' = tokens \/ /\ op = "accept"
                              /\ tokens' = [tokens EXCEPT ![req[s].tok].uses = @ + 1]
      BY <1>8 DEF Write
    <3>2. ASSUME op = "accept", tokens' = [tokens EXCEPT ![req[s].tok].uses = @ + 1]
          PROVE  /\ tokens' \in Seq(Token) /\ DOMAIN tokens' = DOMAIN tokens
                 /\ \A t \in DOMAIN tokens : tokens'[t].user = tokens[t].user
      <4> DEFINE t == req[s].tok
                 token == [tokens[t] EXCEPT !.uses = @ + 1]
      <4>1. t \in DOMAIN tokens /\ tokens[t] \in Token
        BY <1>1, <3>2 DEF Sound
      <4>2. token \in Token /\ token.user = tokens[t].user
        BY <4>1 DEF Token
      <4>3. tokens' = [tokens EXCEPT ![t] = token]
        BY <3>2
      <4> HIDE DEF token, t
      <4>. QED BY <1>1, <4>1, <4>2, <4>3
    <3>. QED BY <1>1, <3>1, <3>2
  <2>4. /\ req' \in [Slots -> Request] /\ req' = [req EXCEPT ![s] = req'[s]]
        /\ Sound(req[s])'
    <3>1. Finish(s) \/ (op = "accept" /\ Goto(s, "revoke"))
      BY <1>8 DEF Write
    <3>2. CASE Finish(s)
      BY <1>3, <3>2, FinishFacts, IdleSound
    <3>3. CASE op = "accept" /\ Goto(s, "revoke")
      <4>1. /\ req' \in [Slots -> Request] /\ req' = [req EXCEPT ![s] = req'[s]]
            /\ req'[s].pc = "revoke" /\ req'[s].op = "accept" /\ req'[s].email = e
            /\ req'[s].by = req[s].by /\ req'[s].tok = req[s].tok
        BY <1>3, <3>3, GotoFacts
      <4>2. users'[e] # None
        BY <1>5, <1>6, <2>1, <2>2, SlotsAssumption
      <4>3. req[s].tok \in DOMAIN tokens' /\ e \in Emails
        BY <1>1, <1>6, <2>1, <2>3, <3>3 DEF Sound
      <4>4. Sound(req[s])'
        BY <4>1, <4>2, <4>3 DEF Sound, Exists
      <4>. QED BY <4>1, <4>4
    <3>. QED BY <3>1, <3>2, <3>3
  <2> HIDE DEF new
  <2>5. /\ users' \in [Emails -> Row \cup {None}] /\ users'[e] = new
        /\ \A m \in Emails : m # e => users'[m] = users[m]
    BY <1>5, <1>6, <2>1, <2>2
  <2>6. minted' \in Nat /\ spoiled' \subseteq Emails
    BY <1>5, <1>6, <2>1
  <2>7. TypeOK'
    BY <1>3, <2>1, <2>3, <2>4, <2>5, <2>6 DEF TypeOK
  <2>8. RowsTyped'
    BY <1>4, <1>6, <2>1, <2>2, <2>3, <2>5, SlotsAssumption DEF AccountsInv, RowsTyped, Exists
  <2>9. Growing
    BY <1>6, <2>1, <2>2, <2>3, <2>5, SlotsAssumption DEF Growing, Exists
  <2>. QED BY <2>4, <2>7, <2>8, <2>9 DEF Served
<1>. QED BY <1>7, <1>8

\* The steps that make new rows, and the end of a request that goes wrong
LEMMA NewRowSteps ==
  ASSUME AccountsInv, NEW s \in Slots,
         SignupStart(s) \/ CreateTenant(s) \/ Insert(s) \/ Die(s)
  PROVE  Served(s)
<1>1. /\ now \in Nat /\ fails \in [Emails -> Nat] /\ ttl \in [Emails -> Nat]
      /\ started \in Nat /\ faults \in 0 .. MaxFaults /\ MaxFaults \in Nat
      /\ Sound(req[s]) /\ req[s] \in Request /\ tokens \in Seq(Token)
  BY BoundsAssumption DEF AccountsInv, TypeOK, RequestsSound
<1>2. (Ok \/ Fault => faults' \in 0 .. MaxFaults)
  BY <1>1 DEF Ok, Fault
<1>3. TypeOK
  BY DEF AccountsInv
<1>4. \A t \in DOMAIN tokens : tokens[t].user \in Emails /\ Exists(tokens[t].user)
                               /\ t \in Nat
  <2>1. \A t \in DOMAIN tokens : tokens[t] \in Token /\ Exists(tokens[t].user) /\ t \in Nat
    BY <1>1 DEF AccountsInv, RowsTyped
  <2>. QED BY <2>1 DEF Token
<1>5. /\ users \in [Emails -> Row \cup {None}] /\ minted \in Nat /\ proved \subseteq Nat
      /\ spoiled \subseteq Emails /\ invited \subseteq Emails /\ tenants \in Seq(Emails)
      /\ \A m \in Emails : Exists(m) => users[m].tenant \in DOMAIN tenants
  BY DEF AccountsInv, TypeOK, RowsTyped
<1>6. ASSUME SignupStart(s) PROVE Served(s)
  <2>1. PICK e \in Emails :
          /\ ~Exists(e)
          /\ req' = [req EXCEPT ![s] = [Idle EXCEPT !.op = "signup", !.pc = "tenant",
                                                    !.email = e]]
    BY <1>6 DEF SignupStart
  <2> DEFINE new == [Idle EXCEPT !.op = "signup", !.pc = "tenant", !.email = e]
  <2>2. new \in Request /\ new.op = "signup" /\ new.pc = "tenant" /\ new.email = e
    BY DEF Idle, Request
  <2>3. req' = [req EXCEPT ![s] = new]
    BY <2>1
  <2> HIDE DEF new
  <2>4. Sound(new)
    BY <2>1, <2>2 DEF Sound, StillFree
  <2>5. /\ TablesKept /\ tokens' = tokens /\ now' = now /\ fails' = fails /\ ttl' = ttl
        /\ Arrives(s) /\ Ok
    BY <1>6 DEF SignupStart, rows, counter, history, TablesKept, Ok
  <2>. QED BY <2>2, <2>3, <2>4, <2>5, Arrived
<1>7. ASSUME CreateTenant(s) PROVE Served(s)
  <2> DEFINE e == req[s].email
             t == Len(tenants) + 1
             new == [req[s] EXCEPT !.pc = "insert", !.tenant = t]
  <2>1. /\ req[s].pc = "tenant" /\ tokens' = tokens /\ now' = now /\ fails' = fails
        /\ ttl' = ttl /\ users' = users /\ minted' = minted /\ proved' = proved
        /\ spoiled' = spoiled /\ invited' = invited /\ started' = started
        /\ faults' = faults /\ tenants' = Append(tenants, e)
    BY <1>7 DEF CreateTenant, At, counter, history
  <2>2. req[s].op = "signup" /\ e \in Emails /\ StillFree(e)
    BY <1>1, <2>1 DEF Sound
  <2>3. /\ tenants' \in Seq(Emails) /\ Len(tenants') = t
        /\ \A x \in 1 .. Len(tenants) : tenants'[x] = tenants[x]
        /\ tenants'[t] = e /\ Len(tenants) \in Nat /\ t \in Nat
    BY <1>5, <2>1, <2>2, AppendProperties
  <2>4. /\ DOMAIN tenants = 1 .. Len(tenants) /\ DOMAIN tenants' = 1 .. t
        /\ DOMAIN tenants \subseteq DOMAIN tenants' /\ t \in DOMAIN tenants'
    BY <1>5, <2>3
  <2>5. /\ new \in Request /\ new.pc = "insert" /\ new.op = "signup" /\ new.email = e
        /\ new.by = req[s].by /\ new.tok = req[s].tok /\ new.tenant = t
    BY <1>1, <2>2, <2>3 DEF Request
  <2>6. req' = [req EXCEPT ![s] = new]
    BY <1>7 DEF CreateTenant
  <2> HIDE DEF new
  <2>7. /\ req' \in [Slots -> Request] /\ req' = [req EXCEPT ![s] = req'[s]]
        /\ req'[s] = new
    BY <1>3, <2>5, <2>6, ReplacedFacts
  <2>8. TypeOK'
    BY <1>3, <2>1, <2>3, <2>7 DEF TypeOK
  <2>9. RowsTyped'
    BY <2>1, <2>4 DEF AccountsInv, RowsTyped, Exists
  <2>10. Growing
    BY <2>1, <2>3, <2>4 DEF Growing, Exists
  <2>11. Sound(req[s])'
    <3>1. users'[e] # None => e \in invited' \/ tenants'[users'[e].tenant] = e
      BY <1>5, <2>1, <2>2, <2>3, <2>4 DEF StillFree, Exists
    <3>. QED BY <2>2, <2>3, <2>4, <2>5, <2>7, <3>1 DEF Sound, StillFree, Exists
  <2>. QED BY <2>7, <2>8, <2>9, <2>10, <2>11 DEF Served
<1>8. ASSUME Insert(s) PROVE Served(s)
  <2> DEFINE e == req[s].email
             op == req[s].op
  <2>1. /\ req[s].pc = "insert" /\ now' = now /\ fails' = fails
        /\ ttl' = ttl /\ tenants' = tenants /\ minted' = minted /\ proved' = proved
        /\ spoiled' = spoiled /\ started' = started /\ faults' = faults
    BY <1>8 DEF Insert, At, counter
  <2>2. /\ e \in Emails /\ op \in {"signup", "invite"}
        /\ req[s].tenant \in DOMAIN tenants
        /\ op = "signup" => tenants[req[s].tenant] = e
    BY <1>1, <2>1 DEF Sound
  <2>3. CASE Finish(s) /\ users' = users /\ tokens' = tokens /\ invited' = invited
    <3>1. TablesKept
      BY <2>1, <2>3 DEF TablesKept
    <3>. QED BY <1>1, <1>3, <2>1, <2>3, <3>1, FinishFacts, IdleSound, ReadOnly
  <2>4. ASSUME NEW role \in Roles, ~Exists(e),
               users' = [users EXCEPT ![e] = NewRow(req[s], role)],
               \/ op = "signup" /\ Goto(s, "issue") /\ UNCHANGED <<tokens, invited>>
               \/ /\ op = "invite" /\ Finish(s) /\ invited' = invited \cup {e}
                  /\ tokens' \in {tokens, Append(tokens, NewToken("link", e))}
        PROVE  Served(s)
    <3> DEFINE new == NewRow(req[s], role)
    <3>1. new \in Row /\ new.tenant = req[s].tenant
      <4>1. req[s].tenant \in Nat
        BY <1>5, <2>2
      <4>. QED BY <4>1 DEF NewRow, Row, Roles
    <3> HIDE DEF new
    <3>2. /\ users' \in [Emails -> Row \cup {None}] /\ users'[e] = new /\ new # None
          /\ \A m \in Emails : m # e => users'[m] = users[m]
      BY <1>5, <2>2, <2>4, <3>1, SlotsAssumption DEF new
    <3>3. /\ invited' \subseteq Emails /\ invited \subseteq invited'
          /\ e \in invited' \/ tenants'[new.tenant] = e
      BY <1>5, <2>1, <2>2, <2>4, <3>1
    <3>4. /\ tokens' \in Seq(Token) /\ DOMAIN tokens \subseteq DOMAIN tokens'
          /\ \A x \in DOMAIN tokens' :
               tokens'[x].user = e \/ (x \in DOMAIN tokens /\ tokens'[x] = tokens[x])
      <4>1. tokens' = tokens \/ tokens' = Append(tokens, NewToken("link", e))
        BY <2>4
      <4>2. CASE tokens' = Append(tokens, NewToken("link", e))
        <5> DEFINE token == NewToken("link", e)
        <5>1. token \in Token /\ token.user = e
          BY <1>3, <2>2, NewTokenFacts DEF Kinds
        <5> HIDE DEF token
        <5>2. tokens' = Append(tokens, token)
          BY <4>2 DEF token
        <5>3. /\ tokens' \in Seq(Token) /\ Len(tokens') = Len(tokens) + 1
              /\ \A x \in 1 .. Len(tokens) : tokens'[x] = tokens[x]
              /\ tokens'[Len(tokens) + 1] = token
          BY <1>1, <5>1, <5>2, AppendProperties
        <5>4. /\ DOMAIN tokens = 1 .. Len(tokens) /\ Len(tokens) \in Nat
              /\ DOMAIN tokens' = 1 .. Len(tokens')
          BY <1>1, <5>3
        <5>5. ASSUME NEW x \in DOMAIN tokens', x \notin DOMAIN tokens
              PROVE  x = Len(tokens) + 1
          BY <5>3, <5>4, <5>5
        <5>. QED BY <5>1, <5>3, <5>4, <5>5
      <4>. QED BY <1>1, <4>1, <4>2
    <3>5. /\ req' \in [Slots -> Request] /\ req' = [req EXCEPT ![s] = req'[s]]
          /\ Sound(req[s])'
      <4>1. Finish(s) \/ (op = "signup" /\ Goto(s, "issue"))
        BY <2>4
      <4>2. CASE Finish(s)
        BY <1>3, <4>2, FinishFacts, IdleSound
      <4>3. CASE op = "signup" /\ Goto(s, "issue")
        <5>1. /\ req' \in [Slots -> Request] /\ req' = [req EXCEPT ![s] = req'[s]]
              /\ req'[s].pc = "issue" /\ req'[s].op = "signup" /\ req'[s].email = e
              /\ req'[s].by = req[s].by /\ req'[s].tok = req[s].tok
          BY <1>3, <4>3, GotoFacts
        <5>2. Sound(req[s])'
          BY <2>2, <3>2, <5>1 DEF Sound, Exists
        <5>. QED BY <5>1, <5>2
      <4>. QED BY <4>1, <4>2, <4>3
    <3>6. TypeOK'
      BY <1>3, <2>1, <3>2, <3>3, <3>4, <3>5 DEF TypeOK
    <3>7. RowsTyped'
      <4>1. \A m \in Emails : users'[m] # None => users'[m].tenant \in DOMAIN tenants'
        BY <1>5, <2>1, <2>2, <3>1, <3>2 DEF Exists
      <4>2. \A x \in DOMAIN tokens' : users'[tokens'[x].user] # None
        BY <1>4, <3>2, <3>4 DEF Exists
      <4>. QED BY <4>1, <4>2 DEF RowsTyped, Exists
    <3>8. Growing
      BY <2>1, <2>2, <2>4, <3>2, <3>3, <3>4 DEF Growing, Exists
    <3>. QED BY <3>5, <3>6, <3>7, <3>8 DEF Served
  <2>5. \/ Finish(s) /\ users' = users /\ tokens' = tokens /\ invited' = invited
        \/ /\ ~Exists(e)
           /\ \E role \in Roles : users' = [users EXCEPT ![e] = NewRow(req[s], role)]
           /\ \/ op = "signup" /\ Goto(s, "issue") /\ UNCHANGED <<tokens, invited>>
              \/ /\ op = "invite" /\ Finish(s) /\ invited' = invited \cup {e}
                 /\ tokens' \in {tokens, Append(tokens, NewToken("link", e))}
    BY <1>8 DEF Insert
  <2>. QED BY <2>3, <2>4, <2>5
<1>9. ASSUME Die(s) PROVE Served(s)
  <2>1. /\ TablesKept /\ tokens' = tokens /\ now' = now /\ fails' = fails /\ ttl' = ttl
        /\ started' = started /\ Finish(s) /\ Fault
    BY <1>9 DEF Die, rows, counter, history, TablesKept
  <2>. QED BY <1>1, <1>2, <1>3, <2>1, FinishFacts, IdleSound, ReadOnly
<1>. QED BY <1>6, <1>7, <1>8, <1>9

LEMMA HandleServes ==
  ASSUME AccountsInv, NEW s \in Slots, Handle(s)
  PROVE  Served(s)
BY LoginSteps, TokenStarts, TokenSteps, RowSteps, NewRowSteps DEF Handle

-----------------------------------------------------------------------------
(* The invariant *)

\* Time passes: counters of failures are dropped, and nothing else.
LEMMA TickFacts ==
  ASSUME TypeOK, Tick
  PROVE  /\ now' = now + 1 /\ now' \in Nat
         /\ fails' \in [Emails -> Nat] /\ ttl' \in [Emails -> Nat]
         /\ \A e \in Emails : \/ fails'[e] = 0 /\ ttl'[e] = 0
                              \/ fails'[e] = fails[e] /\ ttl'[e] = ttl[e]
         /\ TablesKept /\ tokens' = tokens /\ req' = req /\ faults' = faults
         /\ started' = started
<1> DEFINE gone == {e \in Emails : ttl[e] # 0 /\ ttl[e] <= now'}
<1>1. /\ now \in Nat /\ fails \in [Emails -> Nat] /\ ttl \in [Emails -> Nat]
  BY DEF TypeOK
<1>2. /\ now' = now + 1
      /\ fails' = [e \in Emails |-> IF e \in gone THEN 0 ELSE fails[e]]
      /\ ttl' = [e \in Emails |-> IF e \in gone THEN 0 ELSE ttl[e]]
  BY DEF Tick
<1>3. /\ TablesKept /\ tokens' = tokens /\ req' = req /\ faults' = faults
      /\ started' = started
  BY DEF Tick, rows, history, TablesKept
<1> HIDE DEF gone
<1>. QED BY <1>1, <1>2, <1>3

\* Types, rows and requests are in order at the start, and no step changes that.
LEMMA AccountsInit == Init => AccountsInv
<1> SUFFICES ASSUME Init PROVE AccountsInv
  OBVIOUS
<1>1. users \in Rows /\ Rows \subseteq [Emails -> {r \in Row : r.tenant \in DOMAIN Tenants} \cup {None}]
      /\ Tenants \in Seq(Emails) /\ Tokens \in Seq(Token)
      /\ \A i \in DOMAIN Tokens : users[Tokens[i].user] # None
  BY RowsAssumption, TokensAssumption DEF Init
<1>2. /\ now = 0 /\ tenants = Tenants /\ tokens = Tokens
      /\ fails = [e \in Emails |-> Fails]
      /\ ttl = [e \in Emails |-> IF Fails = 0 THEN 0 ELSE 2 * Window]
      /\ minted = 1 /\ spoiled = {} /\ invited = {} /\ started = 0 /\ faults = 0
      /\ req = [s \in Slots |-> Idle]
      /\ proved = {users[e].secret : e \in {m \in Emails : users[m] # None /\ users[m].mfa}}
  BY DEF Init
<1>3. users \in [Emails -> Row \cup {None}]
      /\ \A e \in Emails : users[e] # None => users[e].tenant \in DOMAIN Tenants
  BY <1>1
<1>4. proved \subseteq Nat
  <2>1. \A e \in Emails : users[e] # None => users[e].secret \in Nat
    BY <1>3 DEF Row
  <2>. QED BY <1>2, <2>1
<1>5. fails \in [Emails -> Nat] /\ ttl \in [Emails -> Nat]
  BY <1>2, FailsAssumption, LockoutAssumption
<1>6. req \in [Slots -> Request] /\ \A s \in Slots : req[s] = Idle
  BY <1>2, IdleFacts
<1>7. TypeOK
  BY <1>1, <1>2, <1>3, <1>4, <1>5, <1>6, BoundsAssumption DEF TypeOK
<1>8. RowsTyped
  BY <1>1, <1>2, <1>3 DEF RowsTyped, Exists
<1>9. RequestsSound
  BY <1>6, IdleFacts DEF RequestsSound
<1>. QED BY <1>7, <1>8, <1>9 DEF AccountsInv

LEMMA AccountsStep == AccountsInv /\ [Next]_vars => AccountsInv'
<1> SUFFICES ASSUME AccountsInv, [Next]_vars PROVE AccountsInv'
  OBVIOUS
<1>1. ASSUME NEW s \in Slots, Handle(s) PROVE AccountsInv'
  <2>1. /\ TypeOK' /\ RowsTyped' /\ Growing /\ Sound(req[s])'
        /\ req' = [req EXCEPT ![s] = req'[s]]
    BY <1>1, HandleServes DEF Served
  <2>2. ASSUME NEW q \in Slots PROVE Sound(req[q])'
    <3>1. CASE q = s
      BY <2>1, <3>1
    <3>2. CASE q # s
      <4>1. req'[q] = req[q]
        BY <2>1, <3>2 DEF AccountsInv, TypeOK
      <4>. QED BY <2>1, <4>1, StillSound
    <3>. QED BY <3>1, <3>2
  <2>. QED BY <2>1, <2>2 DEF AccountsInv, RequestsSound
<1>2. ASSUME TablesKept, tokens' = tokens, req' = req, TypeOK' PROVE AccountsInv'
  <2>1. Growing
    BY <1>2, NothingMoved DEF TablesKept
  <2>2. ASSUME NEW q \in Slots PROVE Sound(req[q])'
    BY <1>2, <2>1, StillSound
  <2>3. RowsTyped'
    BY <1>2 DEF AccountsInv, RowsTyped, TablesKept, Exists
  <2>. QED BY <1>2, <2>2, <2>3 DEF AccountsInv, RequestsSound
<1>3. CASE Tick
  <2>1. TypeOK
    BY DEF AccountsInv
  <2>2. TypeOK'
    BY <1>3, <2>1, TickFacts DEF TypeOK, TablesKept
  <2>. QED BY <1>2, <1>3, <2>1, <2>2, TickFacts
<1>4. CASE UNCHANGED vars
  <2>1. TypeOK'
    BY <1>4 DEF AccountsInv, TypeOK, vars
  <2>2. TablesKept /\ tokens' = tokens /\ req' = req
    BY <1>4 DEF TablesKept, vars
  <2>. QED BY <1>2, <2>1, <2>2
<1>. QED BY <1>1, <1>3, <1>4 DEF Next, Quiet

\* Rows, tokens and requests stay well formed, and what a handler of auth.py has
\* read and checked still holds when it commits: the invariant the theorems
\* below rest on.
THEOREM AccountsAreSound == Spec => []AccountsInv
<1>. QED BY AccountsInit, AccountsStep, PTL DEF Spec

-----------------------------------------------------------------------------
(* Rows: MFA and tenants *)

\* What the steps do to the rows of users: two of them write one.
LEMMA RowMoves ==
  ASSUME NEW s \in Slots, Handle(s)
  PROVE  \/ Write(s) \/ Insert(s)
         \/ users' = users /\ proved \subseteq proved' /\ spoiled' = spoiled
<1>1. ASSUME \/ LoginStart(s) \/ Find(s) \/ Miss(s) \/ Expire(s) \/ Clear(s) \/ Issue(s)
             \/ VerifyStart(s) \/ Code(s) \/ Spend(s) \/ Logout(s)
      PROVE  users' = users /\ proved' = proved /\ spoiled' = spoiled
  BY <1>1 DEF LoginStart, Find, Miss, Expire, Clear, Issue, VerifyStart, Code, Spend,
              Logout, rows, history
<1>2. ASSUME \/ OwnStart(s) \/ InviteStart(s) \/ DeactivateStart(s)
             \/ RequestReset(s) \/ AcceptStart(s) \/ SignupStart(s) \/ CreateTenant(s)
             \/ Die(s)
      PROVE  users' = users /\ proved' = proved /\ spoiled' = spoiled
  BY <1>2 DEF OwnStart, InviteStart, DeactivateStart, RequestReset, AcceptStart,
              SignupStart, CreateTenant, Die, rows, history
<1>3. ASSUME Read(s)
      PROVE  users' = users /\ proved \subseteq proved' /\ spoiled' = spoiled
  <2>1. users' = users /\ spoiled' = spoiled
    BY <1>3 DEF Read, rows
  <2>2. \/ proved' = proved
        \/ \E x : proved' = IF req[s].op = "confirm" THEN proved \cup {x} ELSE proved
    BY <1>3 DEF Read
  <2>. QED BY <2>1, <2>2
<1>. QED BY <1>1, <1>2, <1>3 DEF Handle

\* A row that switches MFA on has a secret that was proved, or is spoiled.
LEMMA MfaStep ==
  ASSUME AccountsInv, MfaProved, NEW s \in Slots, Handle(s)
  PROVE  MfaProved'
<1>1. /\ users \in [Emails -> Row \cup {None}] /\ req[s] \in Request /\ Sound(req[s])
  BY DEF AccountsInv, TypeOK, RequestsSound
<1>2. \A e \in Emails : users[e] # None /\ users[e].mfa =>
        users[e].secret \in proved \/ e \in spoiled
  BY DEF MfaProved, Exists
<1>3. CASE users' = users /\ proved \subseteq proved' /\ spoiled' = spoiled
  BY <1>2, <1>3 DEF MfaProved, Exists
<1>4. CASE Insert(s)
  <2>1. proved' = proved /\ spoiled' = spoiled
    BY <1>4 DEF Insert
  <2>2. CASE users' = users
    BY <1>2, <2>1, <2>2 DEF MfaProved, Exists
  <2>3. ASSUME NEW role \in Roles,
               users' = [users EXCEPT ![req[s].email] = NewRow(req[s], role)]
        PROVE  MfaProved'
    <3> DEFINE new == NewRow(req[s], role)
    <3>1. new.mfa = FALSE
      BY DEF NewRow
    <3> HIDE DEF new
    <3>2. \A e \in Emails : users'[e] = users[e] \/ users'[e] = new
      BY <1>1, <2>3 DEF new
    <3>. QED BY <1>2, <2>1, <3>1, <3>2 DEF MfaProved, Exists
  <2>. QED BY <1>4, <2>2, <2>3 DEF Insert
<1>5. CASE Write(s)
  <2> DEFINE e == req[s].email
             old == users[e]
             op == req[s].op
             row == req[s].row
             new == Written(op, old, row)
  <2>1. /\ req[s].pc = "write" /\ proved' = proved
        /\ users' = [users EXCEPT ![e] = new]
        /\ spoiled' = IF Blind(op, old, row) THEN spoiled \cup {e} ELSE spoiled
    BY <1>5 DEF Write, At
  <2>2. /\ e \in Emails /\ old \in Row /\ old # None /\ row \in Row
        /\ op \in {"enroll", "confirm", "disable", "deactivate", "accept"}
        /\ op = "confirm" => row.secret \in proved
    <3>1. e \in Emails /\ Exists(e)
      BY <1>1, <2>1 DEF Sound
    <3>. QED BY <1>1, <2>1, <3>1 DEF Sound, Exists
  <2>3. new.mfa => new.secret \in proved \/ e \in spoiled'
    <3>0. old.mfa => old.secret \in proved \/ e \in spoiled
      BY <1>2, <2>2
    <3>1. CASE op = "enroll"
      <4>1. new = [old EXCEPT !.secret = minted + 1]
        BY <3>1 DEF Written, Enrolled
      <4>2. new.mfa = old.mfa
        BY <2>2, <4>1 DEF Row
      <4>3. old.mfa => Blind(op, old, row)
        BY <3>1 DEF Blind
      <4>. QED BY <2>1, <4>2, <4>3
    <3>2. CASE op = "confirm"
      <4>1. new = IF row.mfa THEN old ELSE [old EXCEPT !.mfa = TRUE]
        BY <3>2 DEF Written, Confirmed
      <4>2. new.secret = old.secret
        BY <2>2, <4>1 DEF Row
      <4>3. old.secret # row.secret => Blind(op, old, row)
        BY <3>2 DEF Blind
      <4>. QED BY <2>1, <2>2, <3>2, <4>2, <4>3
    <3>3. CASE op = "disable"
      <4>1. new = [old EXCEPT !.mfa = FALSE, !.secret = 0]
        BY <3>3 DEF Written, Disabled
      <4>. QED BY <2>2, <4>1 DEF Row
    <3>4. CASE op = "deactivate"
      <4>1. new = IF row.active THEN [old EXCEPT !.active = FALSE] ELSE old
        BY <3>4 DEF Written, Deactivated
      <4>2. new.mfa = old.mfa /\ new.secret = old.secret
        BY <2>2, <4>1 DEF Row
      <4>. QED BY <2>1, <3>0, <4>2
    <3>5. CASE op = "accept"
      <4>1. new = IF row.active THEN old ELSE [old EXCEPT !.active = TRUE]
        BY <3>5 DEF Written, Accepted
      <4>2. new.mfa = old.mfa /\ new.secret = old.secret
        BY <2>2, <4>1 DEF Row
      <4>. QED BY <2>1, <3>0, <4>2
    <3>. QED BY <2>2, <3>1, <3>2, <3>3, <3>4, <3>5
  <2> HIDE DEF new
  <2>4. users'[e] = new /\ \A m \in Emails : m # e => users'[m] = users[m]
    BY <1>1, <2>1, <2>2
  <2>. QED BY <1>2, <2>1, <2>3, <2>4 DEF MfaProved, Exists
<1>. QED BY <1>3, <1>4, <1>5, RowMoves

\* Tenants come with a sign-up, and failures are only counted.
LEMMA TenantMoves ==
  ASSUME AccountsInv, NEW s \in Slots, Handle(s)
  PROVE  /\ CreateTenant(s) \/ tenants' = tenants
         /\ faults' \in {faults, faults + 1}
         /\ faults' = faults => ~Die(s)
         /\ req[s].pc = "insert" => Insert(s) \/ Die(s)
<1>1. faults \in Nat
  BY DEF AccountsInv, TypeOK
<1>2. /\ Ok => faults' = faults
      /\ Fault => faults' = faults + 1
      /\ \A t : NotRevoked(t) \/ Revoke(t) => faults' \in {faults, faults + 1}
  BY DEF Ok, Fault, NotRevoked, Revoke
<1>3. ASSUME LoginStart(s) \/ Find(s) \/ Miss(s) \/ Expire(s) \/ Clear(s) \/ Issue(s)
      PROVE  /\ tenants' = tenants /\ faults' \in {faults, faults + 1}
             /\ req[s].pc # "insert"
  BY <1>2, <1>3 DEF LoginStart, Find, Miss, Expire, Clear, Issue, Arrives, At, rows
<1>4. ASSUME VerifyStart(s) \/ Code(s) \/ Spend(s) \/ Logout(s) \/ OwnStart(s)
      PROVE  /\ tenants' = tenants /\ faults' \in {faults, faults + 1}
             /\ req[s].pc # "insert"
  BY <1>2, <1>4 DEF VerifyStart, Code, Spend, Logout, OwnStart, Arrives, At, rows
<1>5. ASSUME \/ InviteStart(s) \/ DeactivateStart(s) \/ RequestReset(s) \/ AcceptStart(s)
             \/ SignupStart(s)
      PROVE  /\ tenants' = tenants /\ faults' \in {faults, faults + 1}
             /\ req[s].pc # "insert"
  BY <1>2, <1>5 DEF InviteStart, DeactivateStart, RequestReset, AcceptStart, SignupStart,
                    Arrives, At, rows
<1>6. ASSUME Read(s) \/ Write(s)
      PROVE  tenants' = tenants /\ faults' = faults /\ req[s].pc # "insert"
  BY <1>6 DEF Read, Write, At, rows
<1>7. ASSUME CreateTenant(s) PROVE faults' = faults /\ req[s].pc # "insert"
  BY <1>7 DEF CreateTenant, At
<1>8. ASSUME Insert(s) PROVE tenants' = tenants /\ faults' = faults
  BY <1>8 DEF Insert
<1>9. ASSUME Die(s) PROVE tenants' = tenants /\ faults' = faults + 1
  BY <1>2, <1>9 DEF Die, rows
<1>10. faults + 1 # faults
  BY <1>1
<1>. QED BY <1>3, <1>4, <1>5, <1>6, <1>7, <1>8, <1>9, <1>10 DEF Handle

\* A tenant has its user, or is about to get it, or lost the address.
Homed(e, t) ==
  Exists(e) /\ (users[e].tenant = t \/ e \in invited \/ tenants[users[e].tenant] = e)
Inserting(s, t) ==
  req[s].pc = "insert" /\ req[s].op = "signup" /\ req[s].tenant = t
TenantInv ==
  faults > 0 \/ \A t \in DOMAIN tenants :
                  Homed(tenants[t], t) \/ \E s \in Slots : Inserting(s, t)

LEMMA TenantInit == Init => TenantInv
<1> SUFFICES ASSUME Init PROVE TenantInv
  OBVIOUS
<1>1. tenants = Tenants /\ users \in Rows
  BY DEF Init
<1>2. \A t \in DOMAIN tenants : Homed(tenants[t], t)
  BY <1>1, RowsAssumption DEF Homed, Exists
<1>. QED BY <1>2 DEF TenantInv

LEMMA TenantStep ==
  ASSUME AccountsInv, TenantInv, NEW s \in Slots, Handle(s)
  PROVE  TenantInv'
<1>1. /\ users \in [Emails -> Row \cup {None}] /\ faults \in Nat
      /\ Sound(req[s]) /\ tenants \in Seq(Emails)
      /\ req \in [Slots -> Request]
      /\ \A e \in Emails : Exists(e) => users[e].tenant \in DOMAIN tenants
  BY DEF AccountsInv, TypeOK, RequestsSound, RowsTyped
<1>2. /\ Growing /\ req' = [req EXCEPT ![s] = req'[s]] /\ users' \in [Emails -> Row \cup {None}]
  BY HandleServes DEF Served, TypeOK
<1>3. /\ CreateTenant(s) \/ tenants' = tenants
      /\ faults' \in {faults, faults + 1}
      /\ faults' = faults => ~Die(s)
      /\ req[s].pc = "insert" => Insert(s) \/ Die(s)
  BY TenantMoves
<1>4. CASE faults' # 0
  BY <1>1, <1>3, <1>4 DEF TenantInv
<1>5. CASE faults' = 0
  <2>1. faults = 0 /\ ~Die(s)
    BY <1>1, <1>3, <1>5
  <2>2. ASSUME NEW t \in DOMAIN tenants
        PROVE  /\ tenants'[t] = tenants[t]
               /\ Homed(tenants[t], t)' \/ \E q \in Slots : Inserting(q, t)'
    <3> DEFINE e == tenants[t]
    <3>1. tenants'[t] = e /\ e \in Emails
      BY <1>1, <1>2 DEF Growing
    <3>2. ASSUME Homed(e, t) PROVE Homed(tenants[t], t)'
      <4>1. /\ users'[e] # None /\ users'[e].tenant = users[e].tenant
            /\ invited \subseteq invited'
            /\ tenants'[users[e].tenant] = tenants[users[e].tenant]
        BY <1>1, <1>2, <3>1, <3>2 DEF Growing, Homed
      <4>. QED BY <3>1, <3>2, <4>1 DEF Homed, Exists
    <3>3. ASSUME NEW q \in Slots, Inserting(q, t), q # s
          PROVE  Inserting(q, t)'
      <4>1. req'[q] = req[q]
        BY <1>1, <1>2, <3>3
      <4>. QED BY <3>3, <4>1 DEF Inserting
    <3>4. ASSUME Inserting(s, t), ~Homed(e, t)
          PROVE  Homed(tenants[t], t)'
      <4>1. /\ Insert(s) /\ req[s].email = e /\ req[s].op = "signup"
            /\ req[s].tenant = t /\ StillFree(e)
        BY <1>1, <1>3, <2>1, <3>4 DEF Inserting, Sound
      <4>2. ~Exists(e)
        BY <3>4, <4>1 DEF StillFree, Homed
      <4>3. PICK role \in Roles : users' = [users EXCEPT ![e] = NewRow(req[s], role)]
        BY <4>1, <4>2 DEF Insert
      <4>4. users'[e] = NewRow(req[s], role) /\ NewRow(req[s], role).tenant = t
        BY <1>1, <3>1, <4>1, <4>3 DEF NewRow
      <4>5. users'[e] # None
        <5>1. NewRow(req[s], role) \in Row
          <6>1. t \in Nat
            BY <1>1
          <6>. QED BY <4>1, <6>1 DEF NewRow, Row, Roles
        <5>. QED BY <4>4, <5>1, SlotsAssumption
      <4>. QED BY <3>1, <4>4, <4>5 DEF Homed, Exists
    <3>5. Homed(e, t) \/ \E q \in Slots : Inserting(q, t)
      BY <2>1 DEF TenantInv
    <3>. QED BY <3>1, <3>2, <3>3, <3>4, <3>5
  <2>3. ASSUME NEW t \in DOMAIN tenants', t \notin DOMAIN tenants
        PROVE  Inserting(s, t)'
    <3>1. CreateTenant(s)
      BY <1>3, <2>3
    <3>2. /\ tenants' = Append(tenants, req[s].email) /\ req[s].pc = "tenant"
          /\ req' = [req EXCEPT ![s].pc = "insert", ![s].tenant = Len(tenants) + 1]
      BY <3>1 DEF CreateTenant, At
    <3>3. t = Len(tenants) + 1
      <4>1. req[s].email \in Emails
        BY <1>1, <3>2 DEF Sound
      <4>2. Len(tenants') = Len(tenants) + 1 /\ DOMAIN tenants' = 1 .. Len(tenants')
            /\ DOMAIN tenants = 1 .. Len(tenants) /\ Len(tenants) \in Nat
        BY <1>1, <3>2, <4>1, AppendProperties
      <4>. QED BY <2>3, <4>2
    <3>4. req[s] \in Request /\ req[s].op = "signup"
      BY <1>1, <3>2 DEF Sound
    <3>5. req'[s].pc = "insert" /\ req'[s].tenant = t /\ req'[s].op = "signup"
      BY <1>1, <3>2, <3>3, <3>4 DEF Request
    <3>. QED BY <3>5 DEF Inserting
  <2>4. \A t \in DOMAIN tenants' :
          Homed(tenants[t], t)' \/ \E q \in Slots : Inserting(q, t)'
    <3>1. ASSUME NEW t \in DOMAIN tenants', t \in DOMAIN tenants
          PROVE  Homed(tenants[t], t)' \/ \E q \in Slots : Inserting(q, t)'
      BY <2>2, <3>1
    <3>. QED BY <2>3, <3>1
  <2>. QED BY <2>4 DEF TenantInv
<1>. QED BY <1>4, <1>5

\* However signup, invite_user, enroll_mfa, confirm_mfa and disable_mfa overlap,
\* MFA is on with a secret that was proved unless a commit wrote blindly, and a
\* tenant has its user unless its sign-up died or lost its address.
THEOREM AccountRowsAreSound == Spec => []RowsSound
<1>1. Init => AccountsInv /\ MfaProved /\ TenantInv
  <2>1. Init => MfaProved
    BY DEF Init, MfaProved, Exists
  <2>. QED BY <2>1, AccountsInit, TenantInit
<1>2. AccountsInv /\ MfaProved /\ TenantInv /\ [Next]_vars => (MfaProved /\ TenantInv)'
  <2> SUFFICES ASSUME AccountsInv, MfaProved, TenantInv, [Next]_vars
               PROVE  (MfaProved /\ TenantInv)'
    OBVIOUS
  <2>1. ASSUME NEW s \in Slots, Handle(s) PROVE (MfaProved /\ TenantInv)'
    BY <2>1, MfaStep, TenantStep
  <2>2. ASSUME TablesKept, req' = req, faults' = faults PROVE (MfaProved /\ TenantInv)'
    BY <2>2 DEF TablesKept, MfaProved, TenantInv, Exists, Homed, Inserting
  <2>3. CASE Tick
    BY <2>2, <2>3, TickFacts DEF AccountsInv
  <2>4. CASE UNCHANGED vars
    BY <2>2, <2>4 DEF vars, TablesKept
  <2>. QED BY <2>1, <2>3, <2>4 DEF Next, Quiet
<1>3. AccountsInv /\ MfaProved /\ TenantInv => RowsSound
  <2>1. AccountsInv /\ TenantInv => TenantHasUser
    BY DEF AccountsInv, TypeOK, TenantInv, TenantHasUser, Homed, Inserting, At
  <2>. QED BY <2>1 DEF RowsSound, AccountsInv
<1>. QED BY <1>1, <1>2, <1>3, AccountsStep, PTL DEF Spec

-----------------------------------------------------------------------------
(* The last administrator *)

LEMMA AdminStep ==
  ASSUME AccountsInv, NEW s \in Slots, Handle(s), NEW t,
         ActiveAdmins(t) # {}, ActiveAdmins(t)' = {}
  PROVE  /\ req[s].op = "deactivate" /\ At(s, "write")
         /\ req[s].by = None \/ ~Active(req[s].by)
<1>1. /\ users \in [Emails -> Row \cup {None}] /\ req[s] \in Request /\ Sound(req[s])
  BY DEF AccountsInv, TypeOK, RequestsSound
<1>2. PICK a \in Emails : a \in ActiveAdmins(t)
  BY DEF ActiveAdmins
<1>3. ~(users' = users)
  BY <1>2 DEF ActiveAdmins, Active, Exists
<1>4. ASSUME NEW e \in Emails, e \in ActiveAdmins(t), users'[e] = users[e] PROVE FALSE
  BY <1>4 DEF ActiveAdmins, Active, Exists
<1> DEFINE e == req[s].email
           old == users[e]
           op == req[s].op
           row == req[s].row
           new == Written(op, old, row)
<1>5. CASE Insert(s)
  <2>1. ~Exists(e)
    BY <1>3, <1>5 DEF Insert
  <2>2. \A m \in Emails : m # e => users'[m] = users[m]
    BY <1>1, <1>5 DEF Insert
  <2>3. a # e
    BY <1>2, <2>1 DEF ActiveAdmins, Active
  <2>. QED BY <1>2, <1>4, <2>2, <2>3
<1>6. CASE Write(s)
  <2>1. /\ req[s].pc = "write" /\ users' = [users EXCEPT ![e] = new]
    BY <1>6 DEF Write, At
  <2>2. /\ e \in Emails /\ old \in Row /\ old # None /\ row \in Row
        /\ op \in {"enroll", "confirm", "disable", "deactivate", "accept"}
    <3>1. e \in Emails /\ Exists(e)
      BY <1>1, <2>1 DEF Sound
    <3>. QED BY <1>1, <2>1, <3>1 DEF Sound, Exists
  <2>3. users'[e] = new /\ \A m \in Emails : m # e => users'[m] = users[m]
    BY <1>1, <2>1, <2>2
  <2>4. \A m \in Emails : m \in ActiveAdmins(t) => m = e
    BY <1>4, <2>3
  <2>5. ASSUME op # "deactivate" PROVE FALSE
    <3>1. minted \in Nat
      BY DEF AccountsInv, TypeOK
    <3>2. new \in Row /\ new.tenant = old.tenant /\ new.role = old.role
      BY <2>2, <3>1, WrittenFacts
    <3>3. old.active => new.active
      <4>1. CASE op = "enroll"
        BY <2>2, <4>1 DEF Written, Enrolled, Row
      <4>2. CASE op = "confirm"
        BY <2>2, <4>2 DEF Written, Confirmed, Row
      <4>3. CASE op = "disable"
        BY <2>2, <4>3 DEF Written, Disabled, Row
      <4>4. CASE op = "accept"
        BY <2>2, <4>4 DEF Written, Accepted, Row
      <4>. QED BY <2>2, <2>5, <4>1, <4>2, <4>3, <4>4
    <3> HIDE DEF new
    <3>4. e \in ActiveAdmins(t) => e \in ActiveAdmins(t)'
      BY <2>2, <2>3, <3>2, <3>3, SlotsAssumption DEF ActiveAdmins, Active, Exists
    <3>. QED BY <1>2, <2>4, <3>4
  <2>6. ASSUME req[s].by # None, Active(req[s].by) PROVE FALSE
    <3> DEFINE by == req[s].by
    <3>1. /\ by # e /\ Exists(by) /\ users[by].role = "admin"
          /\ users[by].tenant = users[e].tenant /\ by \in Emails
      BY <1>1, <2>5, <2>6 DEF Sound, Request
    <3>2. e \in ActiveAdmins(t)
      BY <1>2, <2>4
    <3>3. by \in ActiveAdmins(t)
      BY <2>6, <3>1, <3>2 DEF ActiveAdmins
    <3>. QED BY <2>4, <3>1, <3>3
  <2>. QED BY <2>1, <2>5, <2>6 DEF At
<1>. QED BY <1>3, <1>5, <1>6, RowMoves

\* The last active administrator of a tenant is turned out (deactivate_user) only
\* by the service key, or by an administrator who was turned out before.
THEOREM LastAdminStays == Spec => LastAdmin
<1>1. AccountsInv /\ [Next]_vars =>
        [\A t \in DOMAIN tenants :
           ActiveAdmins(t) # {} /\ ActiveAdmins(t)' = {}
             => \E s \in Slots :
                  /\ req[s].op = "deactivate" /\ At(s, "write")
                  /\ \/ req[s].by = None
                     \/ ~Active(req[s].by)]_vars
  <2> SUFFICES ASSUME AccountsInv, Next, NEW t \in DOMAIN tenants,
                      ActiveAdmins(t) # {}, ActiveAdmins(t)' = {}
               PROVE  \E s \in Slots :
                        /\ req[s].op = "deactivate" /\ At(s, "write")
                        /\ \/ req[s].by = None
                           \/ ~Active(req[s].by)
    OBVIOUS
  <2>1. CASE \E s \in Slots : Handle(s)
    BY <2>1, AdminStep
  <2>2. CASE users' = users
    BY <2>2 DEF ActiveAdmins, Active, Exists
  <2>3. CASE Tick \/ Quiet
    BY <2>2, <2>3 DEF Tick, Quiet, vars, rows
  <2>. QED BY <2>1, <2>3 DEF Next
<1>. QED BY <1>1, AccountsInit, AccountsStep, PTL DEF Spec, LastAdmin

-----------------------------------------------------------------------------
(* The lock-out counter *)

\* Requests that were let in and may still count a failure
Trying(e) == {s \in Slots : req[s].pc \in {"find", "miss"} /\ req[s].email = e}

AttemptsInv ==
  \A e \in Emails :
    fails[e] + Cardinality(Trying(e)) < MaxAttempts + Cardinality(Slots) + faults

\* Most steps leave the counter alone, and begin no attempt.
LEMMA CounterMoves ==
  ASSUME AccountsInv, NEW s \in Slots, Handle(s)
  PROVE  \/ LoginStart(s) \/ Find(s) \/ Miss(s) \/ Expire(s) \/ Clear(s)
         \/ /\ fails' = fails /\ ttl' = ttl
            /\ req'[s].pc \notin {"find", "miss"}
            /\ req[s].pc = "expire" => Die(s)
<1>1. req \in [Slots -> Request] /\ TypeOK /\ Idle.pc = "idle"
  BY DEF AccountsInv, TypeOK, Idle
<1> DEFINE Elsewhere == /\ fails' = fails /\ ttl' = ttl
                        /\ req'[s].pc \notin {"find", "miss"}
                        /\ req[s].pc # "expire"
<1>2. ASSUME Issue(s) \/ Read(s) \/ Write(s) \/ Code(s) \/ Spend(s)
      PROVE  Elsewhere
  <2>1. req[s].pc \in {"issue", "read", "write", "code", "revoke"}
        /\ fails' = fails /\ ttl' = ttl
    BY <1>2 DEF Issue, Read, Write, Code, Spend, At, counter
  <2>2. \/ Finish(s) \/ Goto(s, "revoke") \/ Goto(s, "issue")
        \/ req' = [req EXCEPT ![s].pc = "write", ![s].row = users[req[s].email]]
    BY <1>2 DEF Issue, Read, Write, Code, Spend
  <2>3. ASSUME Goto(s, "revoke") \/ Goto(s, "issue")
        PROVE  req'[s].pc \notin {"find", "miss"}
    BY <1>1, <2>3, GotoFacts
  <2>4. ASSUME req' = [req EXCEPT ![s].pc = "write", ![s].row = users[req[s].email]]
        PROVE  req'[s].pc \notin {"find", "miss"}
    BY <1>1, <2>4 DEF Request
  <2>. QED BY <1>1, <2>1, <2>2, <2>3, <2>4, FinishFacts
<1>3. ASSUME VerifyStart(s) \/ Logout(s) \/ OwnStart(s) \/ InviteStart(s)
             \/ DeactivateStart(s)
      PROVE  Elsewhere
  <2>1. req[s].pc = "idle" /\ fails' = fails /\ ttl' = ttl
    BY <1>3 DEF VerifyStart, Logout, OwnStart, InviteStart, DeactivateStart, Arrives, At,
                counter
  <2>2. ASSUME VerifyStart(s) PROVE req'[s].pc \notin {"find", "miss"}
    BY <1>1, <2>2 DEF VerifyStart, Idle
  <2>3. ASSUME OwnStart(s) PROVE req'[s].pc \notin {"find", "miss"}
    BY <1>1, <2>3 DEF OwnStart, Idle
  <2>4. ASSUME InviteStart(s) PROVE req'[s].pc \notin {"find", "miss"}
    BY <1>1, <2>4 DEF InviteStart, Idle
  <2>5. ASSUME DeactivateStart(s) PROVE req'[s].pc \notin {"find", "miss"}
    BY <1>1, <2>5 DEF DeactivateStart, Idle
  <2>6. ASSUME Logout(s) PROVE req'[s].pc \notin {"find", "miss"}
    BY <2>1, <2>6 DEF Logout
  <2>7. req'[s].pc \notin {"find", "miss"}
    BY <1>3, <2>2, <2>3, <2>4, <2>5, <2>6
  <2>. QED BY <2>1, <2>7
<1>4. ASSUME RequestReset(s) \/ AcceptStart(s) \/ SignupStart(s)
      PROVE  Elsewhere
  <2>1. req[s].pc = "idle" /\ fails' = fails /\ ttl' = ttl
    BY <1>4 DEF RequestReset, AcceptStart, SignupStart, Arrives, At, counter
  <2>2. ASSUME AcceptStart(s) PROVE req'[s].pc \notin {"find", "miss"}
    BY <1>1, <2>2 DEF AcceptStart, Idle
  <2>3. ASSUME SignupStart(s) PROVE req'[s].pc \notin {"find", "miss"}
    BY <1>1, <2>3 DEF SignupStart, Idle
  <2>4. ASSUME RequestReset(s) PROVE req'[s].pc \notin {"find", "miss"}
    BY <2>1, <2>4 DEF RequestReset
  <2>5. req'[s].pc \notin {"find", "miss"}
    BY <1>4, <2>2, <2>3, <2>4
  <2>. QED BY <2>1, <2>5
<1>5. ASSUME CreateTenant(s) PROVE Elsewhere
  <2>1. /\ req[s].pc = "tenant" /\ fails' = fails /\ ttl' = ttl
        /\ req' = [req EXCEPT ![s].pc = "insert", ![s].tenant = Len(tenants) + 1]
    BY <1>5 DEF CreateTenant, At, counter
  <2>. QED BY <1>1, <2>1 DEF Request
<1>6. ASSUME Insert(s) PROVE Elsewhere
  <2>1. req[s].pc = "insert" /\ fails' = fails /\ ttl' = ttl
        /\ (Finish(s) \/ Goto(s, "issue"))
    BY <1>6 DEF Insert, At, counter
  <2>2. req'[s].pc \in {"idle", "issue"}
    BY <1>1, <2>1, FinishFacts, GotoFacts
  <2>. QED BY <2>1, <2>2
<1>7. ASSUME Die(s)
      PROVE  fails' = fails /\ ttl' = ttl /\ req'[s].pc \notin {"find", "miss"}
  <2>1. fails' = fails /\ ttl' = ttl /\ Finish(s)
    BY <1>7 DEF Die, counter
  <2>. QED BY <1>1, <2>1, FinishFacts
<1>. QED BY <1>2, <1>3, <1>4, <1>5, <1>6, <1>7 DEF Handle

\* Two sets of slots that agree but for one slot
LEMMA CountMoves ==
  ASSUME NEW before \in SUBSET Slots, NEW after \in SUBSET Slots, NEW s \in Slots,
         \A q \in Slots : q # s => (q \in before <=> q \in after)
  PROVE  /\ Cardinality(before) \in Nat /\ Cardinality(after) \in Nat
         /\ Cardinality(Slots) \in Nat /\ Cardinality(after) <= Cardinality(Slots)
         /\ (s \in before <=> s \in after) => Cardinality(after) = Cardinality(before)
         /\ s \in before /\ s \notin after => Cardinality(after) = Cardinality(before) - 1
         /\ s \notin before /\ s \in after => Cardinality(after) = Cardinality(before) + 1
<1>1. /\ IsFiniteSet(Slots) /\ IsFiniteSet(before) /\ IsFiniteSet(after)
      /\ Cardinality(after) <= Cardinality(Slots)
  BY SlotsAssumption, FS_Subset
<1>2. /\ Cardinality(before) \in Nat /\ Cardinality(after) \in Nat
      /\ Cardinality(Slots) \in Nat
  BY <1>1, FS_CardinalityType
<1>3. before \ {s} = after \ {s}
  OBVIOUS
<1>4. /\ Cardinality(before \ {s}) =
           IF s \in before THEN Cardinality(before) - 1 ELSE Cardinality(before)
      /\ Cardinality(after \ {s}) =
           IF s \in after THEN Cardinality(after) - 1 ELSE Cardinality(after)
  BY <1>1, FS_RemoveElement
<1>. QED BY <1>1, <1>2, <1>3, <1>4

\* Attempts of one address, before and after a step of slot s
LEMMA TryingFacts ==
  ASSUME AccountsInv, NEW s \in Slots, req' = [req EXCEPT ![s] = req'[s]], NEW e
  PROVE  /\ Cardinality(Trying(e)) \in Nat /\ Cardinality(Trying(e)') \in Nat
         /\ Cardinality(Slots) \in Nat /\ Cardinality(Trying(e)') <= Cardinality(Slots)
         /\ Cardinality(Trying(e)') <= Cardinality(Trying(e)) + 1
         /\ s \notin Trying(e)' => Cardinality(Trying(e)') <= Cardinality(Trying(e))
         /\ s \in Trying(e) => Cardinality(Trying(e)') <= Cardinality(Trying(e))
         /\ s \in Trying(e) /\ s \notin Trying(e)' =>
              Cardinality(Trying(e)') = Cardinality(Trying(e)) - 1
<1> DEFINE before == Trying(e)
           after == Trying(e)'
<1>1. \A q \in Slots : q # s => req'[q] = req[q]
  BY DEF AccountsInv, TypeOK
<1>2. /\ before \in SUBSET Slots /\ after \in SUBSET Slots
      /\ \A q \in Slots : q # s => (q \in before <=> q \in after)
  BY <1>1 DEF Trying
<1> HIDE DEF before, after
<1>3. /\ Cardinality(before) \in Nat /\ Cardinality(after) \in Nat
      /\ Cardinality(Slots) \in Nat /\ Cardinality(after) <= Cardinality(Slots)
      /\ (s \in before <=> s \in after) => Cardinality(after) = Cardinality(before)
      /\ s \in before /\ s \notin after => Cardinality(after) = Cardinality(before) - 1
      /\ s \notin before /\ s \in after => Cardinality(after) = Cardinality(before) + 1
  BY <1>2, CountMoves
<1>. QED BY <1>3 DEF before, after

LEMMA AttemptsStep ==
  ASSUME AccountsInv, AttemptsInv, NEW s \in Slots, Handle(s)
  PROVE  AttemptsInv'
<1>1. /\ fails \in [Emails -> Nat] /\ fails' \in [Emails -> Nat] /\ faults \in Nat
      /\ req' = [req EXCEPT ![s] = req'[s]] /\ req \in [Slots -> Request]
      /\ Sound(req[s]) /\ MaxAttempts \in Nat
  BY HandleServes, LockoutAssumption DEF AccountsInv, TypeOK, Served, RequestsSound
<1>2. faults' \in {faults, faults + 1}
  BY TenantMoves
<1> SUFFICES ASSUME NEW e \in Emails
             PROVE  fails'[e] + Cardinality(Trying(e)')
                      < MaxAttempts + Cardinality(Slots) + faults'
  BY DEF AttemptsInv
<1>3. fails[e] + Cardinality(Trying(e)) < MaxAttempts + Cardinality(Slots) + faults
  BY DEF AttemptsInv
<1> DEFINE before == Cardinality(Trying(e))
           after == Cardinality(Trying(e)')
           all == Cardinality(Slots)
<1>4. /\ before \in Nat /\ after \in Nat /\ all \in Nat /\ after <= all
      /\ after <= before + 1
      /\ s \notin Trying(e)' => after <= before
      /\ s \in Trying(e) => after <= before
      /\ s \in Trying(e) /\ s \notin Trying(e)' => after = before - 1
  BY <1>1, TryingFacts
<1> HIDE DEF before, after, all
<1>5. ASSUME fails'[e] <= fails[e], after <= before
      PROVE  fails'[e] + after < MaxAttempts + all + faults'
  BY <1>1, <1>2, <1>3, <1>4, <1>5 DEF before, all
<1>6. CASE LoginStart(s)
  <2>1. fails' = fails
    BY <1>6 DEF LoginStart, counter
  <2>2. PICK m \in Emails :
          /\ (~LockedOut(m) /\ Ok) \/ Fault
          /\ req' = [req EXCEPT ![s] =
                       [Idle EXCEPT !.op = "login", !.pc = "find", !.email = m]]
    BY <1>6 DEF LoginStart
  <2>3. req'[s].email = m
    BY <1>1, <2>2 DEF Idle
  <2>4. CASE m # e
    <3>1. s \notin Trying(e)'
      BY <2>3, <2>4 DEF Trying
    <3>. QED BY <1>1, <1>4, <1>5, <2>1, <3>1 DEF after, all
  <2>5. CASE m = e /\ Fault
    <3>1. faults' = faults + 1
      BY <2>5 DEF Fault
    <3>. QED BY <1>1, <1>3, <1>4, <2>1, <3>1 DEF before, after, all
  <2>6. CASE m = e /\ ~LockedOut(m) /\ Ok
    <3>1. fails[e] < MaxAttempts /\ faults' = faults
      BY <1>1, <2>6 DEF LockedOut, Ok
    <3>. QED BY <1>1, <1>4, <2>1, <3>1 DEF after, all
  <2>. QED BY <2>2, <2>4, <2>5, <2>6
<1>7. CASE Find(s)
  <2>1. /\ fails' = fails /\ req[s].pc = "find"
        /\ \/ Goto(s, "miss")
           \/ req' = [req EXCEPT ![s].pc = "clear", ![s].row = users[req[s].email]]
    BY <1>7 DEF Find, At, counter
  <2>2. req'[s].email = req[s].email
    BY <1>1, <2>1, GotoFacts DEF AccountsInv, Request
  <2>3. s \in Trying(e)' => s \in Trying(e)
    BY <2>1, <2>2 DEF Trying
  <2>. QED BY <1>1, <1>4, <1>5, <2>1, <2>3 DEF after, all
<1>8. CASE Miss(s)
  <2>1. /\ req[s].pc = "miss" /\ (Goto(s, "expire") \/ Finish(s))
        /\ fails' = fails \/ fails' = [fails EXCEPT ![req[s].email] = @ + 1]
    BY <1>8 DEF Miss, At
  <2>2. req'[s].pc \in {"expire", "idle"}
    BY <2>1, GotoFacts, FinishFacts DEF AccountsInv, Idle
  <2>3. s \notin Trying(e)'
    BY <2>2 DEF Trying
  <2>4. CASE req[s].email = e
    <3>1. s \in Trying(e)
      BY <2>1, <2>4 DEF Trying
    <3>2. after = before - 1 /\ fails'[e] \in {fails[e], fails[e] + 1}
      BY <1>1, <1>4, <2>1, <2>3, <3>1
    <3>. QED BY <1>1, <1>2, <1>3, <1>4, <3>2 DEF before, after, all
  <2>5. CASE req[s].email # e
    <3>1. fails'[e] = fails[e]
      BY <1>1, <2>1, <2>5
    <3>. QED BY <1>1, <1>4, <1>5, <2>3, <3>1 DEF after, all
  <2>. QED BY <2>4, <2>5
<1>9. CASE Expire(s)
  <2>1. fails' = fails /\ Finish(s)
    BY <1>9 DEF Expire
  <2>2. s \notin Trying(e)'
    BY <2>1, FinishFacts DEF AccountsInv, Trying, Idle
  <2>. QED BY <1>1, <1>4, <1>5, <2>1, <2>2 DEF after, all
<1>10. CASE Clear(s)
  <2>1. Goto(s, "issue") /\ req[s].pc = "clear"
        /\ (fails' = [fails EXCEPT ![req[s].email] = 0] \/ fails' = fails)
    BY <1>10 DEF Clear, Cleared, At, counter
  <2>2. s \notin Trying(e)'
    BY <2>1, GotoFacts DEF AccountsInv, Trying
  <2>3. fails'[e] <= fails[e]
    BY <1>1, <2>1
  <2>. QED BY <1>4, <1>5, <2>2, <2>3 DEF after, all
<1>11. CASE fails' = fails /\ req'[s].pc \notin {"find", "miss"}
  <2>1. s \notin Trying(e)'
    BY <1>11 DEF Trying
  <2>. QED BY <1>1, <1>4, <1>5, <1>11, <2>1 DEF after, all
<1>. QED BY <1>6, <1>7, <1>8, <1>9, <1>10, <1>11, CounterMoves DEF after, all

LEMMA LockoutStep ==
  ASSUME AccountsInv, LockoutEnds, NEW s \in Slots, Handle(s)
  PROVE  LockoutEnds'
<1>1. /\ fails \in [Emails -> Nat] /\ ttl \in [Emails -> Nat] /\ faults \in Nat
      /\ now \in Nat /\ req' = [req EXCEPT ![s] = req'[s]] /\ req \in [Slots -> Request]
      /\ Window \in Nat \ {0}
  BY HandleServes, LockoutAssumption DEF AccountsInv, TypeOK, Served
<1>2. /\ faults' \in {faults, faults + 1} /\ (faults' = faults => ~Die(s))
      /\ TypeOK
  BY TenantMoves DEF AccountsInv
<1> SUFFICES ASSUME NEW e \in Emails, fails'[e] # 0, ttl'[e] = 0, faults' = 0
             PROVE  \E q \in Slots : req'[q].pc = "expire" /\ req'[q].email = e
  BY DEF LockoutEnds, At
<1>3. faults = 0 /\ ~Die(s) /\ ~Fault
  BY <1>1, <1>2 DEF Fault
<1>4. fails[e] # 0 /\ ttl[e] = 0 =>
        \E q \in Slots : req[q].pc = "expire" /\ req[q].email = e
  BY <1>3 DEF LockoutEnds, At
<1>5. \A q \in Slots : q # s => req'[q] = req[q]
  BY <1>1
<1>6. ASSUME fails[e] # 0, ttl[e] = 0, req[s].pc # "expire" \/ req[s].email # e
      PROVE  \E q \in Slots : req'[q].pc = "expire" /\ req'[q].email = e
  BY <1>4, <1>5, <1>6
<1>7. CASE Miss(s)
  <2>1. /\ req[s].pc = "miss" /\ ttl' = ttl
        /\ fails' = [fails EXCEPT ![req[s].email] = @ + 1]
        /\ IF FirstFailure(req[s].email) THEN Goto(s, "expire") ELSE Finish(s)
    BY <1>3, <1>7 DEF Miss, At
  <2>2. CASE fails[e] # 0
    BY <1>6, <2>1, <2>2
  <2>3. CASE fails[e] = 0
    <3>1. req[s].email = e
      BY <1>1, <2>1, <2>3
    <3>2. Goto(s, "expire")
      BY <2>1, <2>3, <3>1 DEF FirstFailure
    <3>3. req'[s].pc = "expire" /\ req'[s].email = e
      BY <1>1, <1>2, <3>1, <3>2, GotoFacts
    <3>. QED BY <3>3
  <2>. QED BY <2>2, <2>3
<1>8. CASE Expire(s)
  <2>1. /\ fails' = fails
        /\ ttl' = IF fails[req[s].email] = 0 THEN ttl
                  ELSE [ttl EXCEPT ![req[s].email] = now + 2 * Window]
    BY <1>3, <1>8 DEF Expire
  <2>2. req[s].email # e
    BY <1>1, <2>1
  <2>3. ttl[e] = 0
    BY <1>1, <2>1, <2>2
  <2>. QED BY <1>6, <2>1, <2>2, <2>3
<1>9. CASE Clear(s)
  <2>1. /\ req[s].pc = "clear" /\ fails' = [fails EXCEPT ![req[s].email] = 0]
        /\ ttl' = [ttl EXCEPT ![req[s].email] = 0]
    BY <1>3, <1>9 DEF Clear, Cleared, At
  <2>2. fails'[e] = fails[e] /\ ttl'[e] = ttl[e]
    BY <1>1, <2>1
  <2>. QED BY <1>6, <2>1, <2>2
<1>10. CASE LoginStart(s) \/ Find(s)
  <2>1. fails' = fails /\ ttl' = ttl /\ req[s].pc # "expire"
    BY <1>10 DEF LoginStart, Find, Arrives, At, counter
  <2>. QED BY <1>6, <2>1
<1>11. CASE fails' = fails /\ ttl' = ttl /\ (req[s].pc = "expire" => Die(s))
  BY <1>3, <1>6, <1>11
<1>. QED BY <1>7, <1>8, <1>9, <1>10, <1>11, CounterMoves

\* A lock-out (record_failed_login, is_locked_out) ends unless Redis failed or a
\* process died, and it begins no later than the requests at the same time and
\* the failures of Redis allow.
THEOREM LockoutsAreSound == Spec => []LockoutSound
<1>1. Init => AttemptsInv /\ LockoutEnds
  <2> SUFFICES ASSUME Init PROVE AttemptsInv /\ LockoutEnds
    OBVIOUS
  <2>1. /\ fails = [e \in Emails |-> Fails] /\ faults = 0
        /\ ttl = [e \in Emails |-> IF Fails = 0 THEN 0 ELSE 2 * Window]
        /\ \A s \in Slots : req[s] = Idle
    BY DEF Init
  <2>2. \A e : Trying(e) = {}
    BY <2>1 DEF Trying, Idle
  <2>3. /\ Cardinality({}) = 0 /\ Cardinality(Slots) \in Nat
        /\ Fails \in Nat /\ Fails < MaxAttempts /\ MaxAttempts \in Nat
        /\ Window \in Nat \ {0}
    BY FS_EmptySet, FS_CardinalityType, SlotsAssumption, FailsAssumption,
       LockoutAssumption
  <2>4. AttemptsInv
    BY <2>1, <2>2, <2>3 DEF AttemptsInv
  <2>5. LockoutEnds
    BY <2>1, <2>3 DEF LockoutEnds
  <2>. QED BY <2>4, <2>5
<1>2. AccountsInv /\ AttemptsInv /\ LockoutEnds /\ [Next]_vars =>
        (AttemptsInv /\ LockoutEnds)'
  <2> SUFFICES ASSUME AccountsInv, AttemptsInv, LockoutEnds, [Next]_vars
               PROVE  (AttemptsInv /\ LockoutEnds)'
    OBVIOUS
  <2>1. ASSUME NEW s \in Slots, Handle(s) PROVE (AttemptsInv /\ LockoutEnds)'
    BY <2>1, AttemptsStep, LockoutStep
  <2>2. ASSUME req' = req, faults' = faults,
               \A e \in Emails : \/ fails'[e] = 0 /\ ttl'[e] = 0
                                 \/ fails'[e] = fails[e] /\ ttl'[e] = ttl[e]
        PROVE  (AttemptsInv /\ LockoutEnds)'
    <3>1. \A e : Trying(e)' = Trying(e)
      BY <2>2 DEF Trying
    <3>2. /\ fails \in [Emails -> Nat] /\ faults \in Nat /\ MaxAttempts \in Nat
          /\ Cardinality(Slots) \in Nat
      BY FS_CardinalityType, SlotsAssumption, LockoutAssumption DEF AccountsInv, TypeOK
    <3>3. ASSUME NEW e \in Emails
          PROVE  fails'[e] + Cardinality(Trying(e)) < MaxAttempts + Cardinality(Slots) + faults
      <4>1. Cardinality(Trying(e)) \in Nat
        <5>1. Trying(e) \in SUBSET Slots
          BY DEF Trying
        <5>. QED BY <5>1, FS_Subset, FS_CardinalityType, SlotsAssumption
      <4>2. fails[e] + Cardinality(Trying(e)) < MaxAttempts + Cardinality(Slots) + faults
        BY DEF AttemptsInv
      <4>3. fails'[e] = 0 \/ fails'[e] = fails[e]
        BY <2>2
      <4>4. fails[e] \in Nat
        BY <3>2
      <4>. QED BY <3>2, <4>1, <4>2, <4>3, <4>4
    <3>4. AttemptsInv'
      BY <2>2, <3>1, <3>3 DEF AttemptsInv
    <3>5. LockoutEnds'
      BY <2>2 DEF LockoutEnds, At
    <3>. QED BY <3>4, <3>5
  <2>3. CASE Tick
    BY <2>2, <2>3, TickFacts DEF AccountsInv
  <2>4. CASE UNCHANGED vars
    BY <2>2, <2>4 DEF vars
  <2>. QED BY <2>1, <2>3, <2>4 DEF Next, Quiet
<1>3. AccountsInv /\ AttemptsInv /\ LockoutEnds => LockoutSound
  <2> SUFFICES ASSUME AccountsInv, AttemptsInv, NEW e \in Emails
               PROVE  fails[e] < MaxAttempts + Cardinality(Slots) + faults
    BY DEF LockoutSound, AttemptsBounded
  <2>1. fails[e] + Cardinality(Trying(e)) < MaxAttempts + Cardinality(Slots) + faults
    BY DEF AttemptsInv
  <2>2. Cardinality(Trying(e)) \in Nat /\ Cardinality(Slots) \in Nat
    <3>1. Trying(e) \in SUBSET Slots
      BY DEF Trying
    <3>. QED BY <3>1, FS_Subset, FS_CardinalityType, SlotsAssumption
  <2>3. fails[e] \in Nat /\ faults \in Nat /\ MaxAttempts \in Nat
    BY LockoutAssumption DEF AccountsInv, TypeOK
  <2>. QED BY <2>1, <2>2, <2>3
<1>. QED BY <1>1, <1>2, <1>3, AccountsInit, AccountsStep, PTL DEF Spec

-----------------------------------------------------------------------------
(* Tokens that were given up *)

\* What a revocation leaves behind is refused until the token's last second.
RefusedInv ==
  \A t \in DOMAIN tokens :
    tokens[t].retired => \/ tokens[t].deny + 1 >= tokens[t].exp
                         \/ now + 1 >= tokens[t].exp

\* A token in the next state is new, or as it was, or revoked, or traded in.
Fate(s, t) ==
  \/ t \notin DOMAIN tokens /\ ~tokens'[t].retired /\ tokens'[t].uses = 0
  \/ t \in DOMAIN tokens /\ tokens'[t] = tokens[t]
  \/ /\ t \in DOMAIN tokens /\ tokens'[t].exp = tokens[t].exp
     /\ tokens'[t].uses = tokens[t].uses /\ tokens'[t].retired
     /\ now + 1 < tokens[t].exp => tokens'[t].deny + 1 >= tokens[t].exp
  \/ /\ t \in DOMAIN tokens /\ tokens'[t].exp = tokens[t].exp
     /\ tokens'[t].uses = tokens[t].uses + 1 /\ tokens'[t].deny = tokens[t].deny
     /\ tokens'[t].retired <=> tokens[t].retired
     /\ Write(s) /\ req[s].op = "accept" /\ req[s].tok = t

LEMMA NewTokenFate ==
  ASSUME AccountsInv, NEW s, NEW kind \in Kinds, NEW e \in Emails,
         tokens' = Append(tokens, NewToken(kind, e)), NEW t \in DOMAIN tokens'
  PROVE  Fate(s, t)
<1> DEFINE token == NewToken(kind, e)
<1>1. token \in Token /\ ~token.retired /\ token.uses = 0 /\ tokens \in Seq(Token)
  BY NewTokenFacts DEF AccountsInv, TypeOK
<1>2. tokens' = Append(tokens, token)
  OBVIOUS
<1> HIDE DEF token
<1>3. /\ Len(tokens') = Len(tokens) + 1 /\ tokens' \in Seq(Token)
      /\ \A x \in 1 .. Len(tokens) : tokens'[x] = tokens[x]
      /\ tokens'[Len(tokens) + 1] = token
  BY <1>1, <1>2, AppendProperties
<1>4. /\ DOMAIN tokens = 1 .. Len(tokens) /\ DOMAIN tokens' = 1 .. Len(tokens')
      /\ Len(tokens) \in Nat
  BY <1>1, <1>3
<1>5. CASE t \in 1 .. Len(tokens)
  BY <1>3, <1>4, <1>5 DEF Fate
<1>6. CASE t = Len(tokens) + 1
  <2>1. t \notin DOMAIN tokens /\ tokens'[t] = token
    BY <1>3, <1>4, <1>6
  <2>. QED BY <1>1, <2>1 DEF Fate
<1>. QED BY <1>3, <1>4, <1>5, <1>6

LEMMA RevokeFate ==
  ASSUME AccountsInv, NEW s, NEW x \in DOMAIN tokens, Revoke(x), NEW t \in DOMAIN tokens'
  PROVE  Fate(s, t)
<1>1. CASE tokens' = tokens
  BY <1>1 DEF Fate
<1>2. CASE Decodes(x) /\ tokens' = Revoked(x)
  <2>1. /\ DOMAIN tokens' = DOMAIN tokens
        /\ \A y \in DOMAIN tokens :
             /\ tokens'[y].exp = tokens[y].exp /\ tokens'[y].uses = tokens[y].uses
             /\ y # x => tokens'[y] = tokens[y]
        /\ tokens'[x].retired
        /\ now + 1 < tokens[x].exp => tokens'[x].deny + 1 >= tokens[x].exp
    BY <1>2, RevokedFacts DEF AccountsInv
  <2>2. CASE t = x
    BY <2>1, <2>2 DEF Fate
  <2>3. CASE t # x
    BY <2>1, <2>3 DEF Fate
  <2>. QED BY <2>2, <2>3
<1>. QED BY <1>1, <1>2 DEF Revoke

LEMMA UseFate ==
  ASSUME AccountsInv, NEW s \in Slots, Write(s), req[s].op = "accept",
         NEW t \in DOMAIN tokens'
  PROVE  Fate(s, t)
<1> DEFINE x == req[s].tok
           token == [tokens[x] EXCEPT !.uses = @ + 1]
<1>1. x \in DOMAIN tokens /\ tokens \in Seq(Token) /\ tokens[x] \in Token
  BY DEF AccountsInv, RequestsSound, Sound, TypeOK
<1>2. tokens' = [tokens EXCEPT ![x] = token]
  BY DEF Write
<1>3. /\ token.exp = tokens[x].exp /\ token.uses = tokens[x].uses + 1
      /\ token.deny = tokens[x].deny /\ (token.retired <=> tokens[x].retired)
  BY <1>1 DEF Token
<1> HIDE DEF token
<1>4. DOMAIN tokens' = DOMAIN tokens /\ tokens'[x] = token
      /\ \A y \in DOMAIN tokens : y # x => tokens'[y] = tokens[y]
  BY <1>1, <1>2
<1>5. CASE t = x
  BY <1>1, <1>3, <1>4, <1>5 DEF Fate
<1>6. CASE t # x
  BY <1>4, <1>6 DEF Fate
<1>. QED BY <1>5, <1>6

LEMMA TokenFates ==
  ASSUME AccountsInv, NEW s \in Slots, Handle(s)
  PROVE  now' = now /\ \A t \in DOMAIN tokens' : Fate(s, t)
<1>1. /\ now' = now
      /\ \/ tokens' = tokens
         \/ Issue(s) \/ Spend(s) \/ Logout(s) \/ RequestReset(s) \/ Insert(s)
         \/ Write(s) /\ req[s].op = "accept"
  <2>1. ASSUME LoginStart(s) \/ Find(s) \/ Miss(s) \/ Expire(s) \/ Clear(s) \/ Die(s)
        PROVE  now' = now /\ tokens' = tokens
    BY <2>1 DEF LoginStart, Find, Miss, Expire, Clear, Die
  <2>2. ASSUME VerifyStart(s) \/ Code(s) \/ OwnStart(s) \/ InviteStart(s) \/ Read(s)
        PROVE  now' = now /\ tokens' = tokens
    BY <2>2 DEF VerifyStart, Code, OwnStart, InviteStart, Read
  <2>3. ASSUME \/ DeactivateStart(s) \/ AcceptStart(s) \/ SignupStart(s)
               \/ CreateTenant(s)
        PROVE  now' = now /\ tokens' = tokens
    BY <2>3 DEF DeactivateStart, AcceptStart, SignupStart, CreateTenant
  <2>4. ASSUME Issue(s) \/ Spend(s) \/ Logout(s) \/ RequestReset(s) \/ Insert(s)
        PROVE  now' = now
    BY <2>4 DEF Issue, Spend, Logout, RequestReset, Insert
  <2>5. ASSUME Write(s)
        PROVE  now' = now /\ (tokens' = tokens \/ req[s].op = "accept")
    BY <2>5 DEF Write
  <2>. QED BY <2>1, <2>2, <2>3, <2>4, <2>5 DEF Handle
<1>2. ASSUME tokens' = tokens, NEW t \in DOMAIN tokens' PROVE Fate(s, t)
  BY <1>2 DEF Fate
<1>3. ASSUME Issue(s), NEW t \in DOMAIN tokens' PROVE Fate(s, t)
  <2>1. req[s].email \in Emails
    BY <1>3 DEF AccountsInv, RequestsSound, Sound, Issue, At
  <2>2. \E kind \in {"mfa", "session"} :
          tokens' = Append(tokens, NewToken(kind, req[s].email))
    BY <1>3 DEF Issue
  <2>. QED BY <2>1, <2>2, NewTokenFate DEF Kinds
<1>4. ASSUME Spend(s), NEW t \in DOMAIN tokens' PROVE Fate(s, t)
  <2>1. Revoke(req[s].tok) /\ req[s].op \in {"verify", "accept"}
    BY <1>4 DEF Spend
  <2>2. req[s].tok \in DOMAIN tokens
    BY <2>1 DEF AccountsInv, RequestsSound, Sound
  <2>. QED BY <2>1, <2>2, RevokeFate
<1>5. ASSUME Logout(s), NEW t \in DOMAIN tokens' PROVE Fate(s, t)
  <2>1. PICK x \in DOMAIN tokens : Revoke(x)
    BY <1>5 DEF Logout
  <2>. QED BY <2>1, RevokeFate
<1>6. ASSUME RequestReset(s), NEW t \in DOMAIN tokens' PROVE Fate(s, t)
  <2>1. PICK e \in Emails : tokens' = Append(tokens, NewToken("link", e))
    BY <1>6 DEF RequestReset
  <2>. QED BY <2>1, NewTokenFate DEF Kinds
<1>7. ASSUME Insert(s), NEW t \in DOMAIN tokens' PROVE Fate(s, t)
  <2>1. req[s].email \in Emails
    BY <1>7 DEF AccountsInv, RequestsSound, Sound, Insert, At
  <2>2. tokens' = tokens \/ tokens' = Append(tokens, NewToken("link", req[s].email))
    BY <1>7 DEF Insert
  <2>. QED BY <1>2, <2>1, <2>2, NewTokenFate DEF Kinds
<1>8. ASSUME Write(s), req[s].op = "accept", NEW t \in DOMAIN tokens' PROVE Fate(s, t)
  BY <1>8, UseFate
<1>. QED BY <1>1, <1>2, <1>3, <1>4, <1>5, <1>6, <1>7, <1>8

LEMMA RefusedStep ==
  ASSUME AccountsInv, RefusedInv, NEW s \in Slots, Handle(s)
  PROVE  RefusedInv'
<1> SUFFICES ASSUME NEW t \in DOMAIN tokens', tokens'[t].retired
             PROVE  \/ tokens'[t].deny + 1 >= tokens'[t].exp
                    \/ now' + 1 >= tokens'[t].exp
  BY DEF RefusedInv
<1>1. Fate(s, t) /\ now' = now
  BY TokenFates
<1>2. t \in DOMAIN tokens /\ tokens[t].retired =>
        tokens[t].deny + 1 >= tokens[t].exp \/ now + 1 >= tokens[t].exp
  BY DEF RefusedInv
<1>3. ASSUME t \in DOMAIN tokens PROVE now \in Nat /\ tokens[t].exp \in Nat
  <2>1. tokens[t] \in Token /\ now \in Nat
    BY <1>3 DEF AccountsInv, TypeOK
  <2>. QED BY <2>1 DEF Token
<1>4. CASE t \in DOMAIN tokens /\ tokens'[t] = tokens[t]
  BY <1>1, <1>2, <1>4
<1>5. CASE /\ t \in DOMAIN tokens /\ tokens'[t].exp = tokens[t].exp
           /\ now + 1 < tokens[t].exp => tokens'[t].deny + 1 >= tokens[t].exp
  BY <1>1, <1>3, <1>5
<1>6. CASE /\ t \in DOMAIN tokens /\ tokens'[t].exp = tokens[t].exp
           /\ tokens'[t].deny = tokens[t].deny /\ tokens[t].retired
  BY <1>1, <1>2, <1>6
<1>. QED BY <1>1, <1>4, <1>5, <1>6 DEF Fate

-----------------------------------------------------------------------------
(* Password links *)

Uses(s, t, at) == req[s].op = "accept" /\ req[s].tok = t /\ req[s].pc \in at

\* The requests that hold a link they may still use, and those that have used
\* it and are about to revoke it
InFlight(t) == {s \in Slots : Uses(s, t, {"read", "write"})}
Revoking(t) == {s \in Slots : Uses(s, t, {"revoke"})}

\* Until it is revoked a link has been used only by requests that are about to
\* revoke it; and uses, past and to come, are never more than the slots.
LinkInv ==
  \A t \in DOMAIN tokens :
    faults = 0 /\ now + 1 < tokens[t].exp =>
      /\ ~tokens[t].retired => tokens[t].uses <= Cardinality(Revoking(t))
      /\ tokens[t].uses + Cardinality(InFlight(t)) <= Cardinality(Slots)

\* Only four actions begin, carry on or end the use of a link.
LEMMA LinkMoves ==
  ASSUME AccountsInv, NEW s \in Slots, Handle(s)
  PROVE  \/ AcceptStart(s) \/ Read(s) \/ Write(s) \/ Spend(s) \/ Die(s)
         \/ \A t : /\ ~Uses(s, t, {"read", "write"}) /\ ~Uses(s, t, {"revoke"})
                   /\ ~Uses(s, t, {"read", "write"})' /\ ~Uses(s, t, {"revoke"})'
<1> DEFINE Elsewhere == /\ \/ req[s].pc \notin {"read", "write", "revoke"}
                           \/ req[s].op # "accept"
                        /\ \/ req'[s].pc \notin {"read", "write", "revoke"}
                           \/ req'[s].op # "accept"
<1>1. /\ req \in [Slots -> Request] /\ TypeOK
      /\ Idle.pc = "idle" /\ Idle.op = "none"
  BY DEF AccountsInv, TypeOK, Idle
<1>2. ASSUME \/ LoginStart(s) \/ VerifyStart(s) \/ OwnStart(s) \/ InviteStart(s)
             \/ DeactivateStart(s) \/ SignupStart(s) \/ Logout(s) \/ RequestReset(s)
      PROVE  Elsewhere
  <2>1. req[s].pc = "idle"
    BY <1>2 DEF LoginStart, VerifyStart, OwnStart, InviteStart, DeactivateStart,
                SignupStart, Logout, RequestReset, Arrives, At
  <2>2. ASSUME LoginStart(s) PROVE req'[s].op # "accept"
    BY <1>1, <2>2 DEF LoginStart, Idle
  <2>3. ASSUME VerifyStart(s) PROVE req'[s].op # "accept"
    BY <1>1, <2>3 DEF VerifyStart, Idle
  <2>4. ASSUME OwnStart(s) PROVE req'[s].op # "accept"
    BY <1>1, <2>4 DEF OwnStart, Idle
  <2>5. ASSUME InviteStart(s) PROVE req'[s].op # "accept"
    BY <1>1, <2>5 DEF InviteStart, Idle
  <2>6. ASSUME DeactivateStart(s) PROVE req'[s].op # "accept"
    BY <1>1, <2>6 DEF DeactivateStart, Idle
  <2>7. ASSUME SignupStart(s) PROVE req'[s].op # "accept"
    BY <1>1, <2>7 DEF SignupStart, Idle
  <2>8. ASSUME Logout(s) \/ RequestReset(s) PROVE req'[s].pc = "idle"
    BY <2>1, <2>8 DEF Logout, RequestReset
  <2>. QED BY <1>2, <2>1, <2>2, <2>3, <2>4, <2>5, <2>6, <2>7, <2>8
<1>3. ASSUME Find(s) \/ Miss(s) \/ Expire(s) \/ Clear(s) \/ Issue(s) \/ Insert(s)
      PROVE  Elsewhere
  <2>1. req[s].pc \in {"find", "miss", "expire", "clear", "issue", "insert"}
    BY <1>3 DEF Find, Miss, Expire, Clear, Issue, Insert, At
  <2>2. \/ Finish(s) \/ Goto(s, "miss") \/ Goto(s, "expire") \/ Goto(s, "issue")
        \/ req' = [req EXCEPT ![s].pc = "clear", ![s].row = users[req[s].email]]
    BY <1>3 DEF Find, Miss, Expire, Clear, Issue, Insert
  <2>3. ASSUME Goto(s, "miss") \/ Goto(s, "expire") \/ Goto(s, "issue")
        PROVE  req'[s].pc \in {"miss", "expire", "issue"}
    BY <1>1, <2>3, GotoFacts
  <2>4. ASSUME req' = [req EXCEPT ![s].pc = "clear", ![s].row = users[req[s].email]]
        PROVE  req'[s].pc = "clear"
    BY <1>1, <2>4 DEF Request
  <2>. QED BY <1>1, <2>1, <2>2, <2>3, <2>4, FinishFacts
<1>4. ASSUME Code(s) PROVE Elsewhere
  <2>1. req[s].pc = "code" /\ (Finish(s) \/ Goto(s, "revoke"))
    BY <1>4 DEF Code, At
  <2>2. req[s].op = "verify"
    BY <2>1 DEF AccountsInv, RequestsSound, Sound
  <2>. QED BY <1>1, <2>1, <2>2, FinishFacts, GotoFacts
<1>5. ASSUME CreateTenant(s) PROVE Elsewhere
  <2>1. /\ req[s].pc = "tenant"
        /\ req' = [req EXCEPT ![s].pc = "insert", ![s].tenant = Len(tenants) + 1]
    BY <1>5 DEF CreateTenant, At
  <2>. QED BY <1>1, <2>1 DEF Request
<1>6. Elsewhere =>
        \A t : /\ ~Uses(s, t, {"read", "write"}) /\ ~Uses(s, t, {"revoke"})
               /\ ~Uses(s, t, {"read", "write"})' /\ ~Uses(s, t, {"revoke"})'
  BY DEF Uses
<1> HIDE DEF Elsewhere
<1>. QED BY <1>2, <1>3, <1>4, <1>5, <1>6 DEF Handle

LEMMA LinkStep ==
  ASSUME AccountsInv, RefusedInv, LinkInv, NEW s \in Slots, Handle(s)
  PROVE  LinkInv'
<1> SUFFICES ASSUME NEW t \in DOMAIN tokens', faults' = 0, now' + 1 < tokens'[t].exp
             PROVE  /\ ~tokens'[t].retired => tokens'[t].uses <= Cardinality(Revoking(t)')
                    /\ tokens'[t].uses + Cardinality(InFlight(t)') <= Cardinality(Slots)
  BY DEF LinkInv
<1> DEFINE flying == InFlight(t)
           flying1 == InFlight(t)'
           closing == Revoking(t)
           closing1 == Revoking(t)'
<1>1. Fate(s, t) /\ now' = now
  BY TokenFates
<1>2. /\ req' = [req EXCEPT ![s] = req'[s]] /\ req \in [Slots -> Request] /\ TypeOK
      /\ Idle.pc = "idle" /\ Idle.op = "none" /\ now \in Nat
  BY HandleServes DEF AccountsInv, TypeOK, Served, Idle
<1>3. faults = 0 /\ ~Die(s) /\ ~Fault
  <2>1. faults \in Nat /\ faults' \in {faults, faults + 1} /\ (faults' = faults => ~Die(s))
    BY TenantMoves DEF AccountsInv, TypeOK
  <2>. QED BY <2>1 DEF Fault
<1>4. \A q \in Slots : q # s => req'[q] = req[q]
  BY <1>2
<1>5. /\ flying \in SUBSET Slots /\ flying1 \in SUBSET Slots
      /\ closing \in SUBSET Slots /\ closing1 \in SUBSET Slots
      /\ \A q \in Slots : q # s => /\ q \in flying <=> q \in flying1
                                   /\ q \in closing <=> q \in closing1
      /\ s \in flying <=> Uses(s, t, {"read", "write"})
      /\ s \in flying1 <=> Uses(s, t, {"read", "write"})'
      /\ s \in closing <=> Uses(s, t, {"revoke"})
      /\ s \in closing1 <=> Uses(s, t, {"revoke"})'
  BY <1>4 DEF InFlight, Revoking, Uses
<1>6. flying \cap closing = {} /\ flying1 \cap closing1 = {}
  BY DEF InFlight, Revoking, Uses
<1>7. ASSUME t \in DOMAIN tokens, tokens'[t].exp = tokens[t].exp
      PROVE  /\ ~tokens[t].retired => tokens[t].uses <= Cardinality(closing)
             /\ tokens[t].uses + Cardinality(flying) <= Cardinality(Slots)
             /\ tokens[t].uses \in Nat /\ tokens[t].exp \in Nat /\ tokens[t].deny \in Nat
             /\ now + 1 < tokens[t].exp
  <2>1. tokens[t] \in Token
    BY <1>7 DEF AccountsInv, TypeOK
  <2>. QED BY <1>1, <1>3, <1>7, <2>1 DEF LinkInv, Token
<1> SUFFICES /\ ~tokens'[t].retired => tokens'[t].uses <= Cardinality(closing1)
             /\ tokens'[t].uses + Cardinality(flying1) <= Cardinality(Slots)
  OBVIOUS
<1> HIDE DEF flying, flying1, closing, closing1
<1>8. /\ Cardinality(flying) \in Nat /\ Cardinality(flying1) \in Nat
      /\ Cardinality(Slots) \in Nat /\ Cardinality(flying1) <= Cardinality(Slots)
      /\ (s \in flying <=> s \in flying1) => Cardinality(flying1) = Cardinality(flying)
      /\ s \in flying /\ s \notin flying1 => Cardinality(flying1) = Cardinality(flying) - 1
      /\ s \notin flying /\ s \in flying1 => Cardinality(flying1) = Cardinality(flying) + 1
  BY <1>5, CountMoves
<1>9. /\ Cardinality(closing) \in Nat /\ Cardinality(closing1) \in Nat
      /\ (s \in closing <=> s \in closing1) => Cardinality(closing1) = Cardinality(closing)
      /\ s \notin closing /\ s \in closing1 =>
           Cardinality(closing1) = Cardinality(closing) + 1
  BY <1>5, CountMoves
<1>10. Cardinality(flying1) + Cardinality(closing1) <= Cardinality(Slots)
  <2>1. IsFiniteSet(flying1) /\ IsFiniteSet(closing1)
    BY <1>5, SlotsAssumption, FS_Subset
  <2>2. Cardinality(flying1 \cup closing1) =
          Cardinality(flying1) + Cardinality(closing1) - Cardinality(flying1 \cap closing1)
    BY <2>1, FS_Union
  <2>3. Cardinality(flying1 \cup closing1) <= Cardinality(Slots)
    <3>1. flying1 \cup closing1 \in SUBSET Slots
      BY <1>5
    <3>. QED BY <3>1, SlotsAssumption, FS_Subset
  <2>4. Cardinality(flying1 \cap closing1) = 0
    BY <1>6, FS_EmptySet
  <2>. QED BY <1>8, <1>9, <2>2, <2>3, <2>4
<1>11. CASE t \notin DOMAIN tokens
  BY <1>1, <1>8, <1>9, <1>11 DEF Fate
<1>12. ASSUME s \in flying <=> s \in flying1, s \in closing <=> s \in closing1,
              t \in DOMAIN tokens, tokens'[t] = tokens[t]
       PROVE  /\ ~tokens'[t].retired => tokens'[t].uses <= Cardinality(closing1)
              /\ tokens'[t].uses + Cardinality(flying1) <= Cardinality(Slots)
  BY <1>7, <1>8, <1>9, <1>12
<1>13. ASSUME s \in flying <=> s \in flying1, t \in DOMAIN tokens, tokens'[t].retired,
              tokens'[t].exp = tokens[t].exp, tokens'[t].uses = tokens[t].uses
       PROVE  /\ ~tokens'[t].retired => tokens'[t].uses <= Cardinality(closing1)
              /\ tokens'[t].uses + Cardinality(flying1) <= Cardinality(Slots)
  BY <1>7, <1>8, <1>13
<1>14. CASE AcceptStart(s) /\ t \in DOMAIN tokens
  <2>1. PICK x \in DOMAIN tokens :
          /\ NotRevoked(x)
          /\ req' = [req EXCEPT ![s] = [Idle EXCEPT !.op = "accept", !.pc = "read",
                                          !.email = tokens[x].user, !.tok = x]]
    BY <1>14 DEF AcceptStart
  <2>2. req[s].pc = "idle" /\ tokens' = tokens
    BY <1>14 DEF AcceptStart, Arrives, At
  <2>3. req'[s].op = "accept" /\ req'[s].pc = "read" /\ req'[s].tok = x
    BY <1>2, <2>1 DEF Idle
  <2>4. s \notin flying /\ s \notin closing /\ s \notin closing1
        /\ (s \in flying1 <=> x = t)
    BY <1>5, <2>2, <2>3 DEF Uses
  <2>5. CASE x # t
    BY <1>12, <1>14, <2>2, <2>4, <2>5
  <2>6. CASE x = t
    <3>1. ~(now < tokens[t].deny)
      BY <1>3, <2>1, <2>6 DEF NotRevoked, Denied
    <3>2. ~tokens[t].retired
      BY <1>2, <1>7, <1>14, <2>2, <3>1 DEF RefusedInv
    <3>. QED BY <1>7, <1>8, <1>9, <1>10, <1>14, <2>2, <2>4, <2>6, <3>2
  <2>. QED BY <2>5, <2>6
<1>15. CASE Read(s) /\ t \in DOMAIN tokens
  <2>1. /\ req[s].pc = "read" /\ tokens' = tokens
        /\ \/ req' = [req EXCEPT ![s].pc = "write", ![s].row = users[req[s].email]]
           \/ req[s].op # "accept" /\ Finish(s)
    BY <1>15 DEF Read, At
  <2>2. \/ req'[s].pc = "write" /\ req'[s].op = req[s].op /\ req'[s].tok = req[s].tok
        \/ req[s].op # "accept" /\ req'[s] = Idle
    BY <1>2, <2>1, FinishFacts DEF Request
  <2>3. (s \in flying <=> s \in flying1) /\ s \notin closing /\ s \notin closing1
    BY <1>2, <1>5, <2>1, <2>2 DEF Uses
  <2>. QED BY <1>12, <1>15, <2>1, <2>3
<1>16. CASE Write(s) /\ t \in DOMAIN tokens
  <2>1. /\ req[s].pc = "write"
        /\ IF req[s].op = "accept"
           THEN /\ tokens' = [tokens EXCEPT ![req[s].tok].uses = @ + 1]
                /\ Goto(s, "revoke")
           ELSE tokens' = tokens /\ Finish(s)
    BY <1>16 DEF Write, At
  <2>2. CASE req[s].op # "accept"
    <3>1. tokens' = tokens /\ req'[s] = Idle
      BY <1>2, <2>1, <2>2, FinishFacts
    <3>2. s \notin flying /\ s \notin flying1 /\ s \notin closing /\ s \notin closing1
      BY <1>2, <1>5, <2>2, <3>1 DEF Uses
    <3>. QED BY <1>12, <1>16, <3>1, <3>2
  <2>3. CASE req[s].op = "accept"
    <3>1. /\ tokens' = [tokens EXCEPT ![req[s].tok].uses = @ + 1]
          /\ req'[s].pc = "revoke" /\ req'[s].op = "accept" /\ req'[s].tok = req[s].tok
      BY <1>2, <2>1, <2>3, GotoFacts
    <3>2. /\ s \in flying <=> req[s].tok = t
          /\ s \in closing1 <=> req[s].tok = t
          /\ s \notin flying1 /\ s \notin closing
      BY <1>5, <2>1, <2>3, <3>1 DEF Uses
    <3>3. CASE req[s].tok # t
      <4>1. tokens'[t] = tokens[t]
        BY <1>16, <3>1, <3>3
      <4>. QED BY <1>12, <1>16, <3>2, <3>3, <4>1
    <3>4. CASE req[s].tok = t
      <4>1. tokens[t] \in Token
        BY <1>2, <1>16 DEF TypeOK
      <4>2. /\ tokens'[t].uses = tokens[t].uses + 1 /\ tokens'[t].exp = tokens[t].exp
            /\ tokens'[t].retired <=> tokens[t].retired
        BY <1>16, <3>1, <3>4, <4>1 DEF Token
      <4>. QED BY <1>7, <1>8, <1>9, <1>16, <3>2, <3>4, <4>2
    <3>. QED BY <3>3, <3>4
  <2>. QED BY <2>2, <2>3
<1>17. CASE Spend(s) /\ t \in DOMAIN tokens
  <2> DEFINE x == req[s].tok
  <2>1. /\ req[s].pc = "revoke" /\ (Goto(s, "issue") \/ Finish(s))
        /\ tokens' = IF Decodes(x) THEN Revoked(x) ELSE tokens
        /\ req[s].op \in {"verify", "accept"}
    BY <1>3, <1>17 DEF Spend, Revoke, At
  <2>2. req'[s].pc \in {"idle", "issue"}
    BY <1>2, <2>1, FinishFacts, GotoFacts
  <2>3. s \notin flying /\ s \notin flying1 /\ s \notin closing1
        /\ (s \in closing => x = t)
    BY <1>5, <2>1, <2>2 DEF Uses
  <2>4. x \in DOMAIN tokens
    BY <2>1 DEF AccountsInv, RequestsSound, Sound
  <2> HIDE DEF x
  <2>5. CASE Decodes(x)
    <3>1. /\ \A y \in DOMAIN tokens :
               /\ tokens'[y].exp = tokens[y].exp /\ tokens'[y].uses = tokens[y].uses
               /\ y # x => tokens'[y] = tokens[y]
          /\ tokens'[x].retired
      BY <1>2, <2>1, <2>4, <2>5, RevokedFacts
    <3>. QED BY <1>12, <1>13, <1>17, <2>3, <3>1
  <2>6. CASE ~Decodes(x)
    <3>1. tokens' = tokens
      BY <2>1, <2>6
    <3>2. x # t
      BY <1>2, <1>7, <1>17, <2>6, <3>1 DEF Decodes
    <3>. QED BY <1>12, <1>17, <2>3, <3>1, <3>2
  <2>. QED BY <2>5, <2>6
<1>18. ASSUME ~Uses(s, t, {"read", "write"}), ~Uses(s, t, {"revoke"}),
              ~Uses(s, t, {"read", "write"})', ~Uses(s, t, {"revoke"})',
              t \in DOMAIN tokens
       PROVE  /\ ~tokens'[t].retired => tokens'[t].uses <= Cardinality(closing1)
              /\ tokens'[t].uses + Cardinality(flying1) <= Cardinality(Slots)
  <2>1. s \notin flying /\ s \notin flying1 /\ s \notin closing /\ s \notin closing1
    BY <1>5, <1>18
  <2>2. ~(Write(s) /\ req[s].op = "accept" /\ req[s].tok = t)
    BY <1>18 DEF Uses, Write, At
  <2>. QED BY <1>1, <1>12, <1>13, <1>18, <2>1, <2>2 DEF Fate
<1>. QED BY <1>3, <1>11, <1>14, <1>15, <1>16, <1>17, <1>18, LinkMoves

\* What was given up (revoke_jti) stays refused but for its last second, and a
\* password link (confirm_password_reset) is used no more often than there are
\* slots.
THEOREM TokensAreSound == Spec => []TokensSound
<1>1. Init => RefusedInv /\ LinkInv
  <2> SUFFICES ASSUME Init PROVE RefusedInv /\ LinkInv
    OBVIOUS
  <2>1. \A t \in DOMAIN tokens : ~tokens[t].retired /\ tokens[t].uses = 0
    BY TokensAssumption DEF Init
  <2>2. ASSUME NEW t
        PROVE  /\ Cardinality(Revoking(t)) \in Nat
               /\ Cardinality(InFlight(t)) \in Nat /\ Cardinality(Slots) \in Nat
               /\ Cardinality(InFlight(t)) <= Cardinality(Slots)
    <3>1. Revoking(t) \in SUBSET Slots /\ InFlight(t) \in SUBSET Slots
      BY DEF Revoking, InFlight
    <3>. QED BY <3>1, SlotsAssumption, FS_Subset, FS_CardinalityType
  <2>. QED BY <2>1, <2>2 DEF RefusedInv, LinkInv
<1>2. AccountsInv /\ RefusedInv /\ LinkInv /\ [Next]_vars => (RefusedInv /\ LinkInv)'
  <2> SUFFICES ASSUME AccountsInv, RefusedInv, LinkInv, [Next]_vars
               PROVE  (RefusedInv /\ LinkInv)'
    OBVIOUS
  <2>1. ASSUME NEW s \in Slots, Handle(s) PROVE (RefusedInv /\ LinkInv)'
    BY <2>1, RefusedStep, LinkStep
  <2>2. ASSUME tokens' = tokens, req' = req, faults' = faults, now' \in {now, now + 1}
        PROVE  (RefusedInv /\ LinkInv)'
    <3>1. \A t : Revoking(t)' = Revoking(t) /\ InFlight(t)' = InFlight(t)
      BY <2>2 DEF Revoking, InFlight, Uses
    <3>2. ASSUME NEW t \in DOMAIN tokens PROVE now \in Nat /\ tokens[t].exp \in Nat
      <4>1. tokens[t] \in Token /\ now \in Nat
        BY DEF AccountsInv, TypeOK
      <4>. QED BY <4>1 DEF Token
    <3>3. \A t \in DOMAIN tokens : now' + 1 < tokens[t].exp => now + 1 < tokens[t].exp
      BY <2>2, <3>2
    <3>4. \A t \in DOMAIN tokens : now + 1 >= tokens[t].exp => now' + 1 >= tokens[t].exp
      BY <2>2, <3>2
    <3>5. RefusedInv'
      BY <2>2, <3>4 DEF RefusedInv
    <3>6. LinkInv'
      BY <2>2, <3>1, <3>3 DEF LinkInv
    <3>. QED BY <3>5, <3>6
  <2>3. CASE Tick
    <3>1. tokens' = tokens /\ req' = req /\ faults' = faults /\ now' = now + 1
      BY <2>3 DEF Tick
    <3>. QED BY <2>2, <3>1
  <2>4. CASE UNCHANGED vars
    BY <2>2, <2>4 DEF vars
  <2>. QED BY <2>1, <2>3, <2>4 DEF Next, Quiet
<1>3. AccountsInv /\ RefusedInv /\ LinkInv => TokensSound
  <2> SUFFICES ASSUME AccountsInv, RefusedInv, LinkInv, NEW t \in DOMAIN tokens
               PROVE  /\ tokens[t].retired /\ now + 1 < tokens[t].exp => Denied(t)
                      /\ faults = 0 /\ now + 1 < tokens[t].exp
                           => tokens[t].uses <= Cardinality(Slots)
    BY DEF TokensSound, RevokedStaysRevoked, LinkUsesBounded
  <2>1. tokens[t] \in Token /\ now \in Nat
    BY DEF AccountsInv, TypeOK
  <2>2. tokens[t].exp \in Nat /\ tokens[t].deny \in Nat /\ tokens[t].uses \in Nat
    BY <2>1 DEF Token
  <2>3. tokens[t].retired => tokens[t].deny + 1 >= tokens[t].exp
                             \/ now + 1 >= tokens[t].exp
    BY DEF RefusedInv
  <2>4. Cardinality(InFlight(t)) \in Nat /\ Cardinality(Slots) \in Nat
    <3>1. InFlight(t) \in SUBSET Slots
      BY DEF InFlight
    <3>. QED BY <3>1, SlotsAssumption, FS_Subset, FS_CardinalityType
  <2>5. faults = 0 /\ now + 1 < tokens[t].exp =>
          tokens[t].uses + Cardinality(InFlight(t)) <= Cardinality(Slots)
    BY DEF LinkInv
  <2>6. tokens[t].retired /\ now + 1 < tokens[t].exp => Denied(t)
    BY <2>1, <2>2, <2>3 DEF Denied
  <2>7. faults = 0 /\ now + 1 < tokens[t].exp => tokens[t].uses <= Cardinality(Slots)
    BY <2>2, <2>4, <2>5
  <2>. QED BY <2>6, <2>7
<1>. QED BY <1>1, <1>2, <1>3, AccountsInit, AccountsStep, PTL DEF Spec
==============================================================================
