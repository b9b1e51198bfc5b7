----------------------------- MODULE MCAccounts -----------------------------
(***************************************************************************)
(* Instances of Accounts for TLC.                                          *)
(***************************************************************************)
EXTENDS Accounts, TLC

User(tenant, role, active, secret, mfa) ==
  [tenant |-> tenant, role |-> role, active |-> active, secret |-> secret,
   mfa |-> mfa]

\* One tenant with two administrators, the first with MFA on, enrolled or
\* without; an address that is free or invited
Established ==
  {[e \in {"ann", "bob", "cyd"} |->
      CASE e = "ann" -> a
        [] e = "bob" -> User(1, "admin", TRUE, 0, FALSE)
        [] OTHER -> c] :
     a \in {User(1, "admin", TRUE, 1, TRUE),
            User(1, "admin", TRUE, 1, FALSE)},
     c \in {None}}

OneTenant == <<"ann">>

Circulating ==
  LET T(kind, e) == [kind |-> kind, user |-> e, exp |-> 4, deny |-> 0,
                     retired |-> FALSE, uses |-> 0] IN
  <<T("session", "ann"), T("session", "bob"), T("link", "bob")>>

Lives == [k \in Kinds |-> 1]

SlotSymmetry == Permutations(Slots)
=============================================================================
