----------------------------- MODULE MCAccounts -----------------------------
(***************************************************************************)
(* Two parts of the system that share no state: accounts, and the failed   *)
(* logins of one address and user name.  Each behaviour runs one of them.  *)
(***************************************************************************)
EXTENDS Accounts, LoginProtection, TLC

CONSTANTS u1, u2, u3, r1, r2, t1, t2, t3

Change(role, status, password) ==
    [role |-> role, status |-> status, password |-> password]

\* Demote, promote, disable with a new password, and enable.
FourChanges == {Change("user", Omitted, FALSE), Change("admin", Omitted, FALSE),
                Change(Omitted, "disabled", TRUE), Change(Omitted, "active", FALSE)}

\* A user, an administrator, and one with the configured name.
ThreeCreations == {Creation("user", "active", FALSE), Creation("admin", "active", FALSE),
                   Creation("user", "active", TRUE)}

Symmetry == Permutations(Users) \cup Permutations(Requests) \cup Permutations(Logins)

VARIABLE part

AllInit == /\ part \in {"accounts", "login"}
           /\ Init /\ LoginInit

AllNext == \/ part = "accounts" /\ Next /\ UNCHANGED <<part, loginVars>>
           \/ part = "login" /\ LoginNext /\ UNCHANGED <<part, vars>>

AllSpec == AllInit /\ [][AllNext]_<<part, vars, loginVars>>
=============================================================================
