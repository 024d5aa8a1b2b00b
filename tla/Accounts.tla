------------------------------- MODULE Accounts -------------------------------
(***************************************************************************)
(* Accounts, their sessions and the administrators who change them         *)
(* (user_service.py, session_auth.py, auth.py, admin_bootstrap.py and the  *)
(* routers auth.py and admin.py; _get_or_create_oidc_user of oidc.py).     *)
(*                                                                         *)
(* A request runs in a thread of its own over a database session of its    *)
(* own: the rows it loads stay in its identity map until it commits, other *)
(* requests commit in between, and its commit writes only the columns it   *)
(* has changed.  Each query or commit is one action.  There is no session  *)
(* table: a signed token carries the account's session_version, and is     *)
(* refused when the two differ.                                            *)
(*                                                                         *)
(* Abstracted: names (but the configured administrator's), passwords (a    *)
(* verification succeeds or the request ends), token expiry, e-mail,       *)
(* theme, group memberships.  OIDC has one subject.                        *)
(***************************************************************************)
EXTENDS Naturals

CONSTANTS Users,      \* account ids; an id is used once
          Requests,   \* request threads
          Changes,    \* the payloads of an update that are tried
          Creations,  \* the accounts administrators create
          MaxVersion, \* bound on session_version
          Nobody      \* no account

Omitted == "omitted"
AllChanges == [role : {Omitted, "admin", "user"},
               status : {Omitted, "active", "disabled"},
               password : BOOLEAN]

(* boot: it has the name of the configured administrator. *)
AllCreations == [role : {"admin", "user"}, status : {"active", "disabled"},
                 boot : BOOLEAN]

ASSUME AccountsOK == /\ Nobody \notin Users
                     /\ Changes \subseteq AllChanges
                     /\ Creations \subseteq AllCreations
                     /\ MaxVersion \in Nat

VARIABLES row,       \* table users
          up,        \* the application has started
          req,       \* req[r]: the request thread r serves
          issued,    \* issued[u]: versions in sessions of u not revoked since
          revoked,   \* revoked[u]: versions in sessions of u revoked since
          stomped,   \* accounts whose version was written from an old one
          founded,   \* a start has made an administrator
          contested  \* two removals of administrators have overlapped

vars == <<row, up, req, issued, revoked, stomped, founded, contested>>

Blank == [state |-> "absent", role |-> "user", status |-> "disabled",
          version |-> 0, local |-> FALSE, oidc |-> FALSE, boot |-> FALSE]
Accounts == [state : {"absent", "live", "deleted"}, role : {"admin", "user"},
             status : {"active", "disabled"}, version : 0..MaxVersion,
             local : BOOLEAN, oidc : BOOLEAN, boot : BOOLEAN]

NoChange == [role |-> Omitted, status |-> Omitted, password |-> FALSE]
(* The columns of a loaded row that are used later. *)
Loaded == [role : {"admin", "user"}, status : {"active", "disabled"},
           version : 0..MaxVersion]
Seen(a) == [role |-> a.role, status |-> a.status, version |-> a.version]

Idle == [op |-> "none", step |-> "idle", actor |-> Nobody, target |-> Nobody,
         change |-> NoChange, seen |-> Seen(Blank), crossed |-> FALSE]
AdminOps == {"create", "update", "reset", "delete"}
Ops == AdminOps \cup {"none", "login", "signup", "password"}
Serving == [op : Ops, step : {"idle", "admitted", "loaded", "ready"},
            actor : Users \cup {Nobody}, target : Users \cup {Nobody},
            change : AllChanges, seen : Loaded, crossed : BOOLEAN]

Live(u) == row[u].state = "live"
ActiveAdmins ==
    {u \in Users : Live(u) /\ row[u].role = "admin" /\ row[u].status = "active"}

TypeOK == /\ row \in [Users -> Accounts]
          /\ up \in BOOLEAN
          /\ req \in [Requests -> Serving]
          /\ issued \in [Users -> SUBSET (0..MaxVersion)]
          /\ revoked \in [Users -> SUBSET (0..MaxVersion)]
          /\ stomped \subseteq Users
          /\ founded \in BOOLEAN
          /\ contested \in BOOLEAN

Init == /\ row = [u \in Users |-> Blank]
        /\ up = FALSE
        /\ req = [r \in Requests |-> Idle]
        /\ issued = [u \in Users |-> {}]
        /\ revoked = [u \in Users |-> {}]
        /\ stomped = {}
        /\ founded = FALSE
        /\ contested = FALSE
-----------------------------------------------------------------------------
(* require_current_user: some session of u is accepted. *)
Signed(u) == /\ Live(u)
             /\ row[u].status = "active"
             /\ row[u].version \in issued[u] \cup revoked[u]

Serve(r, op, step, a, t, s) ==
    /\ up
    /\ req[r] = Idle
    /\ req' = [req EXCEPT ![r] = [Idle EXCEPT !.op = op, !.step = step,
                                     !.actor = a, !.target = t, !.seen = Seen(s)]]
    /\ UNCHANGED <<row, up, issued, revoked, stomped, founded, contested>>

At(r, ops, step) == req[r].op \in ops /\ req[r].step = step
Done(r) == req' = [req EXCEPT ![r] = Idle]

(* A request ends without effect: refused, invalid, a conflicting name, a  *)
(* row that is gone, a failing query.                                      *)
Abort(r) == /\ req[r] # Idle
            /\ Done(r)
            /\ UNCHANGED <<row, up, issued, revoked, stomped, founded, contested>>

(* authenticate_user, or the account of an OIDC subject. *)
Verify(r, u) == /\ Live(u)
                /\ row[u].status = "active"
                /\ row[u].local \/ row[u].oidc
                /\ Serve(r, "login", "ready", u, u, Blank)

Issue(u, v) == issued' = [issued EXCEPT ![u] = @ \cup {v}]

(* The login is committed, the row refreshed, and the token made of it. *)
Login(r) == LET u == req[r].target
            IN /\ At(r, {"login"}, "ready")
               /\ Live(u)
               /\ Issue(u, row[u].version)
               /\ Done(r)
               /\ UNCHANGED <<row, up, revoked, stomped, founded, contested>>

Creation(role, status, boot) == [role |-> role, status |-> status, boot |-> boot]

NewAccount(u, n, oidc) ==
    /\ row[u].state = "absent"
    /\ n.boot => ~\E v \in Users : Live(v) /\ row[v].boot
    /\ row' = [row EXCEPT ![u] =
                 [state |-> "live", role |-> n.role, status |-> n.status,
                  version |-> 0, local |-> ~oidc, oidc |-> oidc, boot |-> n.boot]]

(* The first sign-in of the OIDC subject; the identity is unique. *)
FindNoSubject(r) == /\ ~\E u \in Users : Live(u) /\ row[u].oidc
                    /\ Serve(r, "signup", "ready", Nobody, Nobody, Blank)

SignUp(r, u) == /\ At(r, {"signup"}, "ready")
                /\ ~\E v \in Users : Live(v) /\ row[v].oidc
                /\ \E boot \in BOOLEAN :
                      NewAccount(u, Creation("user", "active", boot), TRUE)
                /\ Issue(u, 0)
                /\ Done(r)
                /\ UNCHANGED <<up, revoked, stomped, founded, contested>>
-----------------------------------------------------------------------------
(* require_admin_user. *)
Admit(r, a, op) == /\ Signed(a)
                   /\ row[a].role = "admin"
                   /\ Serve(r, op, "admitted", a, Nobody, row[a])

CreateUser(r, u, n) ==
    /\ At(r, {"create"}, "admitted")
    /\ NewAccount(u, n, FALSE)
    /\ Done(r)
    /\ UNCHANGED <<up, issued, revoked, stomped, founded, contested>>

(* Whether the guard of the last active administrator counts. *)
NeedsAnother(op, seen, c) ==
    /\ seen.role = "admin"
    /\ \/ op = "update" /\ (c.status = "disabled" \/ c.role = "user")
       \/ op = "delete" /\ seen.status = "active"

(* The target is loaded, unless the actor's own row is already there, and  *)
(* the checks that need no further query are made.                         *)
Load(r, u, c) ==
    LET q == req[r]
        seen == IF u = q.actor THEN q.seen ELSE Seen(row[u])
    IN /\ At(r, {"update", "reset", "delete"}, "admitted")
       /\ u # q.actor => Live(u)
       /\ u = q.actor => q.op # "delete" /\ c.status # "disabled"
       /\ q.op # "update" => c = NoChange
       /\ req' = [req EXCEPT ![r] =
                    [q EXCEPT !.target = u, !.change = c, !.seen = seen,
                       !.step = IF NeedsAnother(q.op, seen, c) THEN "loaded"
                                ELSE "ready"]]
       /\ UNCHANGED <<row, up, issued, revoked, stomped, founded, contested>>

(* Mutant: the count may be one. *)
CountOffByOne(r) == /\ At(r, {"update", "delete"}, "loaded")
                    /\ ActiveAdmins # {}
                    /\ req' = [req EXCEPT ![r].step = "ready"]
                    /\ UNCHANGED <<row, up, issued, revoked, stomped, founded, contested>>

(* _ensure_admin_change_is_safe: more than one active administrator. *)
Count(r) == /\ At(r, {"update", "delete"}, "loaded")
            /\ \E u, v \in ActiveAdmins : u # v
            /\ req' = [req EXCEPT ![r].step = "ready"]
            /\ UNCHANGED <<row, up, issued, revoked, stomped, founded, contested>>
-----------------------------------------------------------------------------
(* Mutant: an omitted field is not skipped. *)
WrittenAlways(asked, old, stored) == asked

(* What a commit stores in a column: a value equal to the loaded one is no *)
(* change, and is not written.                                             *)
Written(asked, old, stored) ==
    IF asked \in {Omitted, old} THEN stored ELSE asked

(* Mutant: only a new password or role revokes. *)
RevokesRole(c) == c.password \/ c.role # Omitted

(* Whether an update increments session_version. *)
Revokes(c) == c.password \/ c.role # Omitted \/ c.status # Omitted

(* The incremented version is written, and earlier sessions are revoked. *)
Revoke(u, seen) == /\ issued' = [issued EXCEPT ![u] = {}]
                   /\ revoked' = [revoked EXCEPT ![u] = @ \cup issued[u]]
                   /\ stomped' = IF seen.version = row[u].version THEN stomped
                                 ELSE stomped \cup {u}

(* An active administrator is removed. *)
Removing == ~(ActiveAdmins \subseteq ActiveAdmins')

(* The commit of r ends it; one that removes an administrator crosses the  *)
(* other changes under way, and is contested when it has been crossed.     *)
Crosses(r) ==
    /\ req' = [q \in Requests |->
                 IF q = r THEN Idle
                 ELSE [req[q] EXCEPT !.crossed =
                         @ \/ (Removing /\ req[q].op \in {"update", "delete"})]]
    /\ contested' = (contested \/ (Removing /\ req[r].crossed))

(* update_user with its audit entry, in one transaction: the entry refers  *)
(* to the actor, so that both must still exist.                            *)
CommitUpdate(r) ==
    LET q == req[r]
        u == q.target
    IN /\ At(r, {"update"}, "ready")
       /\ Live(u) /\ Live(q.actor)
       /\ Revokes(q.change) => q.seen.version < MaxVersion
       /\ row' = [row EXCEPT ![u] =
            [row[u] EXCEPT
               !.role = Written(q.change.role, q.seen.role, row[u].role),
               !.status = Written(q.change.status, q.seen.status, row[u].status),
               !.local = q.change.password \/ row[u].local,
               !.version = IF Revokes(q.change) THEN q.seen.version + 1
                           ELSE row[u].version]]
       /\ IF q.change = NoChange THEN UNCHANGED <<issued, revoked, stomped>>
          ELSE Revoke(u, q.seen)
       /\ Crosses(r)
       /\ UNCHANGED <<up, founded>>

(* api_change_password: the session check has loaded the row. *)
OwnPassword(r, u) == /\ Signed(u)
                     /\ row[u].local
                     /\ Serve(r, "password", "ready", u, u, row[u])

(* Choosing another active modset on the way refreshes the row. *)
Rehome(r) == /\ At(r, {"password"}, "ready")
             /\ Live(req[r].target)
             /\ req' = [req EXCEPT ![r].seen = Seen(row[req[r].target])]
             /\ UNCHANGED <<row, up, issued, revoked, stomped, founded, contested>>

(* api_change_password and api_reset_user_password. *)
CommitPassword(r) ==
    LET q == req[r]
        u == q.target
    IN /\ At(r, {"password", "reset"}, "ready")
       /\ Live(u)
       /\ q.seen.version < MaxVersion
       /\ row' = [row EXCEPT ![u].local = TRUE,
                             ![u].version = q.seen.version + 1]
       /\ Revoke(u, q.seen)
       /\ Done(r)
       /\ UNCHANGED <<up, founded, contested>>

(* delete_user; a row that is already gone is no error. *)
CommitDelete(r) == /\ At(r, {"delete"}, "ready")
                   /\ row' = [row EXCEPT ![req[r].target] =
                                [Blank EXCEPT !.state = "deleted"]]
                   /\ Crosses(r)
                   /\ UNCHANGED <<up, issued, revoked, stomped, founded>>

(* bootstrap_admin, when there is no administrator: the settings name one, *)
(* whose name may belong to another account, or they do not, which fails   *)
(* the start in production only.                                           *)
Bootstrap(settings) ==
    \/ /\ settings = "named"
       /\ \E u \in Users : NewAccount(u, Creation("admin", "active", TRUE), FALSE)
       /\ up' = TRUE /\ founded' = TRUE
    \/ /\ settings = "named" /\ \E u \in Users : Live(u) /\ row[u].boot
       /\ up' = FALSE
       /\ UNCHANGED <<row, founded>>
    \/ /\ settings \in {"development", "production"}
       /\ up' = (settings = "development")
       /\ UNCHANGED <<row, founded>>

(* The process ends with the requests it serves, and is started again with *)
(* settings that may have been edited.                                     *)
Restart ==
    /\ req' = [r \in Requests |-> Idle]
    /\ IF \E u \in Users : Live(u) /\ row[u].role = "admin"
       THEN up' = TRUE /\ UNCHANGED <<row, founded>>
       ELSE \E settings \in {"named", "development", "production"} : Bootstrap(settings)
    /\ UNCHANGED <<issued, revoked, stomped, contested>>

Step(r) == \/ Abort(r) \/ Login(r) \/ FindNoSubject(r) \/ Count(r) \/ Rehome(r)
           \/ CommitUpdate(r) \/ CommitPassword(r) \/ CommitDelete(r)
           \/ \E u \in Users : Verify(r, u) \/ OwnPassword(r, u)
           \/ \E a \in Users, op \in AdminOps : Admit(r, a, op)
           \/ \E u \in Users, c \in Changes \cup {NoChange} : Load(r, u, c)
           \/ \E u \in Users : SignUp(r, u)
           \/ \E u \in Users, n \in Creations : CreateUser(r, u, n)

Next == Restart \/ \E r \in Requests : Step(r)

Spec == Init /\ [][Next]_vars
-----------------------------------------------------------------------------
(* A session that existed when its account's password, role or status was  *)
(* changed is never accepted again (session_version), through any later    *)
(* changes, unless two such changes of the account overlapped.             *)
SessionsRevoked == \A u \in Users \ stomped :
                      Live(u) => row[u].version \notin revoked[u]

(* Once a start has made an administrator there is an active one for ever, *)
(* and every start succeeds, unless two removals of administrators have    *)
(* overlapped: the guard of admin.py:417-428 counts before it commits.     *)
(* Nobody else is needed: who removes another one remains himself.         *)
AdminRemains == founded /\ ~contested => up /\ ActiveAdmins # {}
=============================================================================
