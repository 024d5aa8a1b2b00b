------------------------------- MODULE Modsets -------------------------------
(***************************************************************************)
(* Modsets and the active modset of a user (modset_service.py, the router  *)
(* modsets.py).                                                            *)
(*                                                                         *)
(* A request runs in a thread of its own over a database session of its    *)
(* own; others commit between its reads and its commit.  The reads it      *)
(* makes one after the other are one action, and so is each commit.        *)
(*                                                                         *)
(* Abstracted: who may see a modset through a group is the set reader[s],  *)
(* changed at any time (GroupAccess has the tables it comes from, and the  *)
(* kinds of permission); roles are constant, accounts stay (Accounts has   *)
(* both); the mods of a modset and its load order; which of the visible    *)
(* modsets comes first by name.                                            *)
(***************************************************************************)
EXTENDS Naturals, FiniteSets

CONSTANTS Users, Admins, \* accounts, and those with the role admin
          Modsets,       \* modset ids; an id is used once
          Names,         \* texts of a name
          Lower, Fold,   \* the lower-case form of each, as the database makes
                         \* it (lower), and the service (casefold)
          Shares,        \* the sets of users groups give access to
          Created, Renamed, \* the names new modsets and renamings ask for
          Default,       \* the name of the first modset
          Requests,      \* request threads
          Nobody, None   \* no account, no modset

ASSUME ModsetsOK == /\ Admins \subseteq Users
                    /\ Shares \subseteq SUBSET Users
                    /\ Lower \in [Names -> Names] /\ Fold \in [Names -> Names]
                    /\ Nobody \notin Users
                    /\ None \notin Modsets
                    /\ Created \subseteq Names /\ Renamed \subseteq Names
                    /\ Default \in Names

VARIABLES modset,    \* table modsets
          reader,    \* reader[s]: users a group lets see s
          active,    \* active_modset_id of each user
          req,       \* req[r]: the request thread r serves
          contested, \* a modset was deleted on an old count
          clashed,   \* modsets whose name was stored on an old check
          settled    \* users whose active modset was checked, with no change
                     \* of what they see and no overlapping write since

vars == <<modset, reader, active, req, contested, clashed, settled>>

Absent == [state |-> "absent", name |-> Default, owner |-> Nobody]
Rows == [state : {"absent", "live", "deleted"}, name : Names,
         owner : Users \cup {Nobody}]

Idle == [op |-> "none", step |-> "idle", user |-> Nobody, subject |-> Nobody,
         target |-> None, name |-> Default, was |-> None,
         todo |-> {}, crossed |-> FALSE]
Naming == {"create", "rename"}
(* A request handles target for user; subject is the user whose active     *)
(* modset, was when it was read, it settles; todo those it has still to.   *)
Serving == [op : Naming \cup {"none", "delete", "activate", "home"},
            step : {"idle", "ready", "next", "resolve", "rehome"},
            user : Users \cup {Nobody}, subject : Users \cup {Nobody},
            target : Modsets \cup {None}, name : Names,
            was : Modsets \cup {None}, todo : SUBSET Users, crossed : BOOLEAN]

Live == {s \in Modsets : modset[s].state = "live"}
(* accessible_modset_filter and modset_capabilities. *)
Manages(u, s) == u \in Admins \/ modset[s].owner = u
Visible(u) == {s \in Live : Manages(u, s) \/ u \in reader[s]}

(* The foreign keys: what refers to a modset refers to a row. *)
References == /\ \A u \in Users : active[u] \in Live \cup {None}
              /\ \A s \in Modsets \ Live : reader[s] = {}

TypeOK == /\ modset \in [Modsets -> Rows]
          /\ reader \in [Modsets -> SUBSET Users]
          /\ active \in [Users -> Modsets \cup {None}]
          /\ req \in [Requests -> Serving]
          /\ contested \in BOOLEAN
          /\ clashed \subseteq Modsets
          /\ settled \subseteq Users
          /\ References

(* After the first start there is the default modset (_ensure_default_modset). *)
Init == /\ \E s \in Modsets :
             modset = [t \in Modsets |-> IF t = s THEN [Absent EXCEPT !.state = "live"]
                                         ELSE Absent]
        /\ reader = [s \in Modsets |-> {}]
        /\ active = [u \in Users |-> None]
        /\ req = [r \in Requests |-> Idle]
        /\ contested = FALSE
        /\ clashed = {}
        /\ settled = {}
-----------------------------------------------------------------------------
Serve(r, q) == /\ req[r] = Idle
               /\ req' = [req EXCEPT ![r] = q]
               /\ UNCHANGED <<modset, reader, active, contested, clashed, settled>>

At(r, op, step) == req[r].op = op /\ req[r].step = step

(* Request r goes on as q; the others that satisfy Hit have been crossed.  *)
Crossing(r, q, Hit(_)) ==
    req' = [o \in Requests |-> IF o = r THEN q
                               ELSE [req[o] EXCEPT !.crossed = @ \/ Hit(o)]]

(* Refused, in conflict, or failing: the request ends where it is. *)
Abort(r) == /\ req[r] # Idle
            /\ req' = [req EXCEPT ![r] = Idle]
            /\ UNCHANGED <<modset, reader, active, contested, clashed, settled>>

(* Mutant: the name is compared as it is written. *)
TakenText(n, s) == \E t \in Live \ {s} : modset[t].name = n

(* Another modset has the name, upper and lower case being the same: the   *)
(* folded form of the new one is compared to the lower form of those there.*)
Taken(n, s) == \E t \in Live \ {s} : Lower[modset[t].name] = Fold[n]

(* create_modset, or duplicate_modset of a visible modset under a new name. *)
CheckCreate(r, u, n) ==
    /\ ~Taken(n, None)
    /\ Serve(r, [Idle EXCEPT !.op = "create", !.step = "ready", !.user = u, !.name = n])

(* update_modset by somebody who may write; a name equal to the one loaded *)
(* is no change, and nothing is written.                                   *)
CheckRename(r, u, s, n) ==
    /\ s \in Visible(u)
    /\ ~Taken(n, s)
    /\ n # modset[s].name
    /\ Serve(r, [Idle EXCEPT !.op = "rename", !.step = "ready",
                             !.target = s, !.name = n])

(* Request o settles the active modset of one of the users vs. *)
Homing(o, vs) == req[o].subject \in vs

(* A name is stored: the exact text is unique. *)
Store(r, s, row) ==
    /\ ~\E t \in Live \ {s} : modset[t].name = row.name
    /\ modset' = [modset EXCEPT ![s] = row]
    /\ Crossing(r, Idle, LAMBDA o : \/ /\ req[o].op \in Naming
                                       /\ Lower[row.name] = Fold[req[o].name]
                                    \/ Homing(o, Admins \cup {row.owner}))
    /\ clashed' = IF req[r].crossed THEN clashed \cup {s} ELSE clashed \ {s}

Insert(r, s) ==
    /\ At(r, "create", "ready")
    /\ modset[s].state = "absent"
    /\ Store(r, s, [state |-> "live", name |-> req[r].name, owner |-> req[r].user])
    /\ settled' = {v \in settled : active[v] # None}
    /\ UNCHANGED <<reader, active, contested>>

Rename(r) ==
    LET q == req[r]
    IN /\ At(r, "rename", "ready")
       /\ q.target \in Live
       /\ Store(r, q.target, [modset[q.target] EXCEPT !.name = q.name])
       /\ UNCHANGED <<reader, active, contested, settled>>
-----------------------------------------------------------------------------
(* Mutant: the active modset is left as it is. *)
HadNone(s) == {}

(* The users whose active modset is s. *)
Had(s) == {v \in Users : active[v] = s}

(* Mutant: the count may be one. *)
CountOffByOne(r, u, s) ==
    /\ s \in Live /\ Manages(u, s)
    /\ Serve(r, [Idle EXCEPT !.op = "delete", !.step = "ready", !.user = u, !.target = s,
                             !.todo = Had(s)])

(* delete_modset: the permission, more than one modset, and the users whose *)
(* active modset it is.                                                     *)
CheckDelete(r, u, s) ==
    /\ s \in Live /\ Manages(u, s)
    /\ \E t \in Live : t # s
    /\ Serve(r, [Idle EXCEPT !.op = "delete", !.step = "ready", !.user = u, !.target = s,
                             !.todo = Had(s)])

(* Active modsets are set to null: those of the users who have the modset, *)
(* and of users who had it when the flush read them and have chosen        *)
(* another since.  Deleting a modset that is gone is no error.             *)
Delete(r, late) ==
    LET q == req[r]
        cleared == Had(q.target) \cup late
    IN /\ At(r, "delete", "ready")
       /\ late \subseteq q.todo
       /\ modset' = [modset EXCEPT ![q.target] = [Absent EXCEPT !.state = "deleted"]]
       /\ reader' = [reader EXCEPT ![q.target] = {}]
       /\ active' = [v \in Users |-> IF v \in cleared THEN None ELSE active[v]]
       /\ Crossing(r, [q EXCEPT !.step = "next", !.target = None, !.crossed = FALSE],
                   LAMBDA o : \/ At(o, "delete", "ready")
                              \/ Homing(o, {v \in Users : v \in cleared \/ q.target \in Visible(v)}))
       /\ contested' = (contested \/ (q.crossed /\ q.target \in Live))
       /\ settled' = {v \in settled \ cleared : q.target \notin Visible(v)}
       /\ UNCHANGED clashed

(* Then ensure_user_active_modset for each of the affected users, and last *)
(* for the caller; their rows are read anew, as a commit expires them.     *)
NextUser(r, v) ==
    LET q == req[r]
    IN /\ At(r, "delete", "next")
       /\ IF q.todo = {} THEN v = q.user ELSE v \in q.todo
       /\ req' = [req EXCEPT ![r] =
                    [q EXCEPT !.op = IF q.todo = {} THEN "home" ELSE "delete",
                              !.step = "resolve", !.subject = v, !.was = active[v],
                              !.todo = q.todo \ {v}]]
       /\ UNCHANGED <<modset, reader, active, contested, clashed, settled>>
-----------------------------------------------------------------------------
(* Another request that names no modset, a login, or GET /auth/me. *)
Home(r, u) == Serve(r, [Idle EXCEPT !.op = "home", !.step = "resolve", !.user = u,
                                    !.subject = u, !.was = active[u]])

(* One user is done; a deletion goes on with the next. *)
Onward(q) == IF q.op = "delete"
             THEN [q EXCEPT !.step = "next", !.subject = Nobody, !.was = None,
                            !.crossed = FALSE]
             ELSE Idle

(* Mutant: the active modset is not checked again. *)
KeepsAny(q) == q.was # None

(* Mutant: the first visible modset is taken although there is an active one. *)
KeepsNone(q) == FALSE

(* The modset that was active when the row was read is visible still. *)
Keeps(q) == q.was \in Visible(q.subject)

Settle(q) == settled' = IF q.crossed THEN settled \ {q.subject}
                        ELSE settled \cup {q.subject}

(* ensure_user_active_modset finds that there is nothing to write. *)
Resolve(r) ==
    LET q == req[r]
    IN /\ q.step = "resolve"
       /\ Keeps(q) \/ (q.was = None /\ Visible(q.subject) = {})
       /\ req' = [req EXCEPT ![r] = Onward(q)]
       /\ Settle(q)
       /\ UNCHANGED <<modset, reader, active, contested, clashed>>

(* Or it takes another visible modset, or none, *)
Fallback(r, s) ==
    LET q == req[r]
        visible == Visible(q.subject)
    IN /\ q.step = "resolve"
       /\ ~Keeps(q)
       /\ IF visible = {} THEN s = None ELSE s \in visible
       /\ s # q.was
       /\ req' = [req EXCEPT ![r].step = "rehome", ![r].was = s]
       /\ UNCHANGED <<modset, reader, active, contested, clashed, settled>>

(* ... and commits it. *)
Rehome(r) ==
    LET q == req[r]
    IN /\ q.step = "rehome"
       /\ q.was \in Live \cup {None}
       /\ active' = [active EXCEPT ![q.subject] = q.was]
       /\ Crossing(r, Onward(q), LAMBDA o : Homing(o, {q.subject}))
       /\ Settle(q)
       /\ UNCHANGED <<modset, reader, contested, clashed>>

(* activate_modset. *)
CheckActivate(r, u, s) ==
    /\ s \in Visible(u)
    /\ Serve(r, [Idle EXCEPT !.op = "activate", !.step = "ready", !.user = u, !.subject = u,
                             !.target = s, !.was = active[u]])

(* A choice equal to the one loaded is not written. *)
Activate(r) ==
    LET q == req[r]
    IN /\ At(r, "activate", "ready")
       /\ q.target \in Live
       /\ active' = IF q.target = q.was THEN active
                    ELSE [active EXCEPT ![q.subject] = q.target]
       /\ Crossing(r, Idle, LAMBDA o : q.target # q.was /\ Homing(o, {q.subject}))
       /\ Settle(q)
       /\ UNCHANGED <<modset, reader, contested, clashed>>

(* Memberships or grants change (GroupAccess). *)
ChangeAccess(s, users) ==
    LET changed == (users \cup reader[s]) \ (users \cap reader[s])
    IN /\ s \in Live
       /\ reader' = [reader EXCEPT ![s] = users]
       /\ req' = [o \in Requests |->
                    [req[o] EXCEPT !.crossed = @ \/ Homing(o, changed)]]
       /\ settled' = settled \ changed
       /\ UNCHANGED <<modset, active, contested, clashed>>
-----------------------------------------------------------------------------
Ask(r, u) == \/ \E n \in Created : CheckCreate(r, u, n)
             \/ \E s \in Modsets, n \in Renamed : CheckRename(r, u, s, n)
             \/ \E s \in Modsets : CheckDelete(r, u, s)
             \/ Home(r, u)
             \/ \E s \in Modsets : CheckActivate(r, u, s)

Commit(r) == \/ \E s \in Modsets : Insert(r, s)
             \/ Rename(r)
             \/ \E late \in SUBSET Users : Delete(r, late)
             \/ Rehome(r)
             \/ Activate(r)

Proceed(r) == \/ Abort(r) \/ Resolve(r)
              \/ \E v \in Users : NextUser(r, v)
              \/ \E s \in Modsets \cup {None} : Fallback(r, s)

Next == \/ \E r \in Requests : Proceed(r) \/ Commit(r) \/ \E u \in Users : Ask(r, u)
        \/ \E s \in Modsets, users \in Shares : ChangeAccess(s, users)

Spec == Init /\ [][Next]_vars
-----------------------------------------------------------------------------
(* "The last remaining modset is protected" (README.md:39), unless the     *)
(* deletions of two modsets overlapped.                                    *)
ModsetRemains == ~contested => Live # {}

(* Two modsets never have the same name in upper or lower case             *)
(* (ModSetConflictError), unless one got its name while a request with the *)
(* same one was under way: the table only keeps exact texts unique.  That  *)
(* is so of the names that both forms agree on: where they do not, as with *)
(* a sharp s, two spellings are taken one after the other.                 *)
Folds(n) == Lower[n] = Fold[n]
NamesDistinct ==
    \A s, t \in Live \ clashed :
       s # t /\ Folds(modset[s].name) /\ Folds(modset[t].name)
       => Lower[modset[s].name] # Lower[modset[t].name]

(* A request that settles the active modset of a user leaves one they may  *)
(* see, or none when they see none (ensure_user_active_modset), and it     *)
(* stays so until what they see changes or overlapping requests store      *)
(* different ones.                                                         *)
ActiveVisible == \A u \in settled :
                    IF Visible(u) = {} THEN active[u] = None ELSE active[u] \in Visible(u)

(* A user who sees their active modset keeps it until they activate        *)
(* another, it is deleted, or a request goes by what it has read before a  *)
(* change of what they see or chose.                                       *)
ChoiceKept ==
    [][\A u \in Users :
         /\ active[u] \in Visible(u) /\ active'[u] # active[u]
         => \/ active[u] \notin Live'
            \/ \E r \in Requests : /\ req'[r] # req[r]
                                   /\ \/ req[r].op = "activate" /\ req[r].user = u
                                      \/ req[r].crossed
                                      \/ u \in req[r].todo]_vars
=============================================================================
