----------------------------- MODULE GroupAccess -----------------------------
(***************************************************************************)
(* Groups, their members and the grants they give on modsets (the router   *)
(* groups.py, modset_permissions.py, and the group permissions that        *)
(* PATCH /modsets/{id} may carry).                                         *)
(*                                                                         *)
(* A request replaces the rows of its scope: the grants of a modset, the   *)
(* members of a group, or the groups of a user.  The first and the last    *)
(* delete every row they see and insert what was asked; the second reads   *)
(* the members and stores the difference.  A DELETE sees the rows          *)
(* committed when it starts: a row inserted since, even with the same key, *)
(* stays.  (Of two that delete the same row the second waits for the       *)
(* first; here either may commit first, with the same rows stored.)        *)
(*                                                                         *)
(* Abstracted: names and descriptions; roles, owners and accounts, which   *)
(* stay (Accounts, Modsets).                                               *)
(***************************************************************************)
EXTENDS Naturals

CONSTANTS Users, Admins, \* accounts, and those with the role admin
          Members,       \* accounts that are put into groups
          Groups,        \* group ids; an id is used once
          Modsets,       \* modsets
          Owner,         \* the owner of each
          Shares,        \* the grants that are asked for, as a set of [group, permission]
          Requests,      \* request threads
          Nobody         \* no account

Permissions == {"read", "write"}
GroupPermission == [group : Groups, permission : Permissions]
ASSUME GroupAccessOK == /\ Admins \subseteq Users /\ Members \subseteq Users
                        /\ Nobody \notin Users
                        /\ Owner \in [Modsets -> Users \cup {Nobody}]
                        /\ Shares \subseteq SUBSET GroupPermission

VARIABLES group,   \* group[g]: table groups
          member,  \* table group_memberships
          grant,   \* table modset_group_permissions
          req,     \* req[r]: the request thread r serves
          chosen   \* the rows of both tables that were asked for last

vars == <<group, member, grant, req, chosen>>

Memberships == [group : Groups, user : Users]
Grants == [modset : Modsets, group : Groups, permission : Permissions]
Rows == Memberships \cup Grants

(* A request of actor asks for the rows asked in its scope; seen are the    *)
(* rows it has loaded, removed those its DELETE takes away.                 *)
Idle == [op |-> "none", step |-> "idle", actor |-> Nobody, of |-> Nobody,
         asked |-> {}, seen |-> {}, removed |-> {}, crossed |-> FALSE]
Saving == {"create", "roster"}
Serving == [op : {"none", "share", "create", "roster", "groups"},
            step : {"idle", "loaded", "deleted"}, actor : Users \cup {Nobody},
            of : Modsets \cup Groups \cup Users \cup {Nobody},
            asked : SUBSET Rows, seen : SUBSET Rows, removed : SUBSET Rows,
            crossed : BOOLEAN]

Live == {g \in Groups : group[g] = "live"}
(* Primary keys, and foreign keys to the groups. *)
SameKey(a, b) == IF a \in Grants THEN b \in Grants /\ a.modset = b.modset /\ a.group = b.group
                 ELSE a = b
Keyed(rows) == \A a, b \in rows : SameKey(a, b) => a = b
Referring(rows) == \A a \in rows : a.group \in Live

TypeOK == /\ group \in [Groups -> {"absent", "live", "deleted"}]
          /\ member \subseteq Memberships
          /\ grant \subseteq Grants
          /\ req \in [Requests -> Serving]
          /\ chosen \subseteq Rows
          /\ Keyed(member) /\ Keyed(grant)
          /\ Referring(member) /\ Referring(grant)

Init == /\ group = [g \in Groups |-> "absent"]
        /\ member = {}
        /\ grant = {}
        /\ req = [r \in Requests |-> Idle]
        /\ chosen = {}
-----------------------------------------------------------------------------
(* accessible_modset_filter for writing, and modset_capabilities. *)
Manages(u, s) == u \in Admins \/ Owner[s] = u
Reaches(u, s, permissions) ==
    \/ Manages(u, s)
    \/ \E a \in grant : /\ a.modset = s /\ a.permission \in permissions
                        /\ [group |-> a.group, user |-> u] \in member

(* Mutant: who may write may manage. *)
MayShareAll(u, s) == Reaches(u, s, {"write"})

(* update_modset and update_group_permissions: the grants of a modset are   *)
(* for its owner and administrators.                                        *)
MayShare(u, s) == Reaches(u, s, {"read", "write"}) /\ Manages(u, s)

(* The rows of the scope of a request. *)
Scope(op, of) == CASE op = "share"  -> {a \in grant : a.modset = of}
                   [] op = "roster" -> {a \in member : a.group = of}
                   [] op = "groups" -> {a \in member : a.user = of}
                   [] OTHER         -> {}

Serve(r, q) == /\ req[r] = Idle
               /\ req' = [req EXCEPT ![r] = q]
               /\ UNCHANGED <<group, member, grant, chosen>>

(* Refused, in conflict, or failing. *)
Abort(r) == /\ req[r] # Idle
            /\ req' = [req EXCEPT ![r] = Idle]
            /\ UNCHANGED <<group, member, grant, chosen>>

(* set_modset_group_permissions: groups that exist, and the DELETE. *)
Share(r, u, s, entries) ==
    /\ MayShare(u, s)
    /\ \A e \in entries : e.group \in Live
    /\ \A e, f \in entries : e.group = f.group => e = f
    /\ Serve(r, [Idle EXCEPT !.op = "share", !.step = "deleted", !.actor = u, !.of = s,
                   !.asked = {[modset |-> s, group |-> e.group,
                               permission |-> e.permission] : e \in entries},
                   !.removed = Scope("share", s)])

(* update_user_groups. *)
AssignGroups(r, a, u, groups) ==
    /\ a \in Admins
    /\ groups \subseteq Live
    /\ Serve(r, [Idle EXCEPT !.op = "groups", !.step = "deleted", !.actor = a, !.of = u,
                   !.asked = {[group |-> g, user |-> u] : g \in groups},
                   !.removed = Scope("groups", u)])

(* save_group, of a new group or of one that exists: its members are read. *)
SaveGroup(r, a, g, users) ==
    /\ a \in Admins
    /\ group[g] # "deleted"
    /\ Serve(r, [Idle EXCEPT !.op = IF group[g] = "absent" THEN "create" ELSE "roster",
                   !.step = "loaded", !.actor = a, !.of = g,
                   !.asked = {[group |-> g, user |-> u] : u \in users},
                   !.seen = Scope("roster", g)])

(* The flush deletes the members read that were not asked for. *)
Flush(r) ==
    LET q == req[r]
    IN /\ q.step = "loaded"
       /\ req' = [req EXCEPT ![r].step = "deleted",
                             ![r].removed = (q.seen \ q.asked) \cap member]
       /\ UNCHANGED <<group, member, grant, chosen>>
-----------------------------------------------------------------------------
(* The rows a request inserts: those it has not loaded. *)
Inserts(q) == q.asked \ q.seen

(* Mutant: the old rows stay. *)
KeepsRemoved(table, q) == table \cup Inserts(q)

Stored(table, q) == (table \ q.removed) \cup Inserts(q)

(* Row a is in the scope of q. *)
InScope(a, q) == CASE q.op = "share"  -> a \in Grants /\ a.modset = q.of
                   [] q.op \in Saving -> a \in Memberships /\ a.group = q.of
                   [] q.op = "groups" -> a \in Memberships /\ a.user = q.of
                   [] OTHER           -> FALSE

(* The rows in gone and new change: a DELETE that has run does not see the *)
(* new ones, and the requests that have them in scope have been crossed.   *)
Crossing(r, gone, new) ==
    req' = [o \in Requests |->
              IF o = r THEN Idle
              ELSE [req[o] EXCEPT
                      !.removed = {a \in @ : ~\E b \in new : SameKey(a, b)},
                      !.crossed = @ \/ \E a \in gone \cup new : InScope(a, req[o])]]

(* What was asked replaces what was chosen before in the scope of q; an    *)
(* overlapped request chooses what it happens to store.                    *)
Chosen(q, stored) ==
    LET rest == {a \in chosen : ~InScope(a, q)}
    IN rest \cup IF q.crossed THEN {a \in stored : InScope(a, q)} ELSE q.asked

(* No row with the key of one that is inserted is there: a commit. *)
CommitShare(r) ==
    LET q == req[r]
    IN /\ q.op = "share"
       /\ \A a \in grant \ q.removed, b \in Inserts(q) : ~SameKey(a, b)
       /\ Referring(Inserts(q))
       /\ grant' = Stored(grant, q)
       /\ chosen' = Chosen(q, grant')
       /\ Crossing(r, q.removed, Inserts(q))
       /\ UNCHANGED <<group, member>>

(* The commit of save_group and of update_user_groups. *)
CommitMembers(r) ==
    LET q == req[r]
    IN /\ q.op \in Saving \cup {"groups"} /\ q.step = "deleted"
       /\ q.op \in Saving => group[q.of] = IF q.op = "create" THEN "absent" ELSE "live"
       /\ group' = IF q.op = "create" THEN [group EXCEPT ![q.of] = "live"] ELSE group
       /\ \A a \in member \ q.removed : a \notin Inserts(q)
       /\ \A a \in Inserts(q) : a.group \in Live'
       /\ member' = Stored(member, q)
       /\ chosen' = Chosen(q, member')
       /\ Crossing(r, q.removed, Inserts(q))
       /\ UNCHANGED grant

(* Mutant: only its members go with a group. *)
GoneMembers(g) == {a \in member : a.group = g}

(* The members and grants of a group go with it, *)
Gone(g) == {a \in member \cup grant : a.group = g}

(* ... delete_group. *)
DeleteGroup(g) ==
    LET gone == Gone(g)
    IN /\ g \in Live
       /\ group' = [group EXCEPT ![g] = "deleted"]
       /\ member' = member \ gone
       /\ grant' = grant \ gone
       /\ chosen' = {a \in chosen : a.group # g}
       /\ req' = [o \in Requests |->
                    [req[o] EXCEPT !.crossed = @ \/ \E a \in gone : InScope(a, req[o])]]
-----------------------------------------------------------------------------
Step(r) ==
    \/ Abort(r) \/ Flush(r) \/ CommitShare(r) \/ CommitMembers(r)
    \/ \E u \in Users, s \in Modsets, entries \in Shares : Share(r, u, s, entries)
    \/ \E a \in Users, u \in Members, groups \in SUBSET Groups : AssignGroups(r, a, u, groups)
    \/ \E a \in Users, g \in Groups, users \in SUBSET Members : SaveGroup(r, a, g, users)

Next == (\E r \in Requests : Step(r)) \/ \E g \in Groups : DeleteGroup(g)

Spec == Init /\ [][Next]_vars
-----------------------------------------------------------------------------
(* The grants of a modset, the members of a group and the groups of a user *)
(* are those asked for last (replacement, test_groups_api.py:135), unless  *)
(* the request that stored them overlapped with another on the same rows.  *)
AsChosen == member \cup grant = chosen

(* Nobody comes to reach a modset, or to write it, but through a request   *)
(* of an administrator or its owner (test_groups_api.py:59, 214).          *)
ManagerGives ==
    \A u \in Users, s \in Modsets, p \in Permissions :
       Reaches(u, s, {"write", p})' /\ ~Reaches(u, s, {"write", p})
       => \E r \in Requests : req[r] # Idle /\ req'[r] = Idle /\ Manages(req[r].actor, s)

OnlyManagersShare == [][ManagerGives]_vars
=============================================================================
