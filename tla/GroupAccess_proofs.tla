------------------------- MODULE GroupAccess_proofs -------------------------
(***************************************************************************)
(* Proofs about GroupAccess, for any accounts, groups, modsets, grants and *)
(* requests.                                                               *)
(*                                                                         *)
(* AsChosen rests on what a request that has not been crossed knows: the   *)
(* rows of its scope, less those it removes, with those it inserts are the *)
(* ones asked for.                                                         *)
(***************************************************************************)
EXTENDS GroupAccess, TLAPS

LEMMA Disjoint == \A a \in Memberships : a \notin Grants
  <1> SUFFICES ASSUME NEW a \in Memberships, a \in Grants PROVE FALSE
    OBVIOUS
  <1>1. DOMAIN a = {"group", "user"}
    BY DEF Memberships
  <1>2. "modset" \in DOMAIN a
    BY DEF Grants
  <1> QED
    BY <1>1, <1>2

LEMMA RowTypes == \A a \in Rows : a.group \in Groups
  BY DEF Rows, Memberships, Grants

(* A request works on rows of its scope, for somebody who may ask for them. *)
Formed(q) == /\ \A a \in q.asked \cup q.seen \cup q.removed : InScope(a, q)
             /\ q.op \in Saving \cup {"groups"} => q.actor \in Admins
             /\ q.op \in Saving => q.of \in Groups
             /\ q.op = "share" => Manages(q.actor, q.of) /\ q.step = "deleted"
             /\ q.op = "groups" => q.step = "deleted"
             /\ q.step = "loaded" => q.op \in Saving
             /\ Keyed(q.asked)

TypeInv == TypeOK /\ \A r \in Requests : Formed(req[r])

LEMMA IdleTypes == Idle \in Serving /\ Formed(Idle)
  BY DEF Idle, Serving, Formed, Saving, Keyed

LEMMA KeyedMembers == \A rows \in SUBSET Memberships : Keyed(rows)
  BY Disjoint DEF Keyed, SameKey

LEMMA ServeForm ==
    ASSUME TypeInv, NEW r \in Requests, NEW q \in Serving, Formed(q),
           req' = [req EXCEPT ![r] = q], UNCHANGED <<group, member, grant, chosen>>
    PROVE  TypeInv'
  <1>1. req' \in [Requests -> Serving] /\ \A o \in Requests : Formed(req'[o])
    BY DEF TypeInv, TypeOK
  <1>2. Live' = Live
    BY DEF Live
  <1> QED
    BY <1>1, <1>2 DEF TypeInv, TypeOK, Formed, Referring

(* What a change does to the requests it does not complete. *)
Crossed(q, rem, b) == [q EXCEPT !.removed = rem, !.crossed = b]

LEMMA OtherTypes ==
    ASSUME NEW q \in Serving, Formed(q), NEW rem, rem \subseteq q.removed,
           NEW b, b \in BOOLEAN, NEW p, p = Crossed(q, rem, b)
    PROVE  /\ p \in Serving /\ Formed(p)
           /\ p.op = q.op /\ p.step = q.step /\ p.of = q.of /\ p.asked = q.asked
           /\ p.seen = q.seen /\ p.removed = rem /\ p.crossed = b
           /\ \A a : InScope(a, p) <=> InScope(a, q)
  <1>1. p \in Serving
    BY DEF Serving, Crossed
  <1>2. /\ p.op = q.op /\ p.step = q.step /\ p.of = q.of /\ p.asked = q.asked
        /\ p.seen = q.seen /\ p.removed = rem /\ p.crossed = b /\ p.actor = q.actor
    BY DEF Serving, Crossed
  <1>3. \A a : InScope(a, p) <=> InScope(a, q)
    BY <1>2 DEF InScope
  <1>4. Formed(p)
    BY <1>2, <1>3 DEF Formed
  <1> QED
    BY <1>1, <1>2, <1>3, <1>4

LEMMA CrossingTypes ==
    ASSUME TypeInv, NEW r \in Requests, NEW gone, NEW new, Crossing(r, gone, new)
    PROVE  req' \in [Requests -> Serving] /\ \A o \in Requests : Formed(req'[o])
  <1>1. ASSUME NEW o \in Requests, o # r PROVE req'[o] \in Serving /\ Formed(req'[o])
    <2>1. PICK q \in Serving : q = req[o] /\ Formed(q)
      BY DEF TypeInv, TypeOK
    <2>2. PICK rem : rem = {a \in req[o].removed : ~\E c \in new : SameKey(a, c)}
      OBVIOUS
    <2>3. PICK b : b = (req[o].crossed \/ \E a \in gone \cup new : InScope(a, req[o]))
      OBVIOUS
    <2>4. req'[o] = Crossed(q, rem, b)
      BY <1>1, <2>1, <2>2, <2>3 DEF Crossing, Crossed
    <2>5. rem \subseteq q.removed
      BY <2>1, <2>2
    <2>6. b \in BOOLEAN
      BY <2>3
    <2> QED
      BY <2>1, <2>4, <2>5, <2>6, OtherTypes
  <1>2. req'[r] = Idle /\ req' = [o \in Requests |-> req'[o]]
    BY DEF Crossing
  <1> QED
    BY <1>1, <1>2, IdleTypes

LEMMA InsertsScope == \A q \in Serving : Formed(q) => /\ Inserts(q) \subseteq q.asked
                                                      /\ Keyed(Inserts(q))
  <1> SUFFICES ASSUME NEW q \in Serving, Keyed(q.asked)
               PROVE  Inserts(q) \subseteq q.asked /\ Keyed(Inserts(q))
    BY DEF Formed
  <1>1. Inserts(q) \subseteq q.asked
    BY DEF Inserts
  <1>2. \A a, b \in q.asked : SameKey(a, b) => a = b
    BY DEF Keyed
  <1>3. \A a, b \in Inserts(q) : SameKey(a, b) => a = b
    BY <1>1, <1>2
  <1> QED
    BY <1>1, <1>3 DEF Keyed

(* Rows of the scope of a request lie in its table. *)
LEMMA ScopeTables ==
    ASSUME NEW q \in Serving, NEW a, InScope(a, q)
    PROVE  /\ q.op = "share" => a \in Grants
           /\ q.op # "share" => a \in Memberships
  <1>1. CASE q.op = "share"
    BY <1>1 DEF InScope, Saving
  <1>2. CASE q.op \in Saving
    BY <1>2 DEF InScope, Saving
  <1>3. CASE q.op = "groups"
    BY <1>3 DEF InScope, Saving
  <1>4. CASE q.op \notin Saving \cup {"share", "groups"}
    BY <1>4 DEF InScope
  <1> QED
    BY <1>1, <1>2, <1>3, <1>4

LEMMA AskTypes ==
    ASSUME TypeInv, NEW r \in Requests, NEW q, Serve(r, q), q \in Serving, Formed(q)
    PROVE  TypeInv'
  BY ServeForm DEF Serve

LEMMA ShareTypes ==
    ASSUME TypeInv, NEW r \in Requests, NEW u \in Users, NEW s \in Modsets,
           NEW entries \in Shares, Share(r, u, s, entries)
    PROVE  \E q \in Serving : /\ Serve(r, q) /\ Formed(q) /\ q.op = "share" /\ q.of = s
                              /\ q.step = "deleted" /\ q.seen = {} /\ q.removed = Scope("share", s)
  <1>1. PICK asked : asked = {[modset |-> s, group |-> e.group,
                               permission |-> e.permission] : e \in entries}
    OBVIOUS
  <1>2. PICK removed : removed = Scope("share", s)
    OBVIOUS
  <1>3. PICK q : q = [Idle EXCEPT !.op = "share", !.step = "deleted", !.actor = u, !.of = s,
                                  !.asked = asked, !.removed = removed]
    OBVIOUS
  <1>4. /\ q.op = "share" /\ q.step = "deleted" /\ q.actor = u /\ q.of = s /\ q.asked = asked
        /\ q.removed = removed /\ q.seen = {}
        /\ q = [op |-> "share", step |-> "deleted", actor |-> u, of |-> s, asked |-> asked,
                seen |-> {}, removed |-> removed, crossed |-> FALSE]
    BY <1>3 DEF Idle
  <1>5. asked \subseteq Grants /\ \A a \in asked : a.modset = s
    BY <1>1, GroupAccessOK DEF GroupPermission, Grants
  <1>6. Keyed(asked)
    <2>1. ASSUME NEW a \in asked, NEW b \in asked, SameKey(a, b) PROVE a = b
      <3>1. PICK e \in entries : a = [modset |-> s, group |-> e.group, permission |-> e.permission]
        BY <1>1
      <3>2. PICK f \in entries : b = [modset |-> s, group |-> f.group, permission |-> f.permission]
        BY <1>1
      <3>3. a.group = b.group
        BY <1>5, <2>1 DEF SameKey
      <3>4. e = f
        BY <3>1, <3>2, <3>3 DEF Share
      <3> QED
        BY <3>1, <3>2, <3>4
    <2> QED
      BY <2>1 DEF Keyed
  <1>7. removed \subseteq Grants /\ \A a \in removed : a.modset = s
    BY <1>2 DEF Scope, TypeInv, TypeOK
  <1>8. q \in Serving
    BY <1>4, <1>5, <1>7 DEF Serving, Rows
  <1>9. Formed(q)
    BY <1>4, <1>5, <1>6, <1>7 DEF Formed, Share, MayShare, InScope, Saving
  <1>10. Serve(r, q)
    BY <1>1, <1>2, <1>3 DEF Share
  <1> QED
    BY <1>2, <1>4, <1>8, <1>9, <1>10

LEMMA AssignTypes ==
    ASSUME TypeInv, NEW r \in Requests, NEW a \in Users, NEW u \in Members,
           NEW groups \in SUBSET Groups, AssignGroups(r, a, u, groups)
    PROVE  \E q \in Serving : /\ Serve(r, q) /\ Formed(q) /\ q.op = "groups" /\ q.of = u
                              /\ q.step = "deleted" /\ q.seen = {} /\ q.removed = Scope("groups", u)
  <1>1. PICK asked : asked = {[group |-> g, user |-> u] : g \in groups}
    OBVIOUS
  <1>2. PICK removed : removed = Scope("groups", u)
    OBVIOUS
  <1>3. PICK q : q = [Idle EXCEPT !.op = "groups", !.step = "deleted", !.actor = a, !.of = u,
                                  !.asked = asked, !.removed = removed]
    OBVIOUS
  <1>4. /\ q.op = "groups" /\ q.step = "deleted" /\ q.actor = a /\ q.of = u /\ q.asked = asked
        /\ q.removed = removed /\ q.seen = {}
        /\ q = [op |-> "groups", step |-> "deleted", actor |-> a, of |-> u, asked |-> asked,
                seen |-> {}, removed |-> removed, crossed |-> FALSE]
    BY <1>3 DEF Idle
  <1>5. asked \subseteq Memberships /\ \A b \in asked : b.user = u
    BY <1>1, GroupAccessOK DEF Memberships
  <1>6. removed \subseteq Memberships /\ \A b \in removed : b.user = u
    BY <1>2 DEF Scope, TypeInv, TypeOK
  <1>7. q \in Serving
    BY <1>4, <1>5, <1>6, GroupAccessOK DEF Serving, Rows
  <1>8. Formed(q)
    BY <1>4, <1>5, <1>6, KeyedMembers DEF Formed, AssignGroups, InScope, Saving
  <1>9. Serve(r, q)
    BY <1>1, <1>2, <1>3 DEF AssignGroups
  <1> QED
    BY <1>2, <1>4, <1>7, <1>8, <1>9

LEMMA SaveTypes ==
    ASSUME TypeInv, NEW r \in Requests, NEW a \in Users, NEW g \in Groups,
           NEW users \in SUBSET Members, SaveGroup(r, a, g, users)
    PROVE  \E q \in Serving : /\ Serve(r, q) /\ Formed(q) /\ q.op \in Saving /\ q.of = g
                              /\ q.step = "loaded" /\ q.seen = Scope("roster", g)
  <1>1. PICK asked : asked = {[group |-> g, user |-> u] : u \in users}
    OBVIOUS
  <1>2. PICK seen : seen = Scope("roster", g)
    OBVIOUS
  <1>3. PICK op \in Saving : op = IF group[g] = "absent" THEN "create" ELSE "roster"
    BY DEF Saving
  <1>4. PICK q : q = [Idle EXCEPT !.op = op, !.step = "loaded", !.actor = a, !.of = g,
                                  !.asked = asked, !.seen = seen]
    OBVIOUS
  <1>5. /\ q.op = op /\ q.step = "loaded" /\ q.actor = a /\ q.of = g /\ q.asked = asked
        /\ q.removed = {} /\ q.seen = seen
        /\ q = [op |-> op, step |-> "loaded", actor |-> a, of |-> g, asked |-> asked,
                seen |-> seen, removed |-> {}, crossed |-> FALSE]
    BY <1>4 DEF Idle
  <1>6. asked \subseteq Memberships /\ \A b \in asked : b.group = g
    BY <1>1, GroupAccessOK DEF Memberships
  <1>7. seen \subseteq Memberships /\ \A b \in seen : b.group = g
    BY <1>2 DEF Scope, TypeInv, TypeOK
  <1>8. q \in Serving
    BY <1>3, <1>5, <1>6, <1>7 DEF Serving, Rows, Saving
  <1>9. Formed(q)
    BY <1>3, <1>5, <1>6, <1>7, KeyedMembers DEF Formed, SaveGroup, InScope, Saving
  <1>10. Serve(r, q)
    BY <1>1, <1>2, <1>3, <1>4 DEF SaveGroup
  <1> QED
    BY <1>2, <1>3, <1>5, <1>8, <1>9, <1>10

LEMMA FlushTypes ==
    ASSUME TypeInv, NEW r \in Requests, Flush(r)
    PROVE  \E q \in Serving : /\ req' = [req EXCEPT ![r] = q] /\ Formed(q)
                              /\ q.op \in Saving /\ q.step = "deleted"
                              /\ q.op = req[r].op /\ q.of = req[r].of /\ q.asked = req[r].asked
                              /\ q.seen = req[r].seen /\ q.crossed = req[r].crossed
                              /\ q.removed = (q.seen \ q.asked) \cap member
  <1>1. PICK old \in Serving : old = req[r] /\ Formed(old)
    BY DEF TypeInv, TypeOK
  <1>2. PICK removed : removed = (old.seen \ old.asked) \cap member
    OBVIOUS
  <1>3. PICK q : q = [old EXCEPT !.step = "deleted", !.removed = removed]
    OBVIOUS
  <1>4. removed \subseteq Rows
    BY <1>2 DEF Serving
  <1>5. q \in Serving
    BY <1>3, <1>4 DEF Serving
  <1>6. /\ q.op = old.op /\ q.of = old.of /\ q.asked = old.asked /\ q.actor = old.actor
        /\ q.seen = old.seen /\ q.crossed = old.crossed /\ q.step = "deleted" /\ q.removed = removed
    BY <1>3 DEF Serving
  <1>7. old.op \in Saving
    BY <1>1 DEF Flush, Formed
  <1>8. Formed(q)
    BY <1>1, <1>2, <1>6, <1>7 DEF Formed, InScope, Saving
  <1>9. req' = [req EXCEPT ![r] = q]
    BY <1>1, <1>2, <1>3 DEF Flush, TypeInv, TypeOK
  <1> QED
    BY <1>1, <1>2, <1>5, <1>6, <1>7, <1>8, <1>9
-----------------------------------------------------------------------------
LEMMA CommitShareTypes == ASSUME TypeInv, NEW r \in Requests, CommitShare(r) PROVE TypeInv'
  <1>1. PICK q \in Serving : q = req[r] /\ Formed(q)
    BY DEF TypeInv, TypeOK
  <1>2. /\ q.op = "share" /\ grant' = Stored(grant, q) /\ chosen' = Chosen(q, grant')
        /\ Crossing(r, q.removed, Inserts(q)) /\ UNCHANGED <<group, member>>
        /\ \A a \in grant \ q.removed, b \in Inserts(q) : ~SameKey(a, b)
        /\ Referring(Inserts(q))
    BY <1>1 DEF CommitShare
  <1>3. Inserts(q) \subseteq q.asked /\ Inserts(q) \subseteq Grants /\ q.asked \subseteq Rows
    BY <1>1, <1>2, InsertsScope, ScopeTables DEF Formed, Serving
  <1>4. grant' \subseteq Grants
    BY <1>2, <1>3 DEF Stored, TypeInv, TypeOK
  <1>5. chosen' \subseteq Rows
    BY <1>2, <1>3, <1>4 DEF Chosen, TypeInv, TypeOK, Rows
  <1>6. Keyed(grant')
    <2>1. Keyed(Inserts(q)) /\ Keyed(grant)
      BY <1>1, InsertsScope DEF TypeInv, TypeOK
    <2>2. \A a, b \in grant' : SameKey(a, b) <=> SameKey(b, a)
      BY <1>4 DEF SameKey
    <2> QED
      BY <1>2, <2>1, <2>2 DEF Stored, Keyed
  <1>7. Live' = Live
    BY <1>2 DEF Live
  <1>8. \A a \in grant' : a.group \in Live
    BY <1>2 DEF Stored, TypeInv, TypeOK, Referring
  <1>9. req' \in [Requests -> Serving] /\ \A o \in Requests : Formed(req'[o])
    BY <1>2, CrossingTypes
  <1> QED
    BY <1>2, <1>4, <1>5, <1>6, <1>7, <1>8, <1>9 DEF TypeInv, TypeOK, Referring, Keyed, Formed

LEMMA CommitMembersTypes == ASSUME TypeInv, NEW r \in Requests, CommitMembers(r) PROVE TypeInv'
  <1>1. PICK q \in Serving : q = req[r] /\ Formed(q)
    BY DEF TypeInv, TypeOK
  <1>2. /\ q.op \in Saving \cup {"groups"} /\ q.step = "deleted"
        /\ member' = Stored(member, q) /\ chosen' = Chosen(q, member')
        /\ group' = IF q.op = "create" THEN [group EXCEPT ![q.of] = "live"] ELSE group
        /\ q.op = "create" => group[q.of] = "absent"
        /\ \A a \in Inserts(q) : a.group \in Live'
        /\ Crossing(r, q.removed, Inserts(q)) /\ UNCHANGED grant
    BY <1>1 DEF CommitMembers, Saving
  <1>3. Inserts(q) \subseteq q.asked /\ Inserts(q) \subseteq Memberships /\ q.asked \subseteq Rows
    BY <1>1, <1>2, InsertsScope, ScopeTables DEF Formed, Serving, Saving
  <1>4. member' \subseteq Memberships
    BY <1>2, <1>3 DEF Stored, TypeInv, TypeOK
  <1>5. chosen' \subseteq Rows
    BY <1>2, <1>3, <1>4 DEF Chosen, TypeInv, TypeOK, Rows
  <1>6. Live \subseteq Live' /\ group' \in [Groups -> {"absent", "live", "deleted"}]
    BY <1>2 DEF Live, TypeInv, TypeOK
  <1>7. Referring(grant)' /\ Referring(member)'
    BY <1>2, <1>6 DEF Stored, TypeInv, TypeOK, Referring
  <1>8. Keyed(member') /\ Keyed(grant')
    BY <1>2, <1>4, KeyedMembers DEF TypeInv, TypeOK
  <1>9. req' \in [Requests -> Serving] /\ \A o \in Requests : Formed(req'[o])
    BY <1>2, CrossingTypes
  <1> QED
    BY <1>2, <1>4, <1>5, <1>6, <1>7, <1>8, <1>9 DEF TypeInv, TypeOK, Keyed, Formed

LEMMA DeleteGroupTypes == ASSUME TypeInv, NEW g \in Groups, DeleteGroup(g) PROVE TypeInv'
  <1>1. /\ group' = [group EXCEPT ![g] = "deleted"] /\ member' = member \ Gone(g)
        /\ grant' = grant \ Gone(g) /\ chosen' = {a \in chosen : a.group # g}
        /\ \A o \in Requests : req'[o] = [req[o] EXCEPT !.crossed =
                                            req[o].crossed \/ \E a \in Gone(g) : InScope(a, req[o])]
        /\ req' = [o \in Requests |-> req'[o]]
    BY DEF DeleteGroup
  <1>2. Live' = Live \ {g} /\ group' \in [Groups -> {"absent", "live", "deleted"}]
    BY <1>1 DEF Live, TypeInv, TypeOK
  <1>3. Referring(member)' /\ Referring(grant)'
    BY <1>1, <1>2 DEF Gone, Referring, TypeInv, TypeOK
  <1>4. Keyed(member') /\ Keyed(grant')
    BY <1>1 DEF Keyed, TypeInv, TypeOK
  <1>5. ASSUME NEW o \in Requests PROVE req'[o] \in Serving /\ Formed(req'[o])
    <2>1. PICK q \in Serving : q = req[o] /\ Formed(q)
      BY DEF TypeInv, TypeOK
    <2>2. PICK b : b = (req[o].crossed \/ \E a \in Gone(g) : InScope(a, req[o]))
      OBVIOUS
    <2>3. b \in BOOLEAN
      BY <2>2
    <2>4. req'[o] = [q EXCEPT !.crossed = b]
      BY <1>1, <2>1, <2>2
    <2>5. q = [q EXCEPT !.removed = q.removed]
      BY DEF Serving
    <2>6. req'[o] = Crossed(q, q.removed, b)
      BY <2>4, <2>5 DEF Crossed
    <2> QED
      BY <2>1, <2>3, <2>6, OtherTypes
  <1> QED
    BY <1>1, <1>2, <1>3, <1>4, <1>5 DEF TypeInv, TypeOK, Keyed, Formed

LEMMA InitTypes == Init => TypeInv
  BY IdleTypes DEF Init, TypeInv, TypeOK, Keyed, Referring

LEMMA TypesStay == TypeInv /\ [Next]_vars => TypeInv'
  <1> SUFFICES ASSUME TypeInv, [Next]_vars PROVE TypeInv'
    OBVIOUS
  <1>1. ASSUME NEW r \in Requests, Step(r) PROVE TypeInv'
    <2>1. CASE Abort(r)
      BY <2>1, IdleTypes, ServeForm DEF Abort
    <2>2. CASE Flush(r)
      BY <2>2, FlushTypes, ServeForm DEF Flush
    <2>3. CASE CommitShare(r) \/ CommitMembers(r)
      BY <2>3, CommitShareTypes, CommitMembersTypes
    <2>4. ASSUME NEW u \in Users, NEW s \in Modsets, NEW entries \in Shares,
                 Share(r, u, s, entries)
          PROVE  TypeInv'
      BY <2>4, ShareTypes, AskTypes
    <2>5. ASSUME NEW a \in Users, NEW u \in Members, NEW groups \in SUBSET Groups,
                 AssignGroups(r, a, u, groups)
          PROVE  TypeInv'
      BY <2>5, AssignTypes, AskTypes
    <2>6. ASSUME NEW a \in Users, NEW g \in Groups, NEW users \in SUBSET Members,
                 SaveGroup(r, a, g, users)
          PROVE  TypeInv'
      BY <2>6, SaveTypes, AskTypes
    <2> QED
      BY <1>1, <2>1, <2>2, <2>3, <2>4, <2>5, <2>6 DEF Step
  <1>2. ASSUME NEW g \in Groups, DeleteGroup(g) PROVE TypeInv'
    BY <1>2, DeleteGroupTypes
  <1>3. CASE UNCHANGED vars
    BY <1>3 DEF vars, TypeInv, TypeOK, Keyed, Referring, Live, Formed
  <1> QED
    BY <1>1, <1>2, <1>3 DEF Next

(* The rows of both tables keep their keys and refer to live groups, and   *)
(* requests are well-formed.                                               *)
THEOREM TypeCorrect == Spec => []TypeOK
  <1>1. TypeInv => TypeOK
    BY DEF TypeInv
  <1> QED
    BY <1>1, InitTypes, TypesStay, PTL DEF Spec
-----------------------------------------------------------------------------
(* What a request that has not been crossed knows of the rows of its scope. *)
Here(rows, q) == {a \in rows : InScope(a, q)}

Knows(rows, q) ==
    q.op # "none" /\ ~q.crossed =>
       /\ q.step = "loaded" => q.seen = Here(rows, q)
       /\ q.step = "deleted" => (Here(rows, q) \ q.removed) \cup Inserts(q) = q.asked

Whole == \A r \in Requests : Knows(member \cup grant, req[r])

IInv == TypeInv /\ Whole /\ AsChosen

Touches(q, gone, new) == \E a \in gone \cup new : InScope(a, q)
Left(removed, new) == {a \in removed : ~\E c \in new : SameKey(a, c)}

(* The rows become other ones, and the requests with rows among gone and   *)
(* new in their scope are crossed.                                         *)
LEMMA OtherKnows ==
    ASSUME NEW q \in Serving, Formed(q), NEW rows, NEW rows2, NEW gone, NEW new \in SUBSET Rows,
           rows2 = (rows \ gone) \cup new, Knows(rows, q),
           NEW rem, rem = q.removed \/ rem = Left(q.removed, new),
           NEW b, b \in BOOLEAN, ~b => ~q.crossed /\ ~Touches(q, gone, new),
           NEW p, p = Crossed(q, rem, b)
    PROVE  Knows(rows2, p)
  <1>0. rem \subseteq q.removed
    BY DEF Left
  <1>1. CASE b
    <2>1. p.crossed = b
      BY <1>0, OtherTypes
    <2> QED
      BY <1>1, <2>1 DEF Knows
  <1>2. CASE ~b
    <2>1. Here(rows2, q) = Here(rows, q)
      BY <1>2 DEF Here, Touches
    <2>2. ASSUME NEW a \in q.removed, NEW c \in new, SameKey(a, c) PROVE InScope(c, q)
      <3>1. InScope(a, q)
        BY DEF Formed
      <3> QED
        BY <2>2, <3>1, Disjoint DEF InScope, SameKey, Saving
    <2>3. rem = q.removed
      <3>1. \A a \in q.removed : ~\E c \in new : SameKey(a, c)
        <4>1. \A c \in new : ~InScope(c, q)
          BY <1>2 DEF Touches
        <4> QED
          BY <2>2, <4>1
      <3>2. Left(q.removed, new) = q.removed
        BY <3>1 DEF Left
      <3> QED
        BY <3>2
    <2>4. /\ p.op = q.op /\ p.step = q.step /\ p.of = q.of /\ p.asked = q.asked
          /\ p.seen = q.seen /\ p.removed = q.removed
          /\ \A a : InScope(a, p) <=> InScope(a, q)
      BY <2>3, OtherTypes
    <2>5. Here(rows2, p) = Here(rows, q) /\ Inserts(p) = Inserts(q)
      BY <2>1, <2>4 DEF Here, Inserts
    <2> QED
      BY <1>2, <2>4, <2>5 DEF Knows
  <1> QED
    BY <1>1, <1>2

LEMMA IdleKnows == \A rows : Knows(rows, Idle)
  BY DEF Knows, Idle

LEMMA CrossingKnows ==
    ASSUME IInv, NEW r \in Requests, NEW gone, NEW new \in SUBSET Rows, Crossing(r, gone, new),
           (member \cup grant)' = ((member \cup grant) \ gone) \cup new
    PROVE  Whole'
  <1>1. PICK rows : rows = member \cup grant
    OBVIOUS
  <1>2. PICK rows2 : rows2 = (member \cup grant)'
    OBVIOUS
  <1>3. ASSUME NEW o \in Requests, o # r PROVE Knows(rows2, req'[o])
    <2>1. PICK q \in Serving : q = req[o] /\ Formed(q) /\ Knows(rows, q)
      BY <1>1 DEF IInv, TypeInv, TypeOK, Whole
    <2>2. PICK rem : rem = {a \in req[o].removed : ~\E c \in new : SameKey(a, c)}
      OBVIOUS
    <2>3. PICK b : b = (req[o].crossed \/ \E a \in gone \cup new : InScope(a, req[o]))
      OBVIOUS
    <2>4. req'[o] = Crossed(q, rem, b)
      BY <1>3, <2>1, <2>2, <2>3 DEF Crossing, Crossed
    <2>5. rem = Left(q.removed, new)
      BY <2>1, <2>2 DEF Left
    <2>6. b \in BOOLEAN /\ (~b => ~q.crossed /\ ~Touches(q, gone, new))
      BY <2>1, <2>3 DEF Touches
    <2>7. rows2 = (rows \ gone) \cup new
      BY <1>1, <1>2
    <2> QED
      BY <2>1, <2>4, <2>5, <2>6, <2>7, OtherKnows
  <1>4. req'[r] = Idle
    BY DEF Crossing
  <1> QED
    BY <1>2, <1>3, <1>4, IdleKnows DEF Whole, Knows, Here, InScope, Inserts

LEMMA AloneKnows ==
    ASSUME IInv, NEW r \in Requests, NEW q \in Serving, Knows(member \cup grant, q),
           req' = [req EXCEPT ![r] = q], UNCHANGED <<group, member, grant, chosen>>
    PROVE  Whole' /\ AsChosen'
  <1>1. \A o \in Requests : Knows(member \cup grant, req'[o])
    BY DEF IInv, TypeInv, TypeOK, Whole
  <1>2. AsChosen'
    BY DEF IInv, AsChosen
  <1>3. (member \cup grant)' = member \cup grant
    OBVIOUS
  <1> QED
    BY <1>1, <1>2, <1>3 DEF Whole, Knows, Here, InScope, Inserts

(* A commit makes the rows of its scope those asked for, or those it made  *)
(* of them when it has been crossed.                                       *)
LEMMA CommitChosen ==
    ASSUME IInv, TypeInv', NEW r \in Requests, NEW q \in Serving, q = req[r], Formed(q),
           q.op # "none", q.step = "deleted", Crossing(r, q.removed, Inserts(q)),
           IF q.op = "share" THEN grant' = Stored(grant, q) /\ member' = member
                                  /\ chosen' = Chosen(q, grant')
           ELSE member' = Stored(member, q) /\ grant' = grant /\ chosen' = Chosen(q, member')
    PROVE  Whole' /\ AsChosen'
  <1>1. Inserts(q) \subseteq q.asked /\ q.asked \subseteq Rows
    BY InsertsScope DEF Serving
  <1>2. \A a \in q.asked \cup q.removed : InScope(a, q)
    BY DEF Formed
  <1>3. (member \cup grant)' = ((member \cup grant) \ q.removed) \cup Inserts(q)
    <2>1. CASE q.op = "share"
      <3>1. q.removed \cap member = {}
        BY <1>2, <2>1, ScopeTables, Disjoint DEF IInv, TypeInv, TypeOK
      <3> QED
        BY <2>1, <3>1 DEF Stored
    <2>2. CASE q.op # "share"
      <3>1. q.removed \cap grant = {}
        BY <1>2, <2>2, ScopeTables, Disjoint DEF IInv, TypeInv, TypeOK
      <3> QED
        BY <2>2, <3>1 DEF Stored
    <2> QED
      BY <2>1, <2>2
  <1>4. Whole'
    BY <1>1, <1>3, CrossingKnows
  <1>5. PICK here : here = Here(member \cup grant, q)
    OBVIOUS
  <1>6. chosen' = ((member \cup grant) \ here) \cup
                  IF q.crossed THEN (here \ q.removed) \cup Inserts(q) ELSE q.asked
    <2>1. {a \in chosen : ~InScope(a, q)} = (member \cup grant) \ here
      BY <1>5 DEF Here, IInv, AsChosen
    <2>2. CASE q.op = "share"
      <3>1. {a \in grant' : InScope(a, q)} = (here \ q.removed) \cup Inserts(q)
        <4>1. \A a \in member : ~InScope(a, q)
          BY <2>2, ScopeTables, Disjoint DEF IInv, TypeInv, TypeOK
        <4>2. grant' = (grant \ q.removed) \cup Inserts(q)
          BY <2>2 DEF Stored
        <4>3. \A a \in Inserts(q) : InScope(a, q)
          BY <1>1, <1>2
        <4> QED
          BY <1>5, <4>1, <4>2, <4>3 DEF Here
      <3> QED
        BY <2>1, <2>2, <3>1 DEF Chosen
    <2>3. CASE q.op # "share"
      <3>1. {a \in member' : InScope(a, q)} = (here \ q.removed) \cup Inserts(q)
        <4>1. \A a \in grant : ~InScope(a, q)
          BY <2>3, ScopeTables, Disjoint DEF IInv, TypeInv, TypeOK
        <4>2. member' = (member \ q.removed) \cup Inserts(q)
          BY <2>3 DEF Stored
        <4>3. \A a \in Inserts(q) : InScope(a, q)
          BY <1>1, <1>2
        <4> QED
          BY <1>5, <4>1, <4>2, <4>3 DEF Here
      <3> QED
        BY <2>1, <2>3, <3>1 DEF Chosen
    <2> QED
      BY <2>2, <2>3
  <1>7. ~q.crossed => (here \ q.removed) \cup Inserts(q) = q.asked
    BY <1>5 DEF IInv, Whole, Knows
  <1>8. here \subseteq member \cup grant /\ q.removed \cap ((member \cup grant) \ here) = {}
    BY <1>2, <1>5 DEF Here
  <1>9. AsChosen'
    BY <1>3, <1>6, <1>7, <1>8 DEF AsChosen
  <1> QED
    BY <1>4, <1>9

LEMMA DeleteGroupKnows ==
    ASSUME IInv, TypeInv', NEW g \in Groups, DeleteGroup(g) PROVE Whole' /\ AsChosen'
  <1>1. PICK rows : rows = member \cup grant
    OBVIOUS
  <1>2. PICK rows2 : rows2 = (member \cup grant)'
    OBVIOUS
  <1>3. rows2 = (rows \ Gone(g)) \cup {} /\ {} \in SUBSET Rows
    BY <1>1, <1>2 DEF DeleteGroup
  <1>4. ASSUME NEW o \in Requests PROVE Knows(rows2, req'[o])
    <2>1. PICK q \in Serving : q = req[o] /\ Formed(q) /\ Knows(rows, q)
      BY <1>1 DEF IInv, TypeInv, TypeOK, Whole
    <2>2. PICK b : b = (req[o].crossed \/ \E a \in Gone(g) : InScope(a, req[o]))
      OBVIOUS
    <2>3. b \in BOOLEAN /\ (~b => ~q.crossed /\ ~Touches(q, Gone(g), {}))
      BY <2>1, <2>2 DEF Touches
    <2>4. req'[o] = [q EXCEPT !.crossed = b]
      BY <2>1, <2>2 DEF DeleteGroup
    <2>5. q = [q EXCEPT !.removed = q.removed]
      BY DEF Serving
    <2>6. req'[o] = Crossed(q, q.removed, b)
      BY <2>4, <2>5 DEF Crossed
    <2> QED
      BY <1>3, <2>1, <2>3, <2>6, OtherKnows
  <1>5. Whole'
    BY <1>2, <1>4 DEF Whole, Knows, Here, InScope, Inserts
  <1>6. AsChosen'
    BY DEF DeleteGroup, Gone, IInv, AsChosen
  <1> QED
    BY <1>5, <1>6

LEMMA StepKnows ==
    ASSUME IInv, TypeInv', NEW r \in Requests, Step(r) PROVE Whole' /\ AsChosen'
  <1> USE DEF Saving
  <1>1. CASE Abort(r)
    BY <1>1, IdleTypes, IdleKnows, AloneKnows DEF Abort
  <1>2. CASE Flush(r)
    <2>1. PICK q \in Serving : /\ req' = [req EXCEPT ![r] = q] /\ Formed(q)
                               /\ q.op \in Saving /\ q.step = "deleted"
                               /\ q.op = req[r].op /\ q.of = req[r].of /\ q.asked = req[r].asked
                               /\ q.seen = req[r].seen /\ q.crossed = req[r].crossed
                               /\ q.removed = (q.seen \ q.asked) \cap member
      BY <1>2, FlushTypes DEF IInv
    <2>2. Here(member \cup grant, q) = Here(member \cup grant, req[r])
      BY <2>1 DEF Here, InScope
    <2>3. ~q.crossed => q.seen = Here(member \cup grant, q)
      BY <1>2, <2>1, <2>2 DEF IInv, Whole, Knows, Flush
    <2>4. \A a \in q.seen : a \in Memberships
      <3>1. \A a \in q.seen : InScope(a, q)
        BY <2>1 DEF Formed
      <3> QED
        BY <2>1, <3>1, ScopeTables
    <2>5. ~q.crossed => q.seen \subseteq member
      BY <2>3, <2>4, Disjoint DEF Here, IInv, TypeInv, TypeOK
    <2>6. Knows(member \cup grant, q)
      BY <2>1, <2>3, <2>5 DEF Knows, Inserts
    <2> QED
      BY <1>2, <2>1, <2>6, AloneKnows DEF Flush
  <1>3. CASE CommitShare(r)
    <2>1. PICK q \in Serving : q = req[r] /\ Formed(q)
      BY DEF IInv, TypeInv, TypeOK
    <2>2. /\ q.op = "share" /\ grant' = Stored(grant, q) /\ chosen' = Chosen(q, grant')
          /\ Crossing(r, q.removed, Inserts(q)) /\ member' = member
      BY <1>3, <2>1 DEF CommitShare
    <2> QED
      BY <2>1, <2>2, CommitChosen DEF Formed
  <1>4. CASE CommitMembers(r)
    <2>1. PICK q \in Serving : q = req[r] /\ Formed(q)
      BY DEF IInv, TypeInv, TypeOK
    <2>2. /\ q.op # "share" /\ q.op # "none" /\ q.step = "deleted"
          /\ member' = Stored(member, q) /\ chosen' = Chosen(q, member')
          /\ Crossing(r, q.removed, Inserts(q)) /\ grant' = grant
      BY <1>4, <2>1 DEF CommitMembers
    <2> QED
      BY <2>1, <2>2, CommitChosen
  <1>5. ASSUME NEW u \in Users, NEW s \in Modsets, NEW entries \in Shares, Share(r, u, s, entries)
        PROVE  Whole' /\ AsChosen'
    <2>1. PICK q \in Serving : /\ Serve(r, q) /\ Formed(q) /\ q.op = "share" /\ q.of = s
                               /\ q.step = "deleted" /\ q.seen = {} /\ q.removed = Scope("share", s)
      BY <1>5, ShareTypes DEF IInv
    <2>2. Here(member \cup grant, q) = q.removed
      BY <2>1, Disjoint DEF Here, InScope, Scope, IInv, TypeInv, TypeOK
    <2>3. Knows(member \cup grant, q)
      BY <2>1, <2>2 DEF Knows, Inserts
    <2> QED
      BY <2>1, <2>3, AloneKnows DEF Serve
  <1>6. ASSUME NEW a \in Users, NEW u \in Members, NEW groups \in SUBSET Groups,
               AssignGroups(r, a, u, groups)
        PROVE  Whole' /\ AsChosen'
    <2>1. PICK q \in Serving : /\ Serve(r, q) /\ Formed(q) /\ q.op = "groups" /\ q.of = u
                               /\ q.step = "deleted" /\ q.seen = {} /\ q.removed = Scope("groups", u)
      BY <1>6, AssignTypes DEF IInv
    <2>2. Here(member \cup grant, q) = q.removed
      BY <2>1, Disjoint DEF Here, InScope, Scope, IInv, TypeInv, TypeOK
    <2>3. Knows(member \cup grant, q)
      BY <2>1, <2>2 DEF Knows, Inserts
    <2> QED
      BY <2>1, <2>3, AloneKnows DEF Serve
  <1>7. ASSUME NEW a \in Users, NEW g \in Groups, NEW users \in SUBSET Members,
               SaveGroup(r, a, g, users)
        PROVE  Whole' /\ AsChosen'
    <2>1. PICK q \in Serving : /\ Serve(r, q) /\ Formed(q) /\ q.op \in Saving /\ q.of = g
                               /\ q.step = "loaded" /\ q.seen = Scope("roster", g)
      BY <1>7, SaveTypes DEF IInv
    <2>2. Here(member \cup grant, q) = q.seen
      BY <2>1, Disjoint DEF Here, InScope, Scope, IInv, TypeInv, TypeOK
    <2>3. Knows(member \cup grant, q)
      BY <2>1, <2>2 DEF Knows, Inserts
    <2> QED
      BY <2>1, <2>3, AloneKnows DEF Serve
  <1> QED
    BY <1>1, <1>2, <1>3, <1>4, <1>5, <1>6, <1>7 DEF Step

LEMMA IInvStays == IInv /\ [Next]_vars => IInv'
  <1> SUFFICES ASSUME IInv, [Next]_vars PROVE IInv'
    OBVIOUS
  <1>0. TypeInv'
    BY TypesStay DEF IInv
  <1>1. ASSUME NEW r \in Requests, Step(r) PROVE IInv'
    BY <1>0, <1>1, StepKnows DEF IInv
  <1>2. ASSUME NEW g \in Groups, DeleteGroup(g) PROVE IInv'
    BY <1>0, <1>2, DeleteGroupKnows DEF IInv
  <1>3. CASE UNCHANGED vars
    BY <1>0, <1>3 DEF vars, IInv, Whole, Knows, Here, InScope, Inserts, AsChosen
  <1> QED
    BY <1>1, <1>2, <1>3 DEF Next

THEOREM Invariance == Spec => []IInv
  <1>1. Init => IInv
    BY InitTypes, IdleKnows DEF Init, IInv, Whole, AsChosen
  <1> QED
    BY <1>1, IInvStays, PTL DEF Spec

(* What is stored is what was asked for last in each scope, but for        *)
(* requests that overlapped.                                               *)
THEOREM StoredAsChosen == Spec => []AsChosen
  BY Invariance, PTL DEF IInv

(* Only a request of somebody who manages a modset lets anybody reach it   *)
(* or write it.                                                            *)
THEOREM OnlyManagersGive == Spec => OnlyManagersShare
  <1>1. TypeInv /\ [Next]_vars => ManagerGives \/ UNCHANGED vars
    <2> SUFFICES ASSUME TypeInv, Next, NEW u \in Users, NEW s \in Modsets,
                        NEW p \in Permissions,
                        Reaches(u, s, {"write", p})', ~Reaches(u, s, {"write", p})
                 PROVE  \E r \in Requests : /\ req[r] # Idle /\ req'[r] = Idle
                                            /\ Manages(req[r].actor, s)
      BY DEF ManagerGives
    <2>1. PICK a \in grant' : /\ a.modset = s /\ a.permission \in {"write", p}
                              /\ [group |-> a.group, user |-> u] \in member'
      BY DEF Reaches
    <2>2. ~(a \in grant /\ [group |-> a.group, user |-> u] \in member)
      BY <2>1 DEF Reaches
    <2>3. ~(member' \subseteq member /\ grant' \subseteq grant)
      BY <2>1, <2>2
    <2>4. ASSUME NEW r \in Requests, CommitShare(r)
          PROVE  req[r] # Idle /\ req'[r] = Idle /\ Manages(req[r].actor, s)
      <3>1. PICK q \in Serving : q = req[r] /\ Formed(q)
        BY DEF TypeInv, TypeOK
      <3>2. /\ q.op = "share" /\ grant' = Stored(grant, q) /\ member' = member
            /\ req'[r] = Idle
        BY <2>4, <3>1 DEF CommitShare, Crossing
      <3>3. a \in Inserts(q)
        BY <2>1, <2>2, <3>2 DEF Stored
      <3>4. InScope(a, q)
        BY <3>1, <3>3 DEF Formed, Inserts
      <3>5. q.of = s
        BY <2>1, <3>2, <3>4 DEF InScope, Saving
      <3> QED
        BY <3>1, <3>2, <3>5 DEF Formed, Idle
    <2>5. ASSUME NEW r \in Requests, CommitMembers(r)
          PROVE  req[r] # Idle /\ req'[r] = Idle /\ Manages(req[r].actor, s)
      <3>1. PICK q \in Serving : q = req[r] /\ Formed(q)
        BY DEF TypeInv, TypeOK
      <3>2. q.op \in Saving \cup {"groups"} /\ req'[r] = Idle
        BY <2>5, <3>1 DEF CommitMembers, Crossing
      <3> QED
        BY <3>1, <3>2 DEF Formed, Idle, Manages, Saving
    <2>6. ASSUME NEW r \in Requests, Step(r), ~CommitShare(r), ~CommitMembers(r) PROVE FALSE
      <3>1. UNCHANGED <<member, grant>>
        BY <2>6 DEF Step, Abort, Flush, Share, AssignGroups, SaveGroup, Serve
      <3> QED
        BY <2>3, <3>1
    <2>7. ASSUME NEW g \in Groups, DeleteGroup(g) PROVE FALSE
      BY <2>3, <2>7 DEF DeleteGroup
    <2>8. ASSUME NEW r \in Requests, Step(r)
          PROVE  req[r] # Idle /\ req'[r] = Idle /\ Manages(req[r].actor, s)
      BY <2>4, <2>5, <2>6, <2>8
    <2> QED
      BY <2>7, <2>8 DEF Next
  <1>2. IInv => TypeInv
    BY DEF IInv
  <1> QED
    BY <1>1, <1>2, Invariance, PTL DEF Spec, OnlyManagersShare
=============================================================================
