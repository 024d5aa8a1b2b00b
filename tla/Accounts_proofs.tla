--------------------------- MODULE Accounts_proofs ---------------------------
(***************************************************************************)
(* Proofs about Accounts, for any accounts, requests, payloads and bound.  *)
(*                                                                         *)
(* SessionsRevoked follows from where session versions lie: sessions not   *)
(* yet revoked at most at the stored version, revoked ones below it.       *)
(* AdminRemains needs what a request may rely on as long as no other one   *)
(* has removed an administrator under it: its actor is still one, and when *)
(* he removes himself, so is the other administrator it has counted.       *)
(***************************************************************************)
EXTENDS Accounts, TLAPS

LEMMA BlankTypes == /\ Blank \in Accounts
                    /\ [Blank EXCEPT !.state = "deleted"] \in Accounts
                    /\ Seen(Blank) \in Loaded
                    /\ Idle \in Serving
  <1>1. 0 \in 0..MaxVersion
    BY AccountsOK
  <1>2. Blank \in Accounts /\ [Blank EXCEPT !.state = "deleted"] \in Accounts
    BY <1>1 DEF Blank, Accounts
  <1>3. Seen(Blank) \in Loaded
    BY <1>1 DEF Blank, Seen, Loaded
  <1>4. NoChange \in AllChanges
    BY DEF NoChange, AllChanges, Omitted
  <1>5. Idle \in Serving
    BY <1>3, <1>4 DEF Idle, Serving, Ops
  <1> QED
    BY <1>2, <1>3, <1>5

LEMMA SeenTypes == ASSUME NEW a \in Accounts PROVE Seen(a) \in Loaded
  BY DEF Accounts, Seen, Loaded

LEMMA ServeTypes ==
    ASSUME TypeOK, NEW r \in Requests, NEW op \in Ops,
           NEW step \in {"idle", "admitted", "loaded", "ready"},
           NEW a \in Users \cup {Nobody}, NEW t \in Users \cup {Nobody},
           NEW s \in Accounts, Serve(r, op, step, a, t, s)
    PROVE  TypeOK'
  <1>1. [Idle EXCEPT !.op = op, !.step = step, !.actor = a, !.target = t,
                     !.seen = Seen(s)] \in Serving
    BY BlankTypes, SeenTypes DEF Serving
  <1> QED
    BY <1>1 DEF Serve, TypeOK

LEMMA DoneTypes == ASSUME TypeOK, NEW r \in Requests, Done(r)
                   PROVE  req' \in [Requests -> Serving]
  BY BlankTypes DEF Done, TypeOK

LEMMA IssueTypes == ASSUME TypeOK, NEW u \in Users, NEW v \in 0..MaxVersion, Issue(u, v)
                    PROVE  issued' \in [Users -> SUBSET (0..MaxVersion)]
  BY DEF Issue, TypeOK

LEMMA NewAccountTypes ==
    ASSUME TypeOK, NEW u \in Users, NEW n \in AllCreations, NEW oidc \in BOOLEAN,
           NewAccount(u, n, oidc)
    PROVE  row' \in [Users -> Accounts]
  <1>1. [state |-> "live", role |-> n.role, status |-> n.status, version |-> 0,
         local |-> ~oidc, oidc |-> oidc, boot |-> n.boot] \in Accounts
    BY AccountsOK DEF Accounts, AllCreations
  <1> QED
    BY <1>1 DEF NewAccount, TypeOK

LEMMA CreationTypes == /\ \A b \in BOOLEAN : Creation("user", "active", b) \in AllCreations
                       /\ Creation("admin", "active", TRUE) \in AllCreations
  BY DEF Creation, AllCreations

LEMMA RevokeTypes ==
    ASSUME TypeOK, NEW u \in Users, NEW s, Revoke(u, s)
    PROVE  /\ issued' \in [Users -> SUBSET (0..MaxVersion)]
           /\ revoked' \in [Users -> SUBSET (0..MaxVersion)]
           /\ stomped' \subseteq Users
  BY DEF Revoke, TypeOK

LEMMA CrossesTypes ==
    ASSUME TypeOK, NEW r \in Requests, Crosses(r)
    PROVE  req' \in [Requests -> Serving] /\ contested' \in BOOLEAN
  <1>1. ASSUME NEW q \in Requests, NEW b \in BOOLEAN
        PROVE  [req[q] EXCEPT !.crossed = b] \in Serving
    BY DEF TypeOK, Serving
  <1>2. \A q \in Requests : (req[q].crossed \/ (Removing /\ req[q].op \in {"update", "delete"})) \in BOOLEAN
    BY DEF TypeOK, Serving
  <1>3. \A q \in Requests :
           (IF q = r THEN Idle
            ELSE [req[q] EXCEPT !.crossed = @ \/ (Removing /\ req[q].op \in {"update", "delete"})])
           \in Serving
    BY <1>1, <1>2, BlankTypes
  <1> QED
    BY <1>3 DEF Crosses, TypeOK, Serving

LEMMA NoChangeTypes == NoChange \in AllChanges
  BY DEF NoChange, AllChanges, Omitted

LEMMA WrittenTypes ==
    /\ \A a \in {Omitted, "admin", "user"}, o, s \in {"admin", "user"} :
          Written(a, o, s) \in {"admin", "user"}
    /\ \A a \in {Omitted, "active", "disabled"}, o, s \in {"active", "disabled"} :
          Written(a, o, s) \in {"active", "disabled"}
  BY DEF Written, Omitted
-----------------------------------------------------------------------------
(* A request past its loading has a target; an administrator's, an actor. *)
Targets == \A r \in Requests :
    /\ req[r].op \in AdminOps => req[r].actor \in Users
    /\ req[r].op \in {"login", "password"} => req[r].target \in Users
    /\ req[r].op \in AdminOps \ {"create"} /\ req[r].step # "admitted"
          => req[r].target \in Users

TypeInv == TypeOK /\ Targets

LEMMA ServeTargets ==
    ASSUME TypeInv, NEW r \in Requests, NEW op \in Ops, NEW step, NEW a, NEW t, NEW s,
           Serve(r, op, step, a, t, s),
           op \in AdminOps => a \in Users,
           op \in {"login", "password"} => t \in Users,
           op \in AdminOps \ {"create"} => step = "admitted"
    PROVE  Targets'
  BY DEF TypeInv, TypeOK, Targets, Serve, Idle, AdminOps, Ops

LEMMA DoneTargets == ASSUME TypeInv, NEW r \in Requests, Done(r) PROVE Targets'
  BY DEF TypeInv, TypeOK, Targets, Done, Idle, AdminOps

LEMMA CrossesTargets ==
    ASSUME TypeInv, NEW r \in Requests, Crosses(r) PROVE Targets'
  <1>1. \A q \in Requests : \/ req'[q] = Idle
                            \/ /\ req'[q].op = req[q].op /\ req'[q].step = req[q].step
                               /\ req'[q].actor = req[q].actor
                               /\ req'[q].target = req[q].target
    BY DEF TypeInv, TypeOK, Serving, Crosses
  <1> QED
    BY <1>1 DEF TypeInv, Targets, Idle, AdminOps

LEMMA StepTypes == ASSUME TypeInv, NEW r \in Requests, Step(r) PROVE TypeInv'
  <1> USE DEF Ops, AdminOps
  <1>0. TypeOK /\ req[r] \in Serving /\ Targets
    BY DEF TypeInv, TypeOK
  <1>1. CASE Abort(r)
    BY <1>0, <1>1, DoneTypes, DoneTargets DEF Abort, TypeOK, TypeInv
  <1>2. CASE Login(r)
    <2>1. req[r].target \in Users /\ row[req[r].target].version \in 0..MaxVersion
      BY <1>0, <1>2 DEF Login, At, Targets, TypeOK, Accounts
    <2> QED
      BY <1>0, <1>2, <2>1, DoneTypes, DoneTargets, IssueTypes DEF Login, TypeOK, TypeInv
  <1>3. CASE FindNoSubject(r)
    BY <1>0, <1>3, ServeTypes, ServeTargets, BlankTypes DEF FindNoSubject, TypeInv
  <1>4. CASE Count(r)
    <2>1. [req[r] EXCEPT !.step = "ready"] \in Serving
      BY <1>0 DEF Serving
    <2>2. TypeOK'
      BY <1>0, <1>4, <2>1 DEF Count, TypeOK
    <2>3. Targets'
      BY <1>0, <1>4 DEF Count, TypeOK, Targets, At
    <2> QED
      BY <2>2, <2>3 DEF TypeInv
  <1>5. CASE Rehome(r)
    <2>1. req[r].target \in Users
      BY <1>0, <1>5 DEF Rehome, At, Targets
    <2>2. [req[r] EXCEPT !.seen = Seen(row[req[r].target])] \in Serving
      BY <1>0, <2>1, SeenTypes DEF Serving, TypeOK
    <2>3. TypeOK'
      BY <1>0, <1>5, <2>2 DEF Rehome, TypeOK
    <2>4. Targets'
      BY <1>0, <1>5 DEF Rehome, TypeOK, Targets
    <2> QED
      BY <2>3, <2>4 DEF TypeInv
  <1>6. CASE CommitUpdate(r)
    <2> DEFINE q == req[r]
               u == q.target
               stored == [row[u] EXCEPT
                            !.role = Written(q.change.role, q.seen.role, row[u].role),
                            !.status = Written(q.change.status, q.seen.status, row[u].status),
                            !.local = q.change.password \/ row[u].local,
                            !.version = IF Revokes(q.change) THEN q.seen.version + 1
                                        ELSE row[u].version]
    <2>1. u \in Users /\ row[u] \in Accounts /\ q.change \in AllChanges /\ q.seen \in Loaded
      BY <1>0, <1>6 DEF CommitUpdate, At, Targets, TypeOK, Serving
    <2>2. Revokes(q.change) => q.seen.version + 1 \in 0..MaxVersion
      BY <1>6, <2>1, AccountsOK DEF CommitUpdate, Loaded
    <2>3. /\ Written(q.change.role, q.seen.role, row[u].role) \in {"admin", "user"}
          /\ Written(q.change.status, q.seen.status, row[u].status) \in {"active", "disabled"}
      BY <2>1, WrittenTypes DEF AllChanges, Loaded, Accounts
    <2>4. stored \in Accounts
      <3> HIDE DEF q, u
      <3> QED
        BY <2>1, <2>2, <2>3 DEF Accounts, AllChanges
    <2>5. row' = [row EXCEPT ![u] = stored]
      BY <1>6 DEF CommitUpdate
    <2>6. row' \in [Users -> Accounts]
      <3> HIDE DEF stored
      <3> QED
        BY <1>0, <2>4, <2>5 DEF TypeOK
    <2>7. req' \in [Requests -> Serving] /\ Targets'
      BY <1>0, <1>6, CrossesTypes, CrossesTargets DEF CommitUpdate
    <2>8. /\ issued' \in [Users -> SUBSET (0..MaxVersion)]
          /\ revoked' \in [Users -> SUBSET (0..MaxVersion)]
          /\ stomped' \subseteq Users
      <3>1. UNCHANGED <<issued, revoked, stomped>> \/ Revoke(u, q.seen)
        BY <1>6 DEF CommitUpdate
      <3> QED
        BY <1>0, <2>1, <3>1, RevokeTypes DEF TypeOK
    <2>9. contested' \in BOOLEAN /\ up' \in BOOLEAN /\ founded' \in BOOLEAN
      BY <1>0, <1>6, CrossesTypes DEF CommitUpdate, TypeOK
    <2> QED
      BY <2>6, <2>7, <2>8, <2>9 DEF TypeOK, TypeInv
  <1>7. CASE CommitPassword(r)
    <2> DEFINE u == req[r].target
    <2>1. u \in Users /\ req[r].seen.version + 1 \in 0..MaxVersion
      BY <1>0, <1>7, AccountsOK DEF CommitPassword, At, Targets, TypeOK, Serving, Loaded
    <2>2. [row[u] EXCEPT !.local = TRUE, !.version = req[r].seen.version + 1] \in Accounts
      <3>1. row[u] \in Accounts
        BY <1>0, <2>1 DEF TypeOK
      <3> HIDE DEF u
      <3> QED
        BY <2>1, <3>1 DEF Accounts
    <2>3. row' \in [Users -> Accounts]
      BY <1>0, <1>7, <2>1, <2>2 DEF CommitPassword, TypeOK
    <2>4. Done(r) /\ Revoke(u, req[r].seen) /\ UNCHANGED <<up, founded, contested>>
      BY <1>7 DEF CommitPassword
    <2> QED
      BY <1>0, <2>1, <2>3, <2>4, DoneTypes, DoneTargets, RevokeTypes DEF TypeOK, TypeInv
  <1>8. CASE CommitDelete(r)
    <2>1. row' \in [Users -> Accounts]
      BY <1>0, <1>8, BlankTypes DEF CommitDelete, TypeOK
    <2>2. Crosses(r) /\ UNCHANGED <<up, issued, revoked, stomped, founded>>
      BY <1>8 DEF CommitDelete
    <2> QED
      BY <1>0, <2>1, <2>2, CrossesTypes, CrossesTargets DEF TypeOK, TypeInv
  <1>9. CASE \E u \in Users : Verify(r, u) \/ OwnPassword(r, u)
    <2>1. PICK u \in Users : Verify(r, u) \/ OwnPassword(r, u)
      BY <1>9
    <2>2. row[u] \in Accounts
      BY <1>0 DEF TypeOK
    <2>3. CASE Verify(r, u)
      BY <1>0, <2>3, BlankTypes, ServeTypes, ServeTargets DEF Verify, TypeInv
    <2>4. CASE OwnPassword(r, u)
      BY <1>0, <2>2, <2>4, ServeTypes, ServeTargets DEF OwnPassword, TypeInv
    <2> QED
      BY <2>1, <2>3, <2>4
  <1>10. CASE \E a \in Users, op \in AdminOps : Admit(r, a, op)
    <2>1. PICK a \in Users, op \in AdminOps : Serve(r, op, "admitted", a, Nobody, row[a])
      BY <1>10 DEF Admit
    <2>2. row[a] \in Accounts
      BY <1>0 DEF TypeOK
    <2> QED
      BY <1>0, <2>1, <2>2, ServeTypes, ServeTargets DEF TypeInv
  <1>11. CASE \E u \in Users, c \in Changes \cup {NoChange} : Load(r, u, c)
    <2>1. PICK u \in Users, c \in Changes \cup {NoChange} : Load(r, u, c)
      BY <1>11
    <2> DEFINE seen == IF u = req[r].actor THEN req[r].seen ELSE Seen(row[u])
               step == IF NeedsAnother(req[r].op, seen, c) THEN "loaded" ELSE "ready"
    <2>2. seen \in Loaded /\ c \in AllChanges
      BY <1>0, SeenTypes, NoChangeTypes, AccountsOK DEF TypeOK, Serving
    <2>3. req' = [req EXCEPT ![r] = [req[r] EXCEPT !.target = u, !.change = c,
                                        !.seen = seen, !.step = step]]
      BY <2>1 DEF Load
    <2>4. UNCHANGED <<row, up, issued, revoked, stomped, founded, contested>>
      BY <2>1 DEF Load
    <2>5. step \in {"loaded", "ready"}
      OBVIOUS
    <2> HIDE DEF seen, step
    <2>6. [req[r] EXCEPT !.target = u, !.change = c, !.seen = seen, !.step = step] \in Serving
      BY <1>0, <2>2, <2>5 DEF Serving
    <2>7. TypeOK'
      BY <1>0, <2>3, <2>4, <2>6 DEF TypeOK
    <2>8. Targets'
      BY <1>0, <2>3 DEF TypeOK, Targets, Serving
    <2> QED
      BY <2>7, <2>8 DEF TypeInv
  <1>12. CASE \E u \in Users : SignUp(r, u)
    <2>1. PICK u \in Users : SignUp(r, u)
      BY <1>12
    <2>2. 0 \in 0..MaxVersion
      BY AccountsOK
    <2>3. /\ \E b \in BOOLEAN : NewAccount(u, Creation("user", "active", b), TRUE)
          /\ Issue(u, 0) /\ Done(r)
          /\ UNCHANGED <<up, revoked, stomped, founded, contested>>
      BY <2>1 DEF SignUp
    <2>4. row' \in [Users -> Accounts]
      BY <1>0, <2>3, NewAccountTypes, CreationTypes
    <2> QED
      BY <1>0, <2>2, <2>3, <2>4, CreationTypes, IssueTypes, DoneTypes,
         DoneTargets DEF TypeOK, TypeInv
  <1>13. CASE \E u \in Users, n \in Creations : CreateUser(r, u, n)
    <2>1. PICK u \in Users, n \in Creations : CreateUser(r, u, n)
      BY <1>13
    <2>2. /\ n \in AllCreations /\ NewAccount(u, n, FALSE) /\ Done(r)
          /\ UNCHANGED <<up, issued, revoked, stomped, founded, contested>>
      BY <2>1, AccountsOK DEF CreateUser
    <2> QED
      BY <1>0, <2>2, NewAccountTypes, DoneTypes, DoneTargets DEF TypeOK, TypeInv
  <1> QED
    BY <1>1, <1>2, <1>3, <1>4, <1>5, <1>6, <1>7, <1>8, <1>9, <1>10, <1>11,
       <1>12, <1>13 DEF Step

LEMMA RestartTypes == ASSUME TypeInv, Restart PROVE TypeInv'
  <1>1. row' \in [Users -> Accounts] /\ up' \in BOOLEAN /\ founded' \in BOOLEAN
    <2>1. CASE UNCHANGED <<row, founded>> /\ up' \in BOOLEAN
      BY <2>1 DEF TypeInv, TypeOK
    <2>2. CASE /\ \E u \in Users : NewAccount(u, Creation("admin", "active", TRUE), FALSE)
               /\ up' = TRUE /\ founded' = TRUE
      BY <2>2, NewAccountTypes, CreationTypes DEF TypeInv
    <2> QED
      BY <2>1, <2>2 DEF Restart, Bootstrap
  <1>2. req' = [r \in Requests |-> Idle] /\ UNCHANGED <<issued, revoked, stomped, contested>>
    BY DEF Restart
  <1>3. Targets'
    BY <1>2 DEF Targets, Idle, AdminOps
  <1> QED
    BY <1>1, <1>2, <1>3, BlankTypes DEF TypeInv, TypeOK

LEMMA InitTypes == Init => TypeInv
  <1> SUFFICES ASSUME Init PROVE TypeInv
    OBVIOUS
  <1>1. TypeOK
    BY BlankTypes DEF Init, TypeOK
  <1>2. Targets
    BY DEF Init, Targets, Idle, AdminOps
  <1> QED
    BY <1>1, <1>2 DEF TypeInv

LEMMA TypeInvariant == Spec => []TypeInv
  <1>1. TypeInv /\ [Next]_vars => TypeInv'
    <2> SUFFICES ASSUME TypeInv, [Next]_vars PROVE TypeInv'
      OBVIOUS
    <2>1. CASE UNCHANGED vars
      BY <2>1 DEF vars, TypeInv, TypeOK, Targets
    <2>2. CASE Next
      BY <2>2, StepTypes, RestartTypes DEF Next
    <2> QED
      BY <2>1, <2>2
  <1> QED
    BY InitTypes, <1>1, PTL DEF Spec

(* Every variable keeps its type: in particular an update never stores the *)
(* mark of an omitted field (update_user).                                 *)
THEOREM TypeCorrect == Spec => []TypeOK
  <1>1. TypeInv => TypeOK
    BY DEF TypeInv
  <1> QED
    BY TypeInvariant, <1>1, PTL
-----------------------------------------------------------------------------
(* Sessions not revoked lie at most at the stored version, revoked ones    *)
(* below it, and an id not used yet has none.                              *)
Versions == \A u \in Users :
    /\ row[u].state = "absent" => issued[u] = {} /\ revoked[u] = {}
    /\ u \notin stomped /\ Live(u) =>
          /\ \A v \in issued[u] : v <= row[u].version
          /\ \A v \in revoked[u] : v < row[u].version

LEMMA InitVersions == Init => Versions
  BY DEF Init, Versions

(* Neither sessions nor versions nor who is live change. *)
LEMMA SameVersions ==
    ASSUME TypeOK, Versions, UNCHANGED <<issued, revoked, stomped>>,
           \A u \in Users : /\ row'[u].state = row[u].state \/ row'[u].state = "deleted"
                            /\ row'[u].state = "live" => row'[u].version = row[u].version
    PROVE  Versions'
  BY DEF TypeOK, Versions, Live

LEMMA NewVersions ==
    ASSUME TypeOK, Versions, NEW u \in Users, NEW n, NEW o, NewAccount(u, n, o),
           \/ UNCHANGED issued
           \/ Issue(u, 0),
           UNCHANGED <<revoked, stomped>>
    PROVE  Versions'
  <1>1. \A v \in Users \ {u} : row'[v] = row[v] /\ issued'[v] = issued[v]
    BY DEF NewAccount, Issue, TypeOK
  <1>2. row'[u].version = 0 /\ row'[u].state = "live"
    BY DEF NewAccount, TypeOK
  <1>3. issued'[u] \subseteq {0} /\ revoked'[u] = {}
    BY DEF NewAccount, Issue, TypeOK, Versions
  <1> QED
    BY <1>1, <1>2, <1>3 DEF Versions, Live

(* A commit that increments the version it has seen. *)
LEMMA CommittedVersions ==
    ASSUME TypeOK, Versions, NEW u \in Users, NEW s \in Loaded, Live(u), Revoke(u, s),
           NEW a, row' = [row EXCEPT ![u] = a], a.state = "live", a.version = s.version + 1
    PROVE  Versions'
  <1>1. \A v \in Users \ {u} : /\ row'[v] = row[v] /\ issued'[v] = issued[v]
                               /\ revoked'[v] = revoked[v]
                               /\ v \in stomped' <=> v \in stomped
    BY DEF Revoke, TypeOK
  <1>2. row'[u].state = "live" /\ row'[u].version = s.version + 1
    BY DEF TypeOK
  <1>3. issued'[u] = {} /\ revoked'[u] = revoked[u] \cup issued[u]
    BY DEF Revoke, TypeOK
  <1>4. ASSUME u \notin stomped'
        PROVE  u \notin stomped /\ s.version = row[u].version
    BY <1>4 DEF Revoke
  <1>5. s.version \in Nat /\ issued[u] \subseteq Nat /\ revoked[u] \subseteq Nat
    BY AccountsOK DEF Loaded, TypeOK
  <1>6. ASSUME u \notin stomped', NEW v \in revoked'[u]
        PROVE  v < row'[u].version
    BY <1>2, <1>3, <1>4, <1>5, <1>6 DEF Versions
  <1> QED
    BY <1>1, <1>2, <1>3, <1>6 DEF Versions, Live

LEMMA ChangesRevoke ==
    ASSUME NEW c \in AllChanges, c # NoChange PROVE Revokes(c)
  BY DEF AllChanges, NoChange, Revokes, Omitted

LEMMA StepVersions ==
    ASSUME TypeInv, Versions, NEW r \in Requests, Step(r) PROVE Versions'
  <1>0. TypeOK /\ Targets /\ req[r] \in Serving
    BY DEF TypeInv, TypeOK
  <1>1. CASE UNCHANGED <<row, issued, revoked, stomped>>
    BY <1>0, <1>1, SameVersions
  <1>2. CASE Login(r)
    <2> DEFINE u == req[r].target
    <2>1. /\ u \in Users /\ Issue(u, row[u].version) /\ Live(u)
          /\ UNCHANGED <<row, revoked, stomped>>
      BY <1>0, <1>2 DEF Login, At, Targets
    <2>2. issued'[u] = issued[u] \cup {row[u].version}
          /\ \A v \in Users \ {u} : issued'[v] = issued[v]
      BY <1>0, <2>1 DEF Issue, TypeOK
    <2>3. row[u].version <= row[u].version
      BY <1>0, <2>1, AccountsOK DEF TypeOK, Accounts
    <2> HIDE DEF u
    <2> QED
      BY <2>1, <2>2, <2>3 DEF Versions, Live
  <1>3. CASE CommitUpdate(r)
    <2> DEFINE q == req[r]
               u == q.target
               stored == [row[u] EXCEPT
                            !.role = Written(q.change.role, q.seen.role, row[u].role),
                            !.status = Written(q.change.status, q.seen.status, row[u].status),
                            !.local = q.change.password \/ row[u].local,
                            !.version = IF Revokes(q.change) THEN q.seen.version + 1
                                        ELSE row[u].version]
    <2>1. /\ u \in Users /\ row[u] \in Accounts
          /\ q.change \in AllChanges /\ q.seen \in Loaded
      BY <1>0, <1>3 DEF CommitUpdate, At, Targets, TypeOK, Serving, AdminOps
    <2>2. Live(u) /\ row' = [row EXCEPT ![u] = stored]
      BY <1>3 DEF CommitUpdate
    <2>3. /\ stored.state = "live"
          /\ stored.version = IF Revokes(q.change) THEN q.seen.version + 1 ELSE row[u].version
      <3> HIDE DEF q, u
      <3> QED
        BY <2>1, <2>2 DEF Accounts, Live
    <2>4. CASE q.change = NoChange
      <3>1. ~Revokes(q.change) /\ UNCHANGED <<issued, revoked, stomped>>
        BY <1>3, <2>4 DEF CommitUpdate, Revokes, NoChange
      <3> HIDE DEF q, u, stored
      <3> QED
        BY <1>0, <2>1, <2>2, <2>3, <3>1, SameVersions DEF TypeOK, Live
    <2>5. CASE q.change # NoChange
      <3>1. Revokes(q.change) /\ Revoke(u, q.seen)
        BY <1>3, <2>1, <2>5, ChangesRevoke DEF CommitUpdate
      <3> HIDE DEF q, u, stored
      <3> QED
        BY <1>0, <2>1, <2>2, <2>3, <3>1, CommittedVersions
    <2> QED
      BY <2>4, <2>5
  <1>4. CASE CommitPassword(r)
    <2> DEFINE u == req[r].target
               stored == [row[u] EXCEPT !.local = TRUE, !.version = req[r].seen.version + 1]
    <2>1. /\ u \in Users /\ row[u] \in Accounts /\ req[r].seen \in Loaded /\ Live(u)
          /\ Revoke(u, req[r].seen)
      BY <1>0, <1>4 DEF CommitPassword, At, Targets, TypeOK, Serving, AdminOps
    <2>2. row' = [row EXCEPT ![u] = stored]
      BY <1>0, <1>4, <2>1 DEF CommitPassword, TypeOK
    <2>3. stored.state = "live" /\ stored.version = req[r].seen.version + 1
      <3> HIDE DEF u
      <3> QED
        BY <2>1 DEF Accounts, Live
    <2> HIDE DEF u, stored
    <2> QED
      BY <1>0, <2>1, <2>2, <2>3, CommittedVersions
  <1>5. CASE CommitDelete(r)
    <2>1. row' = [row EXCEPT ![req[r].target] = [Blank EXCEPT !.state = "deleted"]]
          /\ UNCHANGED <<issued, revoked, stomped>>
      BY <1>5 DEF CommitDelete
    <2> QED
      BY <1>0, <2>1, SameVersions DEF TypeOK, Blank
  <1>6. CASE \E u \in Users : SignUp(r, u)
    <2>1. PICK u \in Users : SignUp(r, u)
      BY <1>6
    <2>2. PICK b \in BOOLEAN : NewAccount(u, Creation("user", "active", b), TRUE)
      BY <2>1 DEF SignUp
    <2> QED
      BY <1>0, <2>1, <2>2, NewVersions DEF SignUp
  <1>7. CASE \E u \in Users, n \in Creations : CreateUser(r, u, n)
    BY <1>0, <1>7, NewVersions DEF CreateUser
  <1> QED
    BY <1>1, <1>2, <1>3, <1>4, <1>5, <1>6, <1>7 DEF Step, Abort, FindNoSubject,
       Serve, Count, Rehome, Verify, OwnPassword, Admit, Load

LEMMA RestartVersions == ASSUME TypeInv, Versions, Restart PROVE Versions'
  <1>1. TypeOK /\ UNCHANGED <<issued, revoked, stomped>>
    BY DEF TypeInv, Restart
  <1>2. \/ UNCHANGED row
        \/ \E u \in Users : NewAccount(u, Creation("admin", "active", TRUE), FALSE)
    BY DEF Restart, Bootstrap
  <1> QED
    BY <1>1, <1>2, SameVersions, NewVersions

LEMMA VersionInvariant == Spec => []Versions
  <1>1. TypeInv /\ Versions /\ [Next]_vars => Versions'
    <2> SUFFICES ASSUME TypeInv, Versions, [Next]_vars PROVE Versions'
      OBVIOUS
    <2>1. CASE UNCHANGED vars
      BY <2>1 DEF vars, Versions, Live
    <2> QED
      BY <2>1, StepVersions, RestartVersions DEF Next
  <1> QED
    BY InitVersions, TypeInvariant, <1>1, PTL DEF Spec

(* Sessions that existed when the password, role or status of their        *)
(* account changed stay refused, unless such changes of the account        *)
(* overlapped (session_version).                                           *)
THEOREM RevocationCorrect == Spec => []SessionsRevoked
  <1>1. TypeInv /\ Versions => SessionsRevoked
    BY AccountsOK DEF TypeInv, TypeOK, Accounts, Versions, SessionsRevoked
  <1> QED
    BY TypeInvariant, VersionInvariant, <1>1, PTL
-----------------------------------------------------------------------------
(* What a request can rely on under which no administrator was removed.    *)
Grounded == \A r \in Requests :
    LET q == req[r]
    IN q.op \in {"update", "delete"} /\ ~q.crossed =>
          /\ q.actor \in ActiveAdmins
          /\ q.step = "admitted" => q.seen.role = "admin"
          /\ q.step # "admitted" /\ q.target = q.actor =>
                /\ q.op = "update" /\ q.change.status # "disabled"
                /\ q.step = "ready" /\ q.change.role = "user" =>
                      \E v \in ActiveAdmins : v # q.target

(* Only a started application serves. *)
Running == \A r \in Requests : req[r] # Idle => up

AdminInv == Grounded /\ Running /\ AdminRemains

(* A step of r's request after which q is in its place and the             *)
(* administrators are kept.                                                *)
LEMMA OneRequest ==
    ASSUME TypeInv, AdminInv, NEW r \in Requests, NEW q,
           req' = [req EXCEPT ![r] = q], up, up' = up, UNCHANGED <<founded, contested>>,
           ActiveAdmins \subseteq ActiveAdmins',
           q.op \in {"update", "delete"} /\ ~q.crossed =>
              /\ q.actor \in ActiveAdmins
              /\ q.step = "admitted" => q.seen.role = "admin"
              /\ q.step # "admitted" /\ q.target = q.actor =>
                    /\ q.op = "update" /\ q.change.status # "disabled"
                    /\ q.step = "ready" /\ q.change.role = "user" =>
                          \E v \in ActiveAdmins : v # q.target
    PROVE  AdminInv'
  <1>1. \A p \in Requests : req'[p] = IF p = r THEN q ELSE req[p]
    BY DEF TypeInv, TypeOK
  <1>2. Grounded'
    <2>1. ASSUME NEW p \in Requests, req'[p].op \in {"update", "delete"}, ~req'[p].crossed
          PROVE  /\ req'[p].actor \in ActiveAdmins
                 /\ req'[p].step = "admitted" => req'[p].seen.role = "admin"
                 /\ req'[p].step # "admitted" /\ req'[p].target = req'[p].actor =>
                       /\ req'[p].op = "update" /\ req'[p].change.status # "disabled"
                       /\ req'[p].step = "ready" /\ req'[p].change.role = "user" =>
                             \E v \in ActiveAdmins : v # req'[p].target
      <3>1. CASE p = r
        BY <1>1, <2>1, <3>1
      <3>2. CASE p # r
        <4>1. req'[p] = req[p]
          BY <1>1, <3>2
        <4> QED
          BY <2>1, <4>1 DEF AdminInv, Grounded
      <3> QED
        BY <3>1, <3>2
    <2> QED
      BY <2>1 DEF Grounded
  <1>3. Running'
    BY DEF Running
  <1>4. AdminRemains'
    BY DEF AdminInv, AdminRemains
  <1> QED
    BY <1>2, <1>3, <1>4 DEF AdminInv

(* The same for a step that ends r's request. *)
LEMMA RequestDone ==
    ASSUME TypeInv, AdminInv, ActiveAdmins \subseteq ActiveAdmins', NEW r \in Requests,
           Done(r), req[r] # Idle, up' = up, UNCHANGED <<founded, contested>>
    PROVE  AdminInv'
  <1>1. up
    BY DEF AdminInv, Running
  <1>2. Idle.op = "none"
    BY DEF Idle
  <1> HIDE DEF Idle
  <1> QED
    BY <1>1, <1>2, OneRequest, Zenon DEF Done

LEMMA SameRows == ASSUME UNCHANGED row PROVE ActiveAdmins \subseteq ActiveAdmins'
  BY DEF ActiveAdmins, Live

LEMMA NewRows ==
    ASSUME TypeOK, NEW u \in Users, NEW n, NEW o, NewAccount(u, n, o)
    PROVE  ActiveAdmins \subseteq ActiveAdmins'
  BY DEF NewAccount, ActiveAdmins, Live, TypeOK

(* A step that begins a request. *)
LEMMA RequestServed ==
    ASSUME TypeInv, AdminInv, NEW r \in Requests, NEW op, NEW step, NEW a, NEW t, NEW s,
           Serve(r, op, step, a, t, s),
           op \in {"update", "delete"} => /\ step = "admitted" /\ a \in ActiveAdmins
                                          /\ s = row[a]
    PROVE  AdminInv'
  <1> DEFINE q == [Idle EXCEPT !.op = op, !.step = step, !.actor = a, !.target = t,
                               !.seen = Seen(s)]
  <1>1. /\ req' = [req EXCEPT ![r] = q] /\ up /\ up' = up
        /\ UNCHANGED <<founded, contested>> /\ UNCHANGED row
    BY DEF Serve
  <1>2. ActiveAdmins \subseteq ActiveAdmins'
    BY <1>1, SameRows
  <1>3. q.op = op /\ q.step = step /\ q.actor = a /\ q.seen.role = s.role
    BY DEF Idle, Seen
  <1>4. \A b \in ActiveAdmins : row[b].role = "admin"
    BY DEF ActiveAdmins
  <1> HIDE DEF q
  <1> QED
    BY <1>1, <1>2, <1>3, <1>4, OneRequest

(* What a commit leaves of the other requests. *)
LEMMA Crossed ==
    ASSUME TypeInv, NEW r \in Requests, Crosses(r)
    PROVE  /\ \A p \in Requests : req'[p] # Idle => req[p] # Idle
           /\ \A p \in Requests :
                \/ req'[p] = Idle
                \/ /\ req'[p].op = req[p].op /\ req'[p].step = req[p].step
                   /\ req'[p].actor = req[p].actor /\ req'[p].target = req[p].target
                   /\ req'[p].change = req[p].change /\ req'[p].seen = req[p].seen
                   /\ req[p].crossed => req'[p].crossed
                   /\ Removing /\ req[p].op \in {"update", "delete"} => req'[p].crossed
           /\ contested => contested'
           /\ Removing /\ req[r].crossed => contested'
  <1>1. \A p \in Requests :
          \/ req'[p] = Idle
          \/ /\ req'[p].op = req[p].op /\ req'[p].step = req[p].step
             /\ req'[p].actor = req[p].actor /\ req'[p].target = req[p].target
             /\ req'[p].change = req[p].change /\ req'[p].seen = req[p].seen
             /\ req[p].crossed => req'[p].crossed
             /\ Removing /\ req[p].op \in {"update", "delete"} => req'[p].crossed
    <2>1. ASSUME NEW p \in Requests, NEW x \in BOOLEAN
          PROVE  LET n == [req[p] EXCEPT !.crossed = req[p].crossed \/ x]
                 IN /\ n.op = req[p].op /\ n.step = req[p].step
                    /\ n.actor = req[p].actor /\ n.target = req[p].target
                    /\ n.change = req[p].change /\ n.seen = req[p].seen
                    /\ n.crossed = (req[p].crossed \/ x)
      BY DEF TypeInv, TypeOK, Serving
    <2>2. \A p \in Requests :
            req'[p] = IF p = r THEN Idle
                      ELSE [req[p] EXCEPT !.crossed = req[p].crossed
                              \/ (Removing /\ req[p].op \in {"update", "delete"})]
      BY Zenon DEF Crosses
    <2>3. \A p \in Requests : (Removing /\ req[p].op \in {"update", "delete"}) \in BOOLEAN
      OBVIOUS
    <2>4. ASSUME NEW p \in Requests, p # r
          PROVE  LET x == Removing /\ req[p].op \in {"update", "delete"}
                     n == [req[p] EXCEPT !.crossed = req[p].crossed \/ x]
                 IN /\ req'[p] = n
                    /\ n.op = req[p].op /\ n.step = req[p].step
                    /\ n.actor = req[p].actor /\ n.target = req[p].target
                    /\ n.change = req[p].change /\ n.seen = req[p].seen
                    /\ n.crossed = (req[p].crossed \/ x)
      BY <2>1, <2>2, <2>3, <2>4, Zenon
    <2>5. req'[r] = Idle
      BY <2>2
    <2> QED
      BY <2>4, <2>5
  <1>2. ASSUME NEW p \in Requests, req[p] = Idle PROVE req'[p] = Idle
    <2>1. (Idle.crossed \/ (Removing /\ Idle.op \in {"update", "delete"})) = FALSE
      BY DEF Idle
    <2>2. [Idle EXCEPT !.crossed = FALSE] = Idle
      <3>1. \A x \in Serving : x.crossed = FALSE => [x EXCEPT !.crossed = FALSE] = x
        BY DEF Serving
      <3>2. Idle \in Serving /\ Idle.crossed = FALSE
        BY BlankTypes DEF Idle
      <3> HIDE DEF Idle
      <3> QED
        BY <3>1, <3>2
    <2>3. \/ req'[p] = Idle
          \/ req'[p] = [Idle EXCEPT !.crossed = Idle.crossed
                           \/ (Removing /\ Idle.op \in {"update", "delete"})]
      BY <1>2 DEF Crosses
    <2> QED
      BY <2>1, <2>2, <2>3
  <1>3. (contested => contested') /\ (Removing /\ req[r].crossed => contested')
    BY DEF Crosses
  <1> QED
    BY <1>1, <1>2, <1>3

(* A commit that changes u's row: unless it is contested, an administrator *)
(* remains.                                                                *)
LEMMA Commits ==
    ASSUME TypeInv, AdminInv, NEW r \in Requests, NEW u \in Users, Crosses(r),
           req[r] # Idle, up' = up, founded' = founded,
           \A v \in Users : v # u => row'[v] = row[v],
           ~req[r].crossed => (\E v \in ActiveAdmins : v # u) \/ u \in ActiveAdmins'
    PROVE  AdminInv'
  <1>1. up
    BY DEF AdminInv, Running
  <1>2. Running'
    BY <1>1 DEF Running
  <1>3. Grounded'
    <2>1. CASE Removing
      <3>1. \A p \in Requests : \/ req'[p] = Idle
                                \/ req'[p].op \in {"update", "delete"} => req'[p].crossed
        BY <2>1, Crossed
      <3>2. Idle.op = "none"
        BY DEF Idle
      <3> HIDE DEF Idle
      <3> QED
        BY <3>1, <3>2 DEF Grounded
    <2>2. CASE ~Removing
      <3>1. ActiveAdmins \subseteq ActiveAdmins'
        BY <2>2 DEF Removing
      <3>2. ASSUME NEW p \in Requests, req'[p].op \in {"update", "delete"}, ~req'[p].crossed
            PROVE  /\ req'[p].actor \in ActiveAdmins
                   /\ req'[p].step = "admitted" => req'[p].seen.role = "admin"
                   /\ req'[p].step # "admitted" /\ req'[p].target = req'[p].actor =>
                         /\ req'[p].op = "update" /\ req'[p].change.status # "disabled"
                         /\ req'[p].step = "ready" /\ req'[p].change.role = "user" =>
                               \E v \in ActiveAdmins : v # req'[p].target
        <4>1. req'[p] # Idle
          BY <3>2 DEF Idle
        <4>2. /\ req'[p].op = req[p].op /\ req'[p].step = req[p].step
              /\ req'[p].actor = req[p].actor /\ req'[p].target = req[p].target
              /\ req'[p].change = req[p].change /\ req'[p].seen = req[p].seen
              /\ ~req[p].crossed
          BY <3>2, <4>1, Crossed
        <4> QED
          BY <3>2, <4>2 DEF AdminInv, Grounded
      <3> QED
        BY <3>1, <3>2 DEF Grounded
    <2> QED
      BY <2>1, <2>2
  <1>4. \A v \in ActiveAdmins : v # u => v \in ActiveAdmins'
    BY DEF ActiveAdmins, Live
  <1>5. ASSUME founded, ~contested' PROVE ActiveAdmins' # {}
    <2>1. ~contested
      BY <1>5, Crossed
    <2>2. ActiveAdmins # {}
      BY <1>5, <2>1 DEF AdminInv, AdminRemains
    <2>3. CASE ~Removing
      BY <2>2, <2>3 DEF Removing
    <2>4. CASE Removing
      <3>1. ~req[r].crossed
        BY <1>5, <2>4, Crossed
      <3> QED
        BY <1>4, <3>1
    <2> QED
      BY <2>3, <2>4
  <1>6. AdminRemains'
    BY <1>1, <1>5 DEF AdminRemains
  <1> QED
    BY <1>2, <1>3, <1>6 DEF AdminInv

LEMMA StepAdmins == ASSUME TypeInv, AdminInv, NEW r \in Requests, Step(r) PROVE AdminInv'
  <1>0. TypeOK /\ Targets /\ req[r] \in Serving
    BY DEF TypeInv, TypeOK
  <1>1. \A ops, step : At(r, ops, step) /\ ops \subseteq Ops \ {"none"} => req[r] # Idle
    BY DEF At, Idle, Ops
  <1>2. CASE Abort(r) \/ Login(r)
    <2>1. req[r] # Idle /\ Done(r) /\ UNCHANGED <<row, up, founded, contested>>
      BY <1>1, <1>2 DEF Abort, Login, Ops
    <2> QED
      BY <2>1, RequestDone, SameRows
  <1>3. CASE FindNoSubject(r)
    BY <1>3, RequestServed DEF FindNoSubject
  <1>4. CASE Count(r)
    <2> DEFINE q == req[r]
               n == [q EXCEPT !.step = "ready"]
    <2>1. /\ q.op \in {"update", "delete"} /\ q.step = "loaded" /\ req[r] # Idle
          /\ UNCHANGED <<row, up, founded, contested>>
          /\ req' = [req EXCEPT ![r] = n]
      BY <1>1, <1>4 DEF Count, At, Ops, AdminOps
    <2>2. \E v \in ActiveAdmins : v # q.target
      BY <1>4 DEF Count
    <2>3. /\ n.op = q.op /\ n.step = "ready" /\ n.target = q.target /\ n.actor = q.actor
          /\ n.seen = q.seen /\ n.crossed = q.crossed /\ n.change = q.change
      BY <1>0 DEF Serving
    <2>4. up
      BY <2>1 DEF AdminInv, Running
    <2>5. ~q.crossed => /\ q.actor \in ActiveAdmins
                        /\ q.target = q.actor => q.op = "update" /\ q.change.status # "disabled"
      BY <2>1 DEF AdminInv, Grounded
    <2> HIDE DEF q, n
    <2> QED
      BY <2>1, <2>2, <2>3, <2>4, <2>5, SameRows, OneRequest
  <1>5. CASE Rehome(r)
    <2> DEFINE n == [req[r] EXCEPT !.seen = Seen(row[req[r].target])]
    <2>1. /\ req' = [req EXCEPT ![r] = n] /\ UNCHANGED <<row, up, founded, contested>>
          /\ req[r] # Idle /\ req[r].op = "password"
      BY <1>1, <1>5 DEF Rehome, At, Ops
    <2>2. n.op = "password"
      BY <1>0, <2>1 DEF Serving
    <2>3. up
      BY <2>1 DEF AdminInv, Running
    <2> HIDE DEF n
    <2> QED
      BY <2>1, <2>2, <2>3, SameRows, OneRequest
  <1>6. CASE CommitUpdate(r)
    <2> DEFINE q == req[r]
               u == q.target
               stored == [row[u] EXCEPT
                            !.role = Written(q.change.role, q.seen.role, row[u].role),
                            !.status = Written(q.change.status, q.seen.status, row[u].status),
                            !.local = q.change.password \/ row[u].local,
                            !.version = IF Revokes(q.change) THEN q.seen.version + 1
                                        ELSE row[u].version]
    <2>1. /\ u \in Users /\ row[u] \in Accounts /\ row[u].state = "live"
          /\ q.change \in AllChanges
          /\ q.op = "update" /\ q.step = "ready" /\ req[r] # Idle
      BY <1>0, <1>1, <1>6 DEF CommitUpdate, At, Targets, TypeOK, Serving, AdminOps, Live, Ops
    <2>2. /\ row' = [row EXCEPT ![u] = stored] /\ up' = up /\ founded' = founded
          /\ Crosses(r)
      BY <1>6 DEF CommitUpdate
    <2>3. /\ stored.state = "live"
          /\ stored.role = Written(q.change.role, q.seen.role, row[u].role)
          /\ stored.status = Written(q.change.status, q.seen.status, row[u].status)
      <3> HIDE DEF q, u
      <3> QED
        BY <2>1 DEF Accounts
    <2>4. \A v \in Users : row'[v] = IF v = u THEN stored ELSE row[v]
      <3> HIDE DEF u, stored
      <3> QED
        BY <1>0, <2>2 DEF TypeOK
    <2>5. ASSUME ~q.crossed PROVE (\E v \in ActiveAdmins : v # u) \/ u \in ActiveAdmins'
      <3>1. /\ q.actor \in ActiveAdmins
            /\ u = q.actor => /\ q.change.status # "disabled"
                              /\ q.change.role = "user" => \E v \in ActiveAdmins : v # u
        BY <2>1, <2>5 DEF AdminInv, Grounded
      <3>2. ASSUME u = q.actor, q.change.role # "user" PROVE u \in ActiveAdmins'
        <4>1. row[u].role = "admin" /\ row[u].status = "active" /\ q.change.status # "disabled"
          BY <3>1, <3>2 DEF ActiveAdmins
        <4>2. q.change.role \in {Omitted, "admin"} /\ q.change.status \in {Omitted, "active"}
          BY <2>1, <3>2, <4>1 DEF AllChanges
        <4> HIDE DEF q, u, stored
        <4>3. stored.role = "admin" /\ stored.status = "active"
          BY <2>3, <4>1, <4>2 DEF Written
        <4> QED
          BY <2>1, <2>3, <2>4, <4>3 DEF ActiveAdmins, Live
      <3> QED
        BY <3>1, <3>2
    <2> HIDE DEF stored
    <2> QED
      BY <2>1, <2>2, <2>4, <2>5, Commits
  <1>7. CASE CommitPassword(r)
    <2> DEFINE u == req[r].target
               stored == [row[u] EXCEPT !.local = TRUE, !.version = req[r].seen.version + 1]
    <2>1. /\ u \in Users /\ row[u] \in Accounts /\ Live(u) /\ req[r] # Idle
          /\ Done(r) /\ UNCHANGED <<up, founded, contested>>
      BY <1>0, <1>1, <1>7 DEF CommitPassword, At, Targets, TypeOK, AdminOps, Ops
    <2>2. row' = [row EXCEPT ![u] = stored]
      BY <1>0, <1>7, <2>1 DEF CommitPassword, TypeOK
    <2>3. stored.state = row[u].state /\ stored.role = row[u].role /\ stored.status = row[u].status
      <3> HIDE DEF u
      <3> QED
        BY <2>1 DEF Accounts
    <2> HIDE DEF u, stored
    <2>4. ActiveAdmins \subseteq ActiveAdmins'
      BY <1>0, <2>1, <2>2, <2>3 DEF ActiveAdmins, Live, TypeOK
    <2> QED
      BY <2>1, <2>4, RequestDone
  <1>8. CASE CommitDelete(r)
    <2> DEFINE u == req[r].target
    <2>1. /\ u \in Users /\ req[r] # Idle /\ req[r].op = "delete" /\ req[r].step = "ready"
          /\ Crosses(r) /\ up' = up /\ founded' = founded
          /\ row' = [row EXCEPT ![u] = [Blank EXCEPT !.state = "deleted"]]
      BY <1>0, <1>1, <1>8 DEF CommitDelete, At, Targets, AdminOps, Ops
    <2>2. ~req[r].crossed => \E v \in ActiveAdmins : v # u
      BY <2>1 DEF AdminInv, Grounded
    <2>3. \A v \in Users : v # u => row'[v] = row[v]
      BY <1>0, <2>1 DEF TypeOK
    <2> HIDE DEF u
    <2> QED
      BY <2>1, <2>2, <2>3, Commits
  <1>9. CASE \E u \in Users : Verify(r, u) \/ OwnPassword(r, u)
    BY <1>9, RequestServed DEF Verify, OwnPassword
  <1>10. CASE \E a \in Users, op \in AdminOps : Admit(r, a, op)
    <2>1. PICK a \in Users, op \in AdminOps :
             a \in ActiveAdmins /\ Serve(r, op, "admitted", a, Nobody, row[a])
      BY <1>10 DEF Admit, Signed, ActiveAdmins
    <2> QED
      BY <2>1, RequestServed
  <1>11. CASE \E u \in Users, c \in Changes \cup {NoChange} : Load(r, u, c)
    <2>1. PICK u \in Users, c \in Changes \cup {NoChange} : Load(r, u, c)
      BY <1>11
    <2> DEFINE q == req[r]
               seen == IF u = q.actor THEN q.seen ELSE Seen(row[u])
               step == IF NeedsAnother(q.op, seen, c) THEN "loaded" ELSE "ready"
               n == [q EXCEPT !.target = u, !.change = c, !.seen = seen, !.step = step]
    <2>2. /\ req' = [req EXCEPT ![r] = n] /\ UNCHANGED <<row, up, founded, contested>>
          /\ q.step = "admitted" /\ q.op \in {"update", "reset", "delete"}
          /\ u = q.actor => q.op # "delete" /\ c.status # "disabled"
      BY <2>1 DEF Load, At
    <2>3. /\ n.op = q.op /\ n.step = step /\ n.target = u /\ n.actor = q.actor
          /\ n.change = c /\ n.crossed = q.crossed
      BY <1>0 DEF Serving
    <2>4. up
      BY <2>2 DEF AdminInv, Running, Idle
    <2>5. ASSUME q.op \in {"update", "delete"}, ~q.crossed
          PROVE  /\ q.actor \in ActiveAdmins
                 /\ u = q.actor => /\ q.op = "update"
                                   /\ step = "ready" => c.role # "user"
      BY <2>2, <2>5 DEF AdminInv, Grounded, NeedsAnother
    <2>6. step # "admitted"
      OBVIOUS
    <2> HIDE DEF q, seen, step, n
    <2> QED
      BY <2>2, <2>3, <2>4, <2>5, <2>6, SameRows, OneRequest
  <1>12. CASE \E u \in Users : SignUp(r, u)
    <2>1. PICK u \in Users : SignUp(r, u)
      BY <1>12
    <2>2. PICK b \in BOOLEAN : NewAccount(u, Creation("user", "active", b), TRUE)
      BY <2>1 DEF SignUp
    <2>3. req[r] # Idle /\ Done(r) /\ UNCHANGED <<up, founded, contested>>
      BY <1>1, <2>1 DEF SignUp, Ops
    <2> QED
      BY <1>0, <2>2, <2>3, NewRows, RequestDone
  <1>13. CASE \E u \in Users, n \in Creations : CreateUser(r, u, n)
    <2>1. PICK u \in Users, n \in Creations : NewAccount(u, n, FALSE) /\ CreateUser(r, u, n)
      BY <1>13 DEF CreateUser
    <2>2. req[r] # Idle /\ Done(r) /\ UNCHANGED <<up, founded, contested>>
      BY <1>1, <2>1 DEF CreateUser, Ops, AdminOps
    <2> QED
      BY <1>0, <2>1, <2>2, NewRows, RequestDone
  <1> QED
    BY <1>2, <1>3, <1>4, <1>5, <1>6, <1>7, <1>8, <1>9, <1>10, <1>11, <1>12, <1>13 DEF Step

LEMMA RestartAdmins == ASSUME TypeInv, AdminInv, Restart PROVE AdminInv'
  <1>1. /\ \A r \in Requests : req'[r] = Idle
        /\ contested' = contested
    BY DEF Restart
  <1>2. Grounded'
    BY <1>1 DEF Grounded, Idle
  <1>3. Running'
    BY <1>1 DEF Running
  <1>4. CASE UNCHANGED <<row, founded>>
    <2>1. ActiveAdmins' = ActiveAdmins
      BY <1>4 DEF ActiveAdmins, Live
    <2>2. ActiveAdmins # {} => up'
      BY DEF Restart, ActiveAdmins
    <2> QED
      BY <1>1, <1>2, <1>3, <1>4, <2>1, <2>2 DEF AdminInv, AdminRemains
  <1>5. CASE up' /\ \E u \in Users : NewAccount(u, Creation("admin", "active", TRUE), FALSE)
    <2>1. PICK u \in Users : NewAccount(u, Creation("admin", "active", TRUE), FALSE)
      BY <1>5
    <2>2. /\ row'[u].state = "live" /\ row'[u].role = "admin" /\ row'[u].status = "active"
      BY <2>1 DEF NewAccount, Creation, TypeInv, TypeOK
    <2>3. u \in ActiveAdmins'
      BY <2>2 DEF ActiveAdmins, Live
    <2> QED
      BY <1>2, <1>3, <1>5, <2>3 DEF AdminInv, AdminRemains
  <1> QED
    BY <1>4, <1>5 DEF Restart, Bootstrap

(* Once a start has made an administrator an active one remains and every  *)
(* start succeeds, unless two removals of administrators overlapped        *)
(* (_ensure_admin_change_is_safe, api_delete_user, bootstrap_admin).       *)
THEOREM AdminsRemain == Spec => []AdminRemains
  <1>1. Init => AdminInv
    BY DEF Init, AdminInv, Grounded, Running, AdminRemains, Idle
  <1>2. TypeInv /\ AdminInv /\ [Next]_vars => AdminInv'
    <2> SUFFICES ASSUME TypeInv, AdminInv, [Next]_vars PROVE AdminInv'
      OBVIOUS
    <2>1. CASE UNCHANGED vars
      BY <2>1 DEF vars, AdminInv, Grounded, Running, AdminRemains, ActiveAdmins, Live
    <2> QED
      BY <2>1, StepAdmins, RestartAdmins DEF Next
  <1>3. AdminInv => AdminRemains
    BY DEF AdminInv
  <1> QED
    BY TypeInvariant, <1>1, <1>2, <1>3, PTL DEF Spec
=============================================================================
