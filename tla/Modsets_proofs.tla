--------------------------- MODULE Modsets_proofs ---------------------------
(***************************************************************************)
(* Proofs about Modsets, for any users, modsets, names and requests.       *)
(*                                                                         *)
(* Each property rests on what a request may rely on as long as no other   *)
(* one has crossed it: the second modset it counted is live still, nobody  *)
(* has taken the name it checked, the active modset it read is the stored  *)
(* one and the one it is about to store is visible.                        *)
(***************************************************************************)
EXTENDS Modsets, TLAPS

(* A request that settles a user has one, and one that deletes a modset,   *)
(* one; a user activates a modset for themself.                            *)
Formed(q) == /\ q.step \in {"resolve", "rehome"} \/ q.op = "activate" => q.subject \in Users
             /\ q.op = "delete" /\ q.step = "ready" => q.target \in Modsets
             /\ q.op = "activate" => q.user = q.subject /\ q.step = "ready"
             /\ q.op \in Naming => q.step = "ready"
             /\ q.op = "create" => q.target = None

TypeInv == TypeOK /\ \A r \in Requests : Formed(req[r])

Fixed == UNCHANGED <<modset, reader, active, contested, clashed, settled>>

LEMMA IdleTypes == Idle \in Serving /\ Formed(Idle) /\ Absent \in Rows
  BY ModsetsOK DEF Idle, Serving, Formed, Naming, Absent, Rows

(* What a request does to itself and, crossing them, to others. *)
LEMMA CrossingTypes ==
    ASSUME TypeInv, NEW r \in Requests, NEW q \in Serving, Formed(q),
           NEW Hit(_), Crossing(r, q, Hit)
    PROVE  req' \in [Requests -> Serving] /\ \A o \in Requests : Formed(req'[o])
  <1>1. \A o \in Requests : /\ [req[o] EXCEPT !.crossed = @ \/ Hit(o)] \in Serving
                            /\ Formed([req[o] EXCEPT !.crossed = @ \/ Hit(o)])
    <2> TAKE o \in Requests
    <2>1. req[o] \in Serving /\ Formed(req[o])
      BY DEF TypeInv, TypeOK
    <2>2. PICK b \in BOOLEAN : b = (req[o].crossed \/ Hit(o))
      OBVIOUS
    <2>3. [req[o] EXCEPT !.crossed = b] \in Serving
      BY <2>1 DEF Serving
    <2>4. Formed([req[o] EXCEPT !.crossed = b])
      BY <2>1 DEF Serving, Formed
    <2> QED
      BY <2>2, <2>3, <2>4
  <1> QED
    BY <1>1 DEF Crossing

(* A request that is crossed, or not. *)
LEMMA Marked ==
    ASSUME NEW old \in Serving, NEW b \in BOOLEAN, NEW p, p = [old EXCEPT !.crossed = b]
    PROVE  /\ p.op = old.op /\ p.step = old.step /\ p.subject = old.subject
           /\ p.target = old.target /\ p.name = old.name /\ p.was = old.was
           /\ p.crossed = b
  BY DEF Serving

LEMMA ServeForm ==
    ASSUME TypeInv, NEW r \in Requests, NEW q \in Serving, Formed(q),
           req' = [req EXCEPT ![r] = q], Fixed
    PROVE  TypeInv'
  <1>1. req' \in [Requests -> Serving] /\ \A o \in Requests : Formed(req'[o])
    BY DEF TypeInv, TypeOK
  <1>2. References'
    BY DEF TypeInv, TypeOK, References, Live, Fixed
  <1> QED
    BY <1>1, <1>2 DEF TypeInv, TypeOK, Fixed, Formed

LEMMA OnwardTypes ==
    ASSUME NEW q \in Serving, Formed(q), q.step \in {"resolve", "rehome"}
    PROVE  Onward(q) \in Serving /\ Formed(Onward(q))
  <1>1. CASE q.op = "delete"
    BY <1>1, IdleTypes DEF Onward, Serving, Formed, Idle, Naming
  <1>2. CASE q.op # "delete"
    BY <1>2, IdleTypes DEF Onward
  <1> QED
    BY <1>1, <1>2
-----------------------------------------------------------------------------
LEMMA StoreTypes ==
    ASSUME TypeInv, NEW r \in Requests, NEW s \in Modsets, NEW row \in Rows,
           row.state = "live", Store(r, s, row),
           UNCHANGED <<reader, active, contested>>, settled' \subseteq settled
    PROVE  TypeInv'
  <1>1. req' \in [Requests -> Serving] /\ \A o \in Requests : Formed(req'[o])
    BY IdleTypes, CrossingTypes DEF Store
  <1>2. modset' \in [Modsets -> Rows] /\ Live \subseteq Live'
    BY DEF Store, TypeInv, TypeOK, Live
  <1>3. References'
    BY <1>2 DEF TypeInv, TypeOK, References
  <1>4. clashed' \subseteq Modsets
    BY DEF Store, TypeInv, TypeOK
  <1> QED
    BY <1>1, <1>2, <1>3, <1>4 DEF TypeInv, TypeOK, Formed

LEMMA DeleteTypes ==
    ASSUME TypeInv, NEW r \in Requests, NEW late \in SUBSET Users, Delete(r, late)
    PROVE  TypeInv'
  <1> PICK q \in Serving : q = req[r] /\ Formed(q)
    BY DEF TypeInv, TypeOK
  <1>0. q.target \in Modsets /\ req[r].target = q.target
    BY DEF Formed, Delete, At
  <1>1. [q EXCEPT !.step = "next", !.target = None, !.crossed = FALSE] \in Serving
        /\ Formed([q EXCEPT !.step = "next", !.target = None, !.crossed = FALSE])
    BY DEF Serving, Formed, Delete, At, Naming
  <1>2. req' \in [Requests -> Serving] /\ \A o \in Requests : Formed(req'[o])
    BY <1>1, CrossingTypes DEF Delete
  <1>3. modset' \in [Modsets -> Rows] /\ Live' = Live \ {q.target}
    BY <1>0, IdleTypes DEF Delete, TypeInv, TypeOK, Live, Absent, Rows
  <1>4. reader' \in [Modsets -> SUBSET Users] /\ active' \in [Users -> Modsets \cup {None}]
    BY <1>0 DEF Delete, TypeInv, TypeOK
  <1>5. References'
    <2>1. \A u \in Users : active'[u] \in Live' \cup {None}
      BY <1>0, <1>3 DEF Delete, Had, TypeInv, TypeOK, References
    <2>2. \A s \in Modsets \ Live' : reader'[s] = {}
      BY <1>0, <1>3 DEF Delete, TypeInv, TypeOK, References
    <2> QED
      BY <2>1, <2>2 DEF References
  <1>6. contested' \in BOOLEAN /\ clashed' \subseteq Modsets /\ settled' \subseteq Users
    BY DEF Delete, TypeInv, TypeOK, Serving
  <1> QED
    BY <1>2, <1>3, <1>4, <1>5, <1>6 DEF TypeInv, TypeOK, Formed

(* Rehome and Activate store an active modset. *)
LEMMA ChooseTypes ==
    ASSUME TypeInv, NEW r \in Requests, NEW q \in Serving, q = req[r], q.subject \in Users,
           NEW n \in Serving, Formed(n), NEW Hit(_), Crossing(r, n, Hit), Settle(q),
           NEW s \in Live \cup {None},
           active' = [active EXCEPT ![q.subject] = s] \/ active' = active,
           UNCHANGED <<modset, reader, contested, clashed>>
    PROVE  TypeInv'
  <1>1. req' \in [Requests -> Serving] /\ \A o \in Requests : Formed(req'[o])
    BY CrossingTypes
  <1>2. Live' = Live /\ Live \subseteq Modsets
    BY DEF Live
  <1>3. active' \in [Users -> Modsets \cup {None}] /\ References'
    BY <1>2 DEF TypeInv, TypeOK, References
  <1>4. settled' \subseteq Users
    BY DEF Settle, TypeInv, TypeOK
  <1> QED
    BY <1>1, <1>2, <1>3, <1>4 DEF TypeInv, TypeOK, Formed

LEMMA AccessTypes ==
    ASSUME TypeInv, NEW s \in Modsets, NEW users \in Shares, ChangeAccess(s, users)
    PROVE  TypeInv'
  <1> PICK changed : changed = (users \cup reader[s]) \ (users \cap reader[s])
    OBVIOUS
  <1>1. \A o \in Requests : req'[o] = [req[o] EXCEPT !.crossed = req[o].crossed \/ Homing(o, changed)]
    BY DEF ChangeAccess
  <1>2. \A o \in Requests : req'[o] \in Serving /\ Formed(req'[o])
    <2> TAKE o \in Requests
    <2>1. req[o] \in Serving /\ Formed(req[o])
      BY DEF TypeInv, TypeOK
    <2>2. PICK b \in BOOLEAN : b = (req[o].crossed \/ Homing(o, changed))
      OBVIOUS
    <2>3. [req[o] EXCEPT !.crossed = b] \in Serving /\ Formed([req[o] EXCEPT !.crossed = b])
      BY <2>1 DEF Serving, Formed
    <2> QED
      BY <1>1, <2>2, <2>3
  <1>3. req' \in [Requests -> Serving]
    BY <1>2 DEF ChangeAccess
  <1>4. reader' \in [Modsets -> SUBSET Users] /\ References'
    BY ModsetsOK DEF ChangeAccess, TypeInv, TypeOK, References, Live
  <1> QED
    BY <1>2, <1>3, <1>4 DEF ChangeAccess, TypeInv, TypeOK, Formed

LEMMA AskTypes ==
    ASSUME TypeInv, NEW r \in Requests, NEW u \in Users, Ask(r, u)
    PROVE  TypeInv'
  <1> SUFFICES \E q \in Serving : Formed(q) /\ Serve(r, q)
    BY ServeForm DEF Serve, Fixed
  <1> USE IdleTypes, ModsetsOK DEF Idle, Serving, Formed, Naming
  <1>1. ASSUME NEW n \in Created, CheckCreate(r, u, n) PROVE \E q \in Serving : Formed(q) /\ Serve(r, q)
    BY <1>1 DEF CheckCreate
  <1>2. ASSUME NEW s \in Modsets, NEW n \in Renamed, CheckRename(r, u, s, n)
        PROVE  \E q \in Serving : Formed(q) /\ Serve(r, q)
    BY <1>2 DEF CheckRename
  <1>3. ASSUME NEW s \in Modsets, CheckDelete(r, u, s) PROVE \E q \in Serving : Formed(q) /\ Serve(r, q)
    <2>1. Had(s) \in SUBSET Users
      BY DEF Had
    <2> QED
      BY <1>3, <2>1 DEF CheckDelete
  <1>4. ASSUME Home(r, u) PROVE \E q \in Serving : Formed(q) /\ Serve(r, q)
    <2> PICK w \in Modsets \cup {None} : w = active[u]
      BY DEF TypeInv, TypeOK
    <2> QED
      BY <1>4 DEF Home
  <1>5. ASSUME NEW s \in Modsets, CheckActivate(r, u, s) PROVE \E q \in Serving : Formed(q) /\ Serve(r, q)
    <2> PICK w \in Modsets \cup {None} : w = active[u]
      BY DEF TypeInv, TypeOK
    <2> QED
      BY <1>5 DEF CheckActivate
  <1> QED
    BY <1>1, <1>2, <1>3, <1>4, <1>5 DEF Ask

LEMMA NextTypes ==
    ASSUME NEW q \in Serving, NEW op \in {"home", "delete"}, NEW v \in Users,
           NEW w \in Modsets \cup {None}, NEW todo \in SUBSET Users
    PROVE  [q EXCEPT !.op = op, !.step = "resolve", !.subject = v, !.was = w,
                     !.todo = todo] \in Serving
  BY DEF Serving

LEMMA FallbackTypes ==
    ASSUME NEW q \in Serving, NEW s \in Modsets \cup {None}
    PROVE  [q EXCEPT !.step = "rehome", !.was = s] \in Serving
  BY DEF Serving

LEMMA ProceedTypes ==
    ASSUME TypeInv, NEW r \in Requests, Proceed(r) PROVE TypeInv'
  <1>0. req[r] \in Serving /\ Formed(req[r])
    BY DEF TypeInv, TypeOK
  <1>1. CASE Abort(r)
    BY <1>1, IdleTypes, ServeForm DEF Abort, Fixed
  <1>2. CASE Resolve(r)
    <2> PICK q \in Serving : q = req[r]
      BY <1>0
    <2>1. Onward(q) \in Serving /\ Formed(Onward(q))
      BY <1>0, <1>2, OnwardTypes DEF Resolve
    <2>2. req' \in [Requests -> Serving] /\ \A o \in Requests : Formed(req'[o])
      BY <1>2, <2>1 DEF Resolve, TypeInv, TypeOK
    <2>3. settled' \subseteq Users
      BY <1>0, <1>2 DEF Resolve, Settle, Formed, TypeInv, TypeOK
    <2>4. References'
      BY <1>2 DEF Resolve, TypeInv, TypeOK, References, Live
    <2> QED
      BY <1>2, <2>2, <2>3, <2>4 DEF Resolve, TypeInv, TypeOK, Formed
  <1>3. ASSUME NEW v \in Users, NextUser(r, v) PROVE TypeInv'
    <2> PICK q \in Serving : q = req[r] /\ Formed(q)
      BY <1>0
    <2> PICK w \in Modsets \cup {None} : w = active[v]
      BY DEF TypeInv, TypeOK
    <2> PICK op \in {"home", "delete"} : op = IF q.todo = {} THEN "home" ELSE "delete"
      OBVIOUS
    <2> PICK todo \in SUBSET Users : todo = q.todo \ {v}
      BY DEF Serving
    <2> PICK n : n = [q EXCEPT !.op = op, !.step = "resolve", !.subject = v, !.was = w,
                               !.todo = todo]
      OBVIOUS
    <2>1. n \in Serving
      BY NextTypes
    <2>4. Formed(n)
      BY DEF Serving, Formed, Naming
    <2>2. req' = [req EXCEPT ![r] = n]
      BY <1>3 DEF NextUser
    <2>3. Fixed
      BY <1>3 DEF NextUser, Fixed
    <2> QED
      BY <2>1, <2>2, <2>3, <2>4, ServeForm
  <1>4. ASSUME NEW s \in Modsets \cup {None}, Fallback(r, s) PROVE TypeInv'
    <2> PICK q \in Serving : q = req[r] /\ Formed(q)
      BY <1>0
    <2> PICK n : n = [q EXCEPT !.step = "rehome", !.was = s]
      OBVIOUS
    <2>0. q.op \notin Naming \cup {"activate", "create"} /\ q.subject \in Users
      BY <1>4 DEF Fallback, Formed, Naming
    <2>1. n \in Serving
      BY FallbackTypes
    <2>4. Formed(n)
      BY <2>0 DEF Serving, Formed, Naming
    <2>2. req' = [req EXCEPT ![r] = n]
      BY <1>4 DEF Fallback, TypeInv, TypeOK
    <2>3. Fixed
      BY <1>4 DEF Fallback, Fixed
    <2> QED
      BY <2>1, <2>2, <2>3, <2>4, ServeForm
  <1> QED
    BY <1>1, <1>2, <1>3, <1>4 DEF Proceed

LEMMA CommitTypes ==
    ASSUME TypeInv, NEW r \in Requests, Commit(r) PROVE TypeInv'
  <1>0. req[r] \in Serving /\ Formed(req[r])
    BY DEF TypeInv, TypeOK
  <1>1. ASSUME NEW s \in Modsets, Insert(r, s) PROVE TypeInv'
    <2> PICK row \in Rows : row = [state |-> "live", name |-> req[r].name, owner |-> req[r].user]
      BY <1>0 DEF Serving, Rows
    <2>1. Store(r, s, row) /\ row.state = "live"
      BY <1>1 DEF Insert
    <2>2. settled' \subseteq settled /\ UNCHANGED <<reader, active, contested>>
      BY <1>1 DEF Insert
    <2> QED
      BY <2>1, <2>2, StoreTypes
  <1>2. CASE Rename(r)
    <2> PICK s \in Modsets : s = req[r].target
      BY <1>2 DEF Rename, Live
    <2> PICK row : row = [modset[s] EXCEPT !.name = req[r].name]
      OBVIOUS
    <2> PICK old \in Rows : old = modset[s]
      BY DEF TypeInv, TypeOK
    <2> PICK n \in Names : n = req[r].name
      BY <1>0 DEF Serving
    <2>1. old.state = "live" /\ row = [old EXCEPT !.name = n]
      BY <1>2 DEF Rename, Live
    <2>2. row \in Rows /\ row.state = "live"
      BY <2>1 DEF Rows
    <2>3. Store(r, s, row)
      BY <1>2 DEF Rename
    <2>4. settled' \subseteq settled /\ UNCHANGED <<reader, active, contested>>
      BY <1>2 DEF Rename
    <2> QED
      BY <2>2, <2>3, <2>4, StoreTypes
  <1>3. ASSUME NEW late \in SUBSET Users, Delete(r, late) PROVE TypeInv'
    BY <1>3, DeleteTypes
  <1>4. CASE Rehome(r)
    <2> PICK q \in Serving : q = req[r] /\ Formed(q)
      BY <1>0
    <2>1. q.subject \in Users /\ q.was \in Live \cup {None}
      BY <1>4 DEF Rehome, Formed
    <2> PICK s \in Live \cup {None} : s = q.was
      BY <2>1
    <2>2. Onward(q) \in Serving /\ Formed(Onward(q))
      BY <1>4, OnwardTypes DEF Rehome
    <2> QED
      BY <1>4, <2>1, <2>2, ChooseTypes DEF Rehome
  <1>5. CASE Activate(r)
    <2> PICK q \in Serving : q = req[r] /\ Formed(q)
      BY <1>0
    <2>1. q.subject \in Users /\ q.target \in Live
      BY <1>5 DEF Activate, At, Formed
    <2> PICK s \in Live \cup {None} : s = q.target
      BY <2>1
    <2>2. active' = [active EXCEPT ![q.subject] = s] \/ active' = active
      BY <1>5 DEF Activate
    <2> QED
      BY <1>5, <2>1, <2>2, IdleTypes, ChooseTypes DEF Activate
  <1> QED
    BY <1>1, <1>2, <1>3, <1>4, <1>5 DEF Commit

LEMMA InitTypes == ASSUME Init PROVE TypeInv
  <1> PICK s \in Modsets : modset = [t \in Modsets |-> IF t = s THEN [Absent EXCEPT !.state = "live"]
                                                      ELSE Absent]
    BY DEF Init
  <1>1. [Absent EXCEPT !.state = "live"] \in Rows
    BY IdleTypes DEF Rows
  <1>2. modset \in [Modsets -> Rows]
    BY <1>1, IdleTypes
  <1>3. References
    BY DEF Init, References
  <1> QED
    BY <1>2, <1>3, IdleTypes DEF Init, TypeInv, TypeOK

LEMMA TypesStay == TypeInv /\ [Next]_vars => TypeInv'
  <1> SUFFICES ASSUME TypeInv, [Next]_vars PROVE TypeInv'
    OBVIOUS
  <1>1. ASSUME NEW r \in Requests, Proceed(r) \/ Commit(r) \/ \E u \in Users : Ask(r, u)
        PROVE  TypeInv'
    BY <1>1, ProceedTypes, CommitTypes, AskTypes
  <1>2. ASSUME NEW s \in Modsets, NEW users \in Shares, ChangeAccess(s, users) PROVE TypeInv'
    BY <1>2, AccessTypes
  <1>3. CASE UNCHANGED vars
    BY <1>3 DEF vars, TypeInv, TypeOK, References, Live, Formed
  <1> QED
    BY <1>1, <1>2, <1>3 DEF Next

(* Rows, requests and references are well-formed: an active modset is a    *)
(* row, and no group lets anybody see a modset that is gone.               *)
THEOREM TypeCorrect == Spec => []TypeOK
  <1>1. TypeInv => TypeOK
    BY DEF TypeInv
  <1> QED
    BY <1>1, InitTypes, TypesStay, PTL DEF Spec
-----------------------------------------------------------------------------
(* What a request that has not been crossed may rely on. *)
Right(u, s) == IF Visible(u) = {} THEN s = None ELSE s \in Visible(u)

Counts(q) == q.op = "delete" /\ q.step = "ready" /\ ~q.crossed
             => \E t \in Live : t # q.target
Unclaimed(q) == q.op \in Naming /\ ~q.crossed
                => \A t \in Live \ {q.target} : Lower[modset[t].name] # Fold[q.name]
Views(q) == q.subject \in Users /\ ~q.crossed
            => /\ q.step = "resolve" => q.was = active[q.subject]
               /\ q.step = "rehome" => /\ Right(q.subject, q.was)
                                       /\ active[q.subject] \notin Visible(q.subject)
               /\ q.op = "activate" => /\ q.target \in Visible(q.subject)
                                       /\ q.was = active[q.subject]

Sound == \A r \in Requests : Counts(req[r]) /\ Unclaimed(req[r]) /\ Views(req[r])

IInv == TypeInv /\ Sound /\ ModsetRemains /\ NamesDistinct /\ ActiveVisible

LEMMA IdleSound == Counts(Idle) /\ Unclaimed(Idle) /\ Views(Idle)
  BY ModsetsOK DEF Counts, Unclaimed, Views, Idle, Naming

LEMMA OnwardSound == \A q \in Serving : LET n == Onward(q)
                                        IN Counts(n) /\ Unclaimed(n) /\ Views(n)
  <1> SUFFICES ASSUME NEW q \in Serving
               PROVE  Counts(Onward(q)) /\ Unclaimed(Onward(q)) /\ Views(Onward(q))
    OBVIOUS
  <1>1. CASE q.op = "delete"
    <2>1. /\ Onward(q).op = "delete" /\ Onward(q).step = "next"
          /\ Onward(q).subject = Nobody
      BY <1>1 DEF Onward, Serving
    <2> QED
      BY <2>1, ModsetsOK DEF Counts, Unclaimed, Views, Naming
  <1>2. CASE q.op # "delete"
    BY <1>2, IdleSound DEF Onward
  <1> QED
    BY <1>1, <1>2

(* A request that goes on alone. *)
LEMMA AloneSound ==
    ASSUME IInv, NEW r \in Requests, NEW q \in Serving, Counts(q), Unclaimed(q), Views(q),
           req' = [req EXCEPT ![r] = q],
           UNCHANGED <<modset, reader, active, contested, clashed>>
    PROVE  /\ Sound' /\ ModsetRemains' /\ NamesDistinct'
           /\ settled' \subseteq settled => ActiveVisible'
  <1>1. Live' = Live /\ \A u \in Users : Visible(u)' = Visible(u)
    BY DEF Live, Visible, Manages
  <1>2. ASSUME NEW o \in Requests
        PROVE  (Counts(req[o]) /\ Unclaimed(req[o]) /\ Views(req[o]))'
    <2>1. PICK p \in Serving : /\ p = req'[o]
                               /\ Counts(p) /\ Unclaimed(p) /\ Views(p)
      BY DEF IInv, TypeInv, TypeOK, Sound
    <2> QED
      BY <1>1, <2>1 DEF Counts, Unclaimed, Views, Right
  <1>3. ModsetRemains' /\ NamesDistinct'
    BY <1>1 DEF IInv, ModsetRemains, NamesDistinct
  <1>4. settled' \subseteq settled => ActiveVisible'
    BY <1>1 DEF IInv, ActiveVisible, TypeInv, TypeOK
  <1> QED
    BY <1>2, <1>3, <1>4 DEF Sound

LEMMA AskSound ==
    ASSUME IInv, NEW r \in Requests, NEW u \in Users, Ask(r, u)
    PROVE  Sound' /\ ModsetRemains' /\ NamesDistinct' /\ ActiveVisible'
  <1> SUFFICES \E q \in Serving : Counts(q) /\ Unclaimed(q) /\ Views(q) /\ Serve(r, q)
    BY AloneSound DEF Serve
  <1> USE ModsetsOK DEF Idle, Serving, Counts, Unclaimed, Views, Naming
  <1>1. ASSUME NEW n \in Created, CheckCreate(r, u, n)
        PROVE  \E q \in Serving : Counts(q) /\ Unclaimed(q) /\ Views(q) /\ Serve(r, q)
    BY <1>1 DEF CheckCreate, Taken
  <1>2. ASSUME NEW s \in Modsets, NEW n \in Renamed, CheckRename(r, u, s, n)
        PROVE  \E q \in Serving : Counts(q) /\ Unclaimed(q) /\ Views(q) /\ Serve(r, q)
    BY <1>2 DEF CheckRename, Taken
  <1>3. ASSUME NEW s \in Modsets, CheckDelete(r, u, s)
        PROVE  \E q \in Serving : Counts(q) /\ Unclaimed(q) /\ Views(q) /\ Serve(r, q)
    <2>1. Had(s) \in SUBSET Users
      BY DEF Had
    <2> QED
      BY <1>3, <2>1 DEF CheckDelete
  <1>4. ASSUME Home(r, u)
        PROVE  \E q \in Serving : Counts(q) /\ Unclaimed(q) /\ Views(q) /\ Serve(r, q)
    <2> PICK w \in Modsets \cup {None} : w = active[u]
      BY DEF IInv, TypeInv, TypeOK
    <2> QED
      BY <1>4 DEF Home
  <1>5. ASSUME NEW s \in Modsets, CheckActivate(r, u, s)
        PROVE  \E q \in Serving : Counts(q) /\ Unclaimed(q) /\ Views(q) /\ Serve(r, q)
    <2> PICK w \in Modsets \cup {None} : w = active[u]
      BY DEF IInv, TypeInv, TypeOK
    <2> QED
      BY <1>5 DEF CheckActivate
  <1> QED
    BY <1>1, <1>2, <1>3, <1>4, <1>5 DEF Ask

LEMMA ProceedSound ==
    ASSUME IInv, NEW r \in Requests, Proceed(r)
    PROVE  Sound' /\ ModsetRemains' /\ NamesDistinct' /\ ActiveVisible'
  <1> PICK q \in Serving : q = req[r] /\ Formed(q) /\ Views(q)
    BY DEF IInv, TypeInv, TypeOK, Sound
  <1>1. CASE Abort(r)
    BY <1>1, IdleTypes, IdleSound, AloneSound DEF Abort
  <1>2. CASE Resolve(r)
    <2>1. Sound' /\ ModsetRemains' /\ NamesDistinct'
      <3> PICK n \in Serving : n = Onward(q)
        BY <1>2, OnwardTypes DEF Resolve
      <3>1. Counts(n) /\ Unclaimed(n) /\ Views(n)
        BY OnwardSound
      <3> QED
        BY <1>2, <3>1, AloneSound DEF Resolve
    <2>2. q.subject \in Users
      BY <1>2 DEF Resolve, Formed
    <2>3. ~q.crossed => Right(q.subject, active[q.subject])
      BY <1>2, <2>2 DEF Resolve, Views, Keeps, Right
    <2>4. \A u \in Users : Visible(u)' = Visible(u) /\ active'[u] = active[u]
      BY <1>2 DEF Resolve, Visible, Live, Manages
    <2>5. ActiveVisible'
      <3>1. settled' = IF q.crossed THEN settled \ {q.subject} ELSE settled \cup {q.subject}
        BY <1>2 DEF Resolve, Settle
      <3>2. \A u \in settled : Right(u, active[u])
        BY DEF ActiveVisible, IInv, Right
      <3>3. \A u \in settled' : Right(u, active[u])
        BY <2>3, <3>1, <3>2
      <3>4. settled' \subseteq Users
        BY <2>2, <3>1 DEF IInv, TypeInv, TypeOK
      <3> QED
        BY <2>4, <3>3, <3>4 DEF ActiveVisible, Right
    <2> QED
      BY <2>1, <2>5
  <1>3. ASSUME NEW v \in Users, NextUser(r, v)
        PROVE  Sound' /\ ModsetRemains' /\ NamesDistinct' /\ ActiveVisible'
    <2> PICK w \in Modsets \cup {None} : w = active[v]
      BY DEF IInv, TypeInv, TypeOK
    <2> PICK op \in {"home", "delete"} : op = IF q.todo = {} THEN "home" ELSE "delete"
      OBVIOUS
    <2> PICK todo \in SUBSET Users : todo = q.todo \ {v}
      BY DEF Serving
    <2> PICK n : n = [q EXCEPT !.op = op, !.step = "resolve", !.subject = v, !.was = w,
                               !.todo = todo]
      OBVIOUS
    <2>1. n \in Serving
      BY NextTypes
    <2>2. Counts(n) /\ Unclaimed(n) /\ Views(n)
      BY DEF Serving, Counts, Unclaimed, Views, Naming
    <2>3. req' = [req EXCEPT ![r] = n]
      BY <1>3 DEF NextUser
    <2> QED
      BY <1>3, <2>1, <2>2, <2>3, AloneSound DEF NextUser
  <1>4. ASSUME NEW s \in Modsets \cup {None}, Fallback(r, s)
        PROVE  Sound' /\ ModsetRemains' /\ NamesDistinct' /\ ActiveVisible'
    <2> PICK n : n = [q EXCEPT !.step = "rehome", !.was = s]
      OBVIOUS
    <2>1. n \in Serving
      BY FallbackTypes
    <2>2. q.step = "resolve" /\ q.subject \in Users /\ q.op # "activate" /\ q.op \notin Naming
      BY <1>4 DEF Fallback, Formed
    <2>3. /\ n.step = "rehome" /\ n.was = s /\ n.op = q.op /\ n.subject = q.subject
          /\ n.crossed = q.crossed
      BY DEF Serving
    <2>4. Right(q.subject, s) /\ q.was \notin Visible(q.subject)
      BY <1>4 DEF Fallback, Keeps, Right
    <2>5. Counts(n) /\ Unclaimed(n) /\ Views(n)
      BY <2>2, <2>3, <2>4 DEF Counts, Unclaimed, Views
    <2>6. req' = [req EXCEPT ![r] = n]
      BY <1>4 DEF Fallback, IInv, TypeInv, TypeOK
    <2> QED
      BY <1>4, <2>1, <2>5, <2>6, AloneSound DEF Fallback
  <1> QED
    BY <1>1, <1>2, <1>3, <1>4 DEF Proceed
-----------------------------------------------------------------------------
(* A name is stored: of a new modset, or of one whose owner stays. *)
LEMMA StoreSound ==
    ASSUME IInv, TypeInv', NEW r \in Requests, NEW s \in Modsets, NEW row \in Rows,
           row.state = "live", Store(r, s, row), UNCHANGED <<reader, active, contested>>,
           req[r].op \in Naming, row.name = req[r].name,
           \/ s \notin Live /\ req[r].target = None
              /\ settled' = {v \in settled : active[v] # None}
           \/ s \in Live /\ req[r].target = s /\ row.owner = modset[s].owner
              /\ settled' = settled
    PROVE  Sound' /\ ModsetRemains' /\ NamesDistinct' /\ ActiveVisible'
  <1>1. modset' = [modset EXCEPT ![s] = row] /\ Live' = Live \cup {s}
    BY DEF Store, Live, IInv, TypeInv, TypeOK
  <1>2. \A u \in Users : Visible(u) \subseteq Visible(u)'
    BY <1>1 DEF Visible, Manages, IInv, TypeInv, TypeOK
  <1>3. \A u \in Users \ (Admins \cup {row.owner}) : Visible(u)' = Visible(u)
    <2>1. s \notin Live => reader[s] = {}
      BY DEF IInv, TypeInv, TypeOK, References
    <2> QED
      BY <1>1, <2>1 DEF Visible, Manages, IInv, TypeInv, TypeOK
  <1>4. s \in Live => \A u \in Users : Visible(u)' = Visible(u)
    BY <1>1 DEF Visible, Manages, IInv, TypeInv, TypeOK, Live
  <1>5. ASSUME NEW o \in Requests
        PROVE  (Counts(req[o]) /\ Unclaimed(req[o]) /\ Views(req[o]))'
    <2>1. CASE o = r
      <3>1. req'[o] = Idle
        BY <2>1 DEF Store, Crossing
      <3> QED
        BY <3>1, ModsetsOK DEF Counts, Unclaimed, Views, Idle, Naming
    <2>2. CASE o # r
      <3> PICK p \in Serving : p = req'[o]
        BY DEF TypeInv, TypeOK
      <3>1. ~p.crossed => /\ Counts(p) /\ Unclaimed(p) /\ Views(p)
                          /\ p.op \in Naming => Lower[row.name] # Fold[p.name]
                          /\ p.subject \notin Admins \cup {row.owner}
        <4> PICK old \in Serving : old = req[o] /\ Counts(old) /\ Unclaimed(old) /\ Views(old)
          BY DEF IInv, TypeInv, TypeOK, Sound
        <4> PICK hit \in BOOLEAN :
                 hit = (\/ /\ req[o].op \in Naming
                           /\ Lower[row.name] = Fold[req[o].name]
                        \/ Homing(o, Admins \cup {row.owner}))
          OBVIOUS
        <4> PICK b \in BOOLEAN : b = (req[o].crossed \/ hit)
          OBVIOUS
        <4>1. p = [old EXCEPT !.crossed = b]
          BY <2>2 DEF Store, Crossing
        <4>2. /\ p.op = old.op /\ p.step = old.step /\ p.subject = old.subject
              /\ p.target = old.target /\ p.name = old.name /\ p.was = old.was
              /\ p.crossed = b
          BY <4>1, Marked
        <4> QED
          BY <4>2 DEF Counts, Unclaimed, Views, Homing
      <3>2. Counts(p)'
        BY <1>1, <3>1 DEF Counts
      <3>3. Unclaimed(p)'
        BY <1>1, <3>1 DEF Unclaimed, IInv, TypeInv, TypeOK, Live
      <3>4. Views(p)'
        BY <1>3, <3>1 DEF Views, Right
      <3> QED
        BY <3>2, <3>3, <3>4 DEF Counts, Unclaimed, Views, Right
    <2> QED
      BY <2>1, <2>2
  <1>6. ModsetRemains'
    BY <1>1 DEF ModsetRemains
  <1>7. NamesDistinct'
    <2>1. Unclaimed(req[r])
      BY DEF IInv, Sound
    <2>2. clashed' = IF req[r].crossed THEN clashed \cup {s} ELSE clashed \ {s}
      BY DEF Store
    <2>3. ASSUME NEW t \in Live' \ clashed', t # s
          PROVE  /\ t \in Live \ clashed /\ modset'[t] = modset[t]
                 /\ s \notin clashed' => Lower[modset[t].name] # Fold[row.name]
      BY <1>1, <2>1, <2>2, <2>3, ModsetsOK DEF Unclaimed, IInv, TypeInv, TypeOK, Live
    <2>4. modset'[s].name = row.name
      BY <1>1 DEF IInv, TypeInv, TypeOK
    <2> QED
      BY <2>3, <2>4 DEF NamesDistinct, Folds, IInv
  <1>8. ActiveVisible'
    BY <1>2, <1>4 DEF ActiveVisible, IInv, TypeInv, TypeOK
  <1> QED
    BY <1>5, <1>6, <1>7, <1>8 DEF Sound

LEMMA DeleteSound ==
    ASSUME IInv, TypeInv', NEW r \in Requests, NEW late \in SUBSET Users, Delete(r, late)
    PROVE  Sound' /\ ModsetRemains' /\ NamesDistinct' /\ ActiveVisible'
  <1> PICK q \in Serving : q = req[r] /\ Formed(q) /\ Counts(q)
    BY DEF IInv, TypeInv, TypeOK, Sound
  <1> PICK s \in Modsets : s = q.target
    BY DEF Formed, Delete, At
  <1> PICK cleared : cleared = Had(s) \cup late
    OBVIOUS
  <1> PICK unhomed : unhomed = {v \in Users : v \in cleared \/ s \in Visible(v)}
    OBVIOUS
  <1>1. /\ modset' = [modset EXCEPT ![s] = [Absent EXCEPT !.state = "deleted"]]
        /\ Live' = Live \ {s}
        /\ reader' = [reader EXCEPT ![s] = {}]
    BY DEF Delete, Live, Absent, IInv, TypeInv, TypeOK
  <1>2. \A u \in Users : s \notin Visible(u) => Visible(u)' = Visible(u)
    BY <1>1 DEF Visible, Manages, IInv, TypeInv, TypeOK
  <1>3. \A v \in Users : v \notin cleared => active'[v] = active[v]
    BY DEF Delete
  <1>4. ASSUME NEW o \in Requests
        PROVE  (Counts(req[o]) /\ Unclaimed(req[o]) /\ Views(req[o]))'
    <2>1. CASE o = r
      <3> PICK n : n = [q EXCEPT !.step = "next", !.target = None, !.crossed = FALSE]
        OBVIOUS
      <3>1. req'[o] = n
        BY <2>1 DEF Delete, Crossing
      <3>2. n.step = "next" /\ n.op = "delete"
        BY DEF Serving, Delete, At
      <3> QED
        BY <3>1, <3>2 DEF Counts, Unclaimed, Views, Naming
    <2>2. CASE o # r
      <3> PICK p \in Serving : p = req'[o]
        BY DEF TypeInv, TypeOK
      <3>1. ~p.crossed => /\ Counts(p) /\ Unclaimed(p) /\ Views(p)
                          /\ ~(p.op = "delete" /\ p.step = "ready")
                          /\ p.subject \notin unhomed
        <4> PICK old \in Serving : old = req[o] /\ Counts(old) /\ Unclaimed(old) /\ Views(old)
          BY DEF IInv, TypeInv, TypeOK, Sound
        <4> PICK hit \in BOOLEAN : hit = (At(o, "delete", "ready") \/ Homing(o, unhomed))
          OBVIOUS
        <4> PICK b \in BOOLEAN : b = (req[o].crossed \/ hit)
          OBVIOUS
        <4>1. p = [old EXCEPT !.crossed = b]
          BY <2>2 DEF Delete, Crossing
        <4>2. /\ p.op = old.op /\ p.step = old.step /\ p.subject = old.subject
              /\ p.target = old.target /\ p.name = old.name /\ p.was = old.was
              /\ p.crossed = b
          BY <4>1, Marked
        <4> QED
          BY <4>2 DEF Counts, Unclaimed, Views, Homing, At
      <3>2. Counts(p)'
        BY <3>1 DEF Counts
      <3>3. Unclaimed(p)'
        BY <1>1, <3>1 DEF Unclaimed, IInv, TypeInv, TypeOK
      <3>4. Views(p)'
        BY <1>2, <1>3, <3>1 DEF Views, Right
      <3> QED
        BY <3>2, <3>3, <3>4 DEF Counts, Unclaimed, Views, Right
    <2> QED
      BY <2>1, <2>2
  <1>5. ModsetRemains'
    <2>1. contested' = (contested \/ (q.crossed /\ s \in Live)) /\ At(r, "delete", "ready")
      BY DEF Delete
    <2>2. ~q.crossed => \E t \in Live : t # s
      BY <2>1 DEF Counts, At
    <2> QED
      BY <1>1, <2>1, <2>2 DEF ModsetRemains, IInv
  <1>6. NamesDistinct'
    BY <1>1 DEF NamesDistinct, Delete, IInv, TypeInv, TypeOK
  <1>7. ActiveVisible'
    <2>1. settled' = {v \in settled \ cleared : s \notin Visible(v)}
      BY DEF Delete
    <2> QED
      BY <1>2, <1>3, <2>1 DEF ActiveVisible, IInv, TypeInv, TypeOK
  <1> QED
    BY <1>4, <1>5, <1>6, <1>7 DEF Sound

Mark(o, hits) == [req[o] EXCEPT !.crossed = req[o].crossed \/ o \in hits]

(* The active modset of a user is stored, or is what it was. *)
LEMMA ChooseSound ==
    ASSUME IInv, TypeInv', NEW r \in Requests, NEW q \in Serving, q = req[r],
           q.subject \in Users, NEW n \in Serving, Counts(n), Unclaimed(n), Views(n),
           n.subject \notin Users, NEW hits, req'[r] = n, Settle(q),
           \A o \in Requests \ {r} : req'[o] = Mark(o, hits),
           NEW s, ~q.crossed => Right(q.subject, s),
           \/ /\ active' = [active EXCEPT ![q.subject] = s]
              /\ \A o \in Requests : Homing(o, {q.subject}) => o \in hits
           \/ active' = active /\ (~q.crossed => s = active[q.subject]),
           UNCHANGED <<modset, reader, contested, clashed>>
    PROVE  Sound' /\ ModsetRemains' /\ NamesDistinct' /\ ActiveVisible'
  <1>1. Live' = Live /\ \A u \in Users : Visible(u)' = Visible(u)
    BY DEF Live, Visible, Manages
  <1>2. ASSUME NEW o \in Requests
        PROVE  (Counts(req[o]) /\ Unclaimed(req[o]) /\ Views(req[o]))'
    <2> PICK p \in Serving : p = req'[o]
      BY DEF TypeInv, TypeOK
    <2>1. ~p.crossed => /\ Counts(p) /\ Unclaimed(p) /\ Views(p)
                        /\ p.subject \in Users => active'[p.subject] = active[p.subject]
      <3>1. CASE o = r
        <4>1. p = n
          BY <3>1
        <4> QED
          BY <4>1
      <3>2. CASE o # r
        <4> PICK old \in Serving : old = req[o] /\ Counts(old) /\ Unclaimed(old) /\ Views(old)
          BY DEF IInv, TypeInv, TypeOK, Sound
        <4> PICK b \in BOOLEAN : b = (req[o].crossed \/ o \in hits)
          OBVIOUS
        <4>0. p = [old EXCEPT !.crossed = b]
          BY <3>2 DEF Mark
        <4>1. /\ p.op = old.op /\ p.step = old.step /\ p.subject = old.subject
              /\ p.target = old.target /\ p.name = old.name /\ p.was = old.was
              /\ p.crossed = b
          BY <4>0, Marked
        <4>2. ~p.crossed /\ p.subject = q.subject => active' = active
          BY <4>1 DEF Homing
        <4>3. p.subject # q.subject /\ p.subject \in Users => active'[p.subject] = active[p.subject]
          BY DEF IInv, TypeInv, TypeOK
        <4>4. Counts(p) /\ Unclaimed(p)
          BY <4>1 DEF Counts, Unclaimed
        <4>5. ~p.crossed => Views(p)
          BY <4>1 DEF Views
        <4> QED
          BY <4>2, <4>3, <4>4, <4>5
      <3> QED
        BY <3>1, <3>2
    <2> QED
      BY <1>1, <2>1 DEF Counts, Unclaimed, Views, Right
  <1>3. ModsetRemains' /\ NamesDistinct'
    BY <1>1 DEF IInv, ModsetRemains, NamesDistinct
  <1>4. ActiveVisible'
    <2>1. settled' = IF q.crossed THEN settled \ {q.subject} ELSE settled \cup {q.subject}
      BY DEF Settle
    <2>2. \A u \in settled : Right(u, active[u]) /\ u \in Users
      BY DEF ActiveVisible, IInv, Right, TypeInv, TypeOK
    <2>3. \A u \in settled' : Right(u, active'[u]) /\ u \in Users
      BY <2>1, <2>2 DEF IInv, TypeInv, TypeOK
    <2> QED
      BY <1>1, <2>3 DEF ActiveVisible, Right
  <1> QED
    BY <1>2, <1>3, <1>4 DEF Sound

LEMMA AccessSound ==
    ASSUME IInv, TypeInv', NEW s \in Modsets, NEW users \in Shares, ChangeAccess(s, users)
    PROVE  Sound' /\ ModsetRemains' /\ NamesDistinct' /\ ActiveVisible'
  <1> PICK changed : changed = (users \cup reader[s]) \ (users \cap reader[s])
    OBVIOUS
  <1>1. Live' = Live /\ \A u \in Users \ changed : Visible(u)' = Visible(u)
    BY DEF ChangeAccess, Live, Visible, Manages, IInv, TypeInv, TypeOK
  <1>2. ASSUME NEW o \in Requests
        PROVE  (Counts(req[o]) /\ Unclaimed(req[o]) /\ Views(req[o]))'
    <2> PICK p \in Serving : p = req'[o]
      BY DEF TypeInv, TypeOK
    <2>1. ~p.crossed => /\ Counts(p) /\ Unclaimed(p) /\ Views(p)
                        /\ p.subject \notin changed
      <3> PICK old \in Serving : old = req[o] /\ Counts(old) /\ Unclaimed(old) /\ Views(old)
        BY DEF IInv, TypeInv, TypeOK, Sound
      <3> PICK b \in BOOLEAN : b = (req[o].crossed \/ Homing(o, changed))
        OBVIOUS
      <3>1. p = [old EXCEPT !.crossed = b]
        BY DEF ChangeAccess
      <3>2. /\ p.op = old.op /\ p.step = old.step /\ p.subject = old.subject
            /\ p.target = old.target /\ p.name = old.name /\ p.was = old.was
            /\ p.crossed = b
        BY <3>1, Marked
      <3> QED
        BY <3>2 DEF Counts, Unclaimed, Views, Homing
    <2> QED
      BY <1>1, <2>1 DEF Counts, Unclaimed, Views, Right, ChangeAccess
  <1>3. ModsetRemains' /\ NamesDistinct'
    BY <1>1 DEF IInv, ModsetRemains, NamesDistinct, ChangeAccess
  <1>4. ActiveVisible'
    BY <1>1 DEF ActiveVisible, IInv, TypeInv, TypeOK, ChangeAccess
  <1> QED
    BY <1>2, <1>3, <1>4 DEF Sound
-----------------------------------------------------------------------------
LEMMA CommitSound ==
    ASSUME IInv, TypeInv', NEW r \in Requests, Commit(r)
    PROVE  Sound' /\ ModsetRemains' /\ NamesDistinct' /\ ActiveVisible'
  <1> PICK q \in Serving : q = req[r] /\ Formed(q) /\ Views(q)
    BY DEF IInv, TypeInv, TypeOK, Sound
  <1>1. ASSUME NEW s \in Modsets, Insert(r, s)
        PROVE  Sound' /\ ModsetRemains' /\ NamesDistinct' /\ ActiveVisible'
    <2> PICK row \in Rows : row = [state |-> "live", name |-> q.name, owner |-> q.user]
      BY DEF Serving, Rows
    <2>1. Store(r, s, row) /\ row.state = "live" /\ row.name = q.name
      BY <1>1 DEF Insert
    <2>2. s \notin Live /\ q.op \in Naming
      BY <1>1 DEF Insert, Live, At, Naming
    <2>3. CASE q.target = None
      BY <1>1, <2>1, <2>2, <2>3, StoreSound DEF Insert
    <2> QED
      BY <1>1, <2>3 DEF Insert, At, Formed
  <1>2. CASE Rename(r)
    <2> PICK s \in Modsets : s = q.target
      BY <1>2 DEF Rename, Live
    <2> PICK row : row = [modset[s] EXCEPT !.name = q.name]
      OBVIOUS
    <2> PICK old \in Rows : old = modset[s]
      BY DEF IInv, TypeInv, TypeOK
    <2> PICK n \in Names : n = q.name
      BY DEF Serving
    <2>1. old.state = "live" /\ row = [old EXCEPT !.name = n]
      BY <1>2 DEF Rename, Live
    <2>2. row \in Rows /\ row.state = "live" /\ row.name = q.name /\ row.owner = modset[s].owner
      BY <2>1 DEF Rows
    <2>3. Store(r, s, row)
      BY <1>2 DEF Rename
    <2>4. s \in Live /\ q.op \in Naming /\ settled' = settled
          /\ UNCHANGED <<reader, active, contested>>
      BY <1>2 DEF Rename, At, Naming
    <2> QED
      BY <2>2, <2>3, <2>4, StoreSound
  <1>3. ASSUME NEW late \in SUBSET Users, Delete(r, late)
        PROVE  Sound' /\ ModsetRemains' /\ NamesDistinct' /\ ActiveVisible'
    BY <1>3, DeleteSound
  <1>4. CASE Rehome(r)
    <2>1. q.subject \in Users /\ Onward(q) \in Serving
      BY <1>4, OnwardTypes DEF Rehome, Formed
    <2> PICK n \in Serving : n = Onward(q)
      BY <2>1
    <2>2. Counts(n) /\ Unclaimed(n) /\ Views(n) /\ n.subject \notin Users
      <3>1. Onward(q).subject = Nobody
        <4>1. CASE q.op = "delete"
          BY <4>1 DEF Onward, Serving
        <4>2. CASE q.op # "delete"
          BY <4>2 DEF Onward, Idle
        <4> QED
          BY <4>1, <4>2
      <3> QED
        BY <3>1, OnwardSound, ModsetsOK
    <2>3. ~q.crossed => Right(q.subject, q.was)
      BY <1>4, <2>1 DEF Rehome, Views
    <2> PICK s : s = q.was
      OBVIOUS
    <2>4. ~q.crossed => Right(q.subject, s)
      BY <2>3
    <2> PICK hits : hits = {o \in Requests : Homing(o, {q.subject})}
      OBVIOUS
    <2>5. /\ req'[r] = n
          /\ \A o \in Requests \ {r} : req'[o] = Mark(o, hits)
      BY <1>4 DEF Rehome, Crossing, Mark
    <2>6. active' = [active EXCEPT ![q.subject] = s]
          /\ \A o \in Requests : Homing(o, {q.subject}) => o \in hits
      BY <1>4 DEF Rehome
    <2>7. Settle(q) /\ UNCHANGED <<modset, reader, contested, clashed>>
      BY <1>4 DEF Rehome
    <2> QED
      BY <2>1, <2>2, <2>4, <2>5, <2>6, <2>7, ChooseSound
  <1>5. CASE Activate(r)
    <2>1. q.subject \in Users /\ q.op = "activate"
      BY <1>5 DEF Activate, At, Formed
    <2> PICK s : s = q.target
      OBVIOUS
    <2>2. ~q.crossed => Right(q.subject, s) /\ q.was = active[q.subject]
      BY <2>1 DEF Views, Right
    <2> PICK n \in Serving : n = Idle
      BY IdleTypes
    <2>8. ~q.crossed => Right(q.subject, s)
      BY <2>2
    <2>3. Counts(n) /\ Unclaimed(n) /\ Views(n) /\ n.subject \notin Users
      BY IdleSound, ModsetsOK DEF Idle
    <2> PICK hits : hits = {o \in Requests : q.target # q.was /\ Homing(o, {q.subject})}
      OBVIOUS
    <2>4. /\ req'[r] = n
          /\ \A o \in Requests \ {r} : req'[o] = Mark(o, hits)
      BY <1>5 DEF Activate, Crossing, Mark
    <2>6. Settle(q) /\ UNCHANGED <<modset, reader, contested, clashed>>
      BY <1>5 DEF Activate
    <2>5. CASE q.target # q.was
      <3>1. /\ active' = [active EXCEPT ![q.subject] = s]
            /\ \A o \in Requests : Homing(o, {q.subject}) => o \in hits
        BY <1>5, <2>5 DEF Activate
      <3> QED
        BY <2>1, <2>8, <2>3, <2>4, <2>6, <3>1, ChooseSound
    <2>7. CASE q.target = q.was
      <3>1. active' = active /\ (~q.crossed => s = active[q.subject])
        BY <1>5, <2>2, <2>7 DEF Activate
      <3> QED
        BY <2>1, <2>8, <2>3, <2>4, <2>6, <3>1, ChooseSound
    <2> QED
      BY <2>5, <2>7
  <1> QED
    BY <1>1, <1>2, <1>3, <1>4, <1>5 DEF Commit

LEMMA InitSound == ASSUME Init PROVE IInv
  <1>1. TypeInv
    BY InitTypes
  <1>2. Sound
    BY IdleSound DEF Init, Sound
  <1> PICK s \in Modsets : modset = [t \in Modsets |-> IF t = s THEN [Absent EXCEPT !.state = "live"]
                                                      ELSE Absent]
    BY DEF Init
  <1>3. Live = {s}
    BY DEF Live, Absent
  <1> QED
    BY <1>1, <1>2, <1>3 DEF IInv, Init, ModsetRemains, NamesDistinct, ActiveVisible

LEMMA IInvStays == IInv /\ [Next]_vars => IInv'
  <1> SUFFICES ASSUME IInv, [Next]_vars PROVE IInv'
    OBVIOUS
  <1>0. TypeInv'
    BY TypesStay DEF IInv
  <1>1. ASSUME NEW r \in Requests, Proceed(r) \/ Commit(r) \/ \E u \in Users : Ask(r, u)
        PROVE  IInv'
    BY <1>0, <1>1, ProceedSound, CommitSound, AskSound DEF IInv
  <1>2. ASSUME NEW s \in Modsets, NEW users \in Shares, ChangeAccess(s, users) PROVE IInv'
    BY <1>0, <1>2, AccessSound DEF IInv
  <1>3. CASE UNCHANGED vars
    BY <1>0, <1>3 DEF vars, IInv, Sound, Counts, Unclaimed, Views, Right, Live, Visible,
                      Manages, ModsetRemains, NamesDistinct, ActiveVisible
  <1> QED
    BY <1>1, <1>2, <1>3 DEF Next

THEOREM Invariance == Spec => []IInv
  BY InitSound, IInvStays, PTL DEF Spec

(* One modset is always left, but for deletions that overlapped. *)
THEOREM LastModsetKept == Spec => []ModsetRemains
  BY Invariance, PTL DEF IInv

(* No two modsets have names that differ in case only, but for those that  *)
(* were stored by a request another one with the same name overlapped, and *)
(* for names of which lower() and casefold() make different ones           *)
(* (modset_service.py:88, 139).                                            *)
THEOREM NamesStayDistinct == Spec => []NamesDistinct
  BY Invariance, PTL DEF IInv

(* A user whose active modset has been settled sees it, or sees none. *)
THEOREM ActiveStaysVisible == Spec => []ActiveVisible
  BY Invariance, PTL DEF IInv

(* An active modset the user sees stays until they activate another, it is *)
(* deleted, or a request writes what it read before a change.              *)
THEOREM ChoiceStays == Spec => ChoiceKept
  <1> DEFINE Kept == \A u \in Users :
                /\ active[u] \in Visible(u) /\ active'[u] # active[u]
                => \/ active[u] \notin Live'
                   \/ \E r \in Requests : /\ req'[r] # req[r]
                                          /\ \/ req[r].op = "activate" /\ req[r].user = u
                                             \/ req[r].crossed
                                             \/ u \in req[r].todo
  <1>1. IInv /\ [Next]_vars => Kept
    <2> SUFFICES ASSUME IInv, [Next]_vars, NEW u \in Users,
                        active[u] \in Visible(u), active'[u] # active[u],
                        active[u] \in Live'
                 PROVE  \E r \in Requests : /\ req'[r] # req[r]
                                            /\ \/ req[r].op = "activate" /\ req[r].user = u
                                               \/ req[r].crossed
                                               \/ u \in req[r].todo
      OBVIOUS
    <2>1. ASSUME NEW r \in Requests, Proceed(r) \/ \E v \in Users : Ask(r, v)
          PROVE  FALSE
      <3>1. active' = active
        BY <2>1 DEF Proceed, Ask, Abort, Resolve, NextUser, Fallback, CheckCreate, CheckRename,
                    CheckDelete, CheckActivate, Home, Serve
      <3> QED
        BY <3>1
    <2>2. ASSUME NEW r \in Requests, (\E s \in Modsets : Insert(r, s)) \/ Rename(r)
          PROVE  FALSE
      BY <2>2 DEF Insert, Rename
    <2>3. ASSUME NEW r \in Requests, NEW late \in SUBSET Users, Delete(r, late)
          PROVE  u \in req[r].todo /\ req'[r] # req[r]
      <3> PICK q \in Serving : q = req[r] /\ Formed(q)
        BY DEF IInv, TypeInv, TypeOK
      <3>1. q.target \in Modsets /\ q.step = "ready"
        BY <2>3 DEF Delete, At, Formed
      <3>2. active[u] # q.target
        BY <2>3, <3>1 DEF Delete, Live, Absent, IInv, TypeInv, TypeOK
      <3>3. u \in q.todo
        BY <2>3, <3>2 DEF Delete, Had
      <3> PICK n : n = [q EXCEPT !.step = "next", !.target = None, !.crossed = FALSE]
        OBVIOUS
      <3>4. req'[r] = n /\ n.step = "next"
        BY <2>3 DEF Delete, Crossing, Serving
      <3> QED
        BY <3>1, <3>3, <3>4
    <2>4. ASSUME NEW r \in Requests, Rehome(r)
          PROVE  req[r].crossed /\ req'[r] # req[r]
      <3> PICK q \in Serving : q = req[r] /\ Formed(q) /\ Views(q)
        BY DEF IInv, TypeInv, TypeOK, Sound
      <3>1. q.subject = u /\ q.step = "rehome"
        BY <2>4 DEF Rehome, IInv, TypeInv, TypeOK
      <3>2. q.crossed
        BY <3>1 DEF Views
      <3>3. req'[r] = Onward(q)
        BY <2>4 DEF Rehome, Crossing
      <3>4. Onward(q).step # "rehome"
        <4>1. CASE q.op = "delete"
          BY <4>1 DEF Onward, Serving
        <4>2. CASE q.op # "delete"
          BY <4>2 DEF Onward, Idle
        <4> QED
          BY <4>1, <4>2
      <3> QED
        BY <3>1, <3>2, <3>3, <3>4
    <2>5. ASSUME NEW r \in Requests, Activate(r)
          PROVE  /\ req[r].op = "activate" /\ req[r].user = u /\ req'[r] # req[r]
      <3> PICK q \in Serving : q = req[r] /\ Formed(q)
        BY DEF IInv, TypeInv, TypeOK
      <3>1. q.subject = u /\ q.op = "activate" /\ q.user = u
        BY <2>5 DEF Activate, At, Formed, IInv, TypeInv, TypeOK
      <3>2. req'[r] = Idle
        BY <2>5 DEF Activate, Crossing
      <3> QED
        BY <3>1, <3>2 DEF Idle
    <2>6. ASSUME NEW s \in Modsets, NEW users \in Shares, ChangeAccess(s, users) PROVE FALSE
      BY <2>6 DEF ChangeAccess
    <2>7. CASE UNCHANGED vars
      BY <2>7 DEF vars
    <2> QED
      BY <2>1, <2>2, <2>3, <2>4, <2>5, <2>6, <2>7 DEF Next, Commit
  <1>2. Kept => [Kept]_vars
    OBVIOUS
  <1> QED
    BY <1>1, Invariance, PTL DEF Spec, ChoiceKept
=============================================================================
