------------------------ MODULE ModTracking_proofs ------------------------
(***************************************************************************)
(* Proofs about ModTracking for every set of mods, sessions and graphs,    *)
(* and every number of rounds, requests, releases and failures.            *)
(*                                                                         *)
(* The argument is one of debts.  Whatever makes a dependency of an        *)
(* installed mod untracked leaves a session behind that still has to       *)
(* synchronise, and a session gives its debt up only by a commit that      *)
(* covers everything required, to another session, or by being cut short.  *)
(***************************************************************************)
EXTENDS ModTracking, FiniteSetTheorems, TLAPS

(* What a session plans fits the tables it will be written to. *)
PlanOf(f) ==
    /\ f.pc = "commit" => f.adds \subseteq known \cup f.news
    /\ f.pc \notin {"fetch", "upsert"} => f.round < MaxRounds
    /\ f.pc \in {"fetch", "upsert"} /\ f.round = 0 => f.op \notin {"update", "edit"}
    /\ f.pc = "remove" => f.op = "delete"

PlansFit == \A t \in Threads : PlanOf(frame[t])
TypeInv == TypeOK /\ PlansFit

(* Session t will synchronise, or fail at it.  An update whose mod is gone *)
(* does not: whoever removed the mod does.                                 *)
Owes(t) ==
    \/ frame[t].pc \in {"fetch", "upsert", "plan"}
    \/ /\ frame[t].pc \in {"orphans", "clear", "tracked"}
       /\ frame[t].op \in {"update", "edit"} => frame[t].mod \in tracked
    \/ /\ frame[t].pc = "commit"
       /\ Required \subseteq origin \cup frame[t].adds \cup frame[t].marks

DebtInv == cut \/ Required \subseteq origin \/ \E t \in Threads : Owes(t)

IInv == TypeInv /\ DebtInv
-----------------------------------------------------------------------------
(* Frames: where an operation starts and where it goes on are well formed. *)

(* A session at rest is well formed and plans nothing. *)
LEMMA RestFits == Rest \in Frame /\ PlanOf(Rest) /\ Rest.pc = "idle"
  <1>1. (CHOOSE m \in Mods : TRUE) \in Mods
    BY TrackingOK
  <1>2. 0 \in 0..MaxRounds /\ 0 < MaxRounds
    BY TrackingOK
  <1>. QED
    BY <1>1, <1>2 DEF Rest, Frame, PCs, Ops, PlanOf

(* So is a session that has just begun an operation. *)
LEMMA BeginFits ==
  ASSUME NEW op \in Ops, NEW m \in Mods, NEW pc \in PCs
  PROVE  /\ Begin(op, m, pc) \in Frame
         /\ Begin(op, m, pc).pc = pc /\ Begin(op, m, pc).op = op
         /\ Begin(op, m, pc).mod = m /\ Begin(op, m, pc).round = 0
         /\ Begin(op, m, pc).adds = {}
  <1>. QED
    BY RestFits DEF Begin, Rest, Frame

(* A refresh begins by fetching its own mod. *)
LEMMA RefreshingFits ==
  ASSUME NEW op \in {"create", "refresh", "all"}, NEW m \in Mods,
         NEW others \in SUBSET Mods
  PROVE  /\ Refreshing(op, m, others) \in Frame
         /\ PlanOf(Refreshing(op, m, others))
         /\ Refreshing(op, m, others).pc = "fetch"
  <1> DEFINE b == Begin(op, m, "fetch")
  <1>1. op \in Ops /\ "fetch" \in PCs
    BY DEF Ops, PCs
  <1>2. /\ b \in Frame /\ b.pc = "fetch" /\ b.op = op /\ b.round = 0
    BY <1>1, BeginFits
  <1> DEFINE r == [b EXCEPT !.want = {m}, !.rest = others]
  <1>3. Refreshing(op, m, others) = r
    BY DEF Refreshing
  <1>4. r \in Frame /\ r.pc = "fetch" /\ r.op = op /\ r.round = 0
    BY <1>2 DEF Frame
  <1>. QED
    BY <1>3, <1>4 DEF PlanOf

(* The mod a full refresh comes to next, or rest. *)
LEMMA NextModFits ==
  ASSUME NEW others \in SUBSET Mods, NEW f \in NextMod(others)
  PROVE  f \in Frame /\ PlanOf(f)
  <1>1. CASE others = {}
    BY <1>1, RestFits DEF NextMod
  <1>2. CASE others # {}
    <2>1. PICK m \in others : f = Refreshing("all", m, others \ {m})
      BY <1>2 DEF NextMod
    <2>2. m \in Mods /\ others \ {m} \in SUBSET Mods
      BY <2>1
    <2>. QED
      BY <2>1, <2>2, RefreshingFits
  <1>. QED
    BY <1>1, <1>2

(* An operation that ends leaves a well-formed session and queue. *)
LEMMA EndsFits ==
  ASSUME TypeOK, NEW t \in Threads, Ends(t)
  PROVE  \E f \in Frame : PlanOf(f) /\ Set(t, f)
  <1>1. frame[t].rest \in SUBSET Mods
    BY DEF TypeOK, Frame
  <1>. QED
    BY <1>1, NextModFits DEF Ends

(* So does one that raises. *)
LEMMA RaisesFits ==
  ASSUME TypeOK, NEW t \in Threads, NEW broken \in BOOLEAN, Raises(t, broken)
  PROVE  cut' = TRUE /\ \E f \in Frame : PlanOf(f) /\ Set(t, f)
  <1> DEFINE others == IF broken THEN {} ELSE frame[t].rest
  <1>1. others \in SUBSET Mods
    BY DEF TypeOK, Frame
  <1>2. cut' = TRUE /\ \E f \in NextMod(others) : Set(t, f)
    BY DEF Raises
  <1>. QED
    BY <1>1, <1>2, NextModFits

(* The queue holds mods only. *)
LEMMA QueueFits ==
  ASSUME TypeOK, NEW t \in Threads,
         Ends(t) \/ Raises(t, TRUE) \/ Raises(t, FALSE)
  PROVE  scheduled' \in SUBSET Mods
  <1>1. scheduled \in SUBSET Mods /\ tracked \in SUBSET Mods
    BY DEF TypeOK
  <1>2. CASE Ends(t)
    BY <1>1, <1>2 DEF Ends
  <1>3. CASE Raises(t, TRUE) \/ Raises(t, FALSE)
    BY <1>1, <1>3 DEF Raises
  <1>. QED
    BY <1>2, <1>3

(* Where a session is after a page: it fetches on, synchronises, or ends;  *)
(* only the last round ends it early, and then the operation was cut.      *)
LEMMA FetchedFits ==
  ASSUME TypeInv, NEW t \in Threads, NEW m \in Mods, Fetched(t, m),
         frame[t].pc \in {"fetch", "upsert"}
  PROVE  /\ scheduled' \in SUBSET Mods /\ cut' \in BOOLEAN /\ (cut => cut')
         /\ \E f \in Frame :
              /\ PlanOf(f) /\ Set(t, f)
              /\ \/ cut'
                 \/ f.pc \in {"fetch", "plan"}
                 \/ f.pc = "tracked" /\ f.op \notin {"update", "edit"}
  <1> DEFINE f == frame[t]
             left == f.want \ {m}
  <1>1. f \in Frame /\ PlanOf(f)
    BY DEF TypeInv, TypeOK, PlansFit
  <1>2. CASE LastRound(t, left)
    <2>1. cut' = TRUE /\ Ends(t)
      BY <1>2 DEF Fetched
    <2>. QED
      BY <2>1, EndsFits, QueueFits DEF TypeInv
  <1>3. CASE ~LastRound(t, left)
    <2> DEFINE p == IF left = {} THEN AfterFetch(t) ELSE "fetch"
               g == [f EXCEPT !.want = left, !.page = {}, !.item = f.mod, !.pc = p]
    <2>1. Set(t, g) /\ UNCHANGED <<scheduled, cut>>
      BY <1>3 DEF Fetched
    <2>2. p \in {"fetch", "plan", "tracked"}
      BY DEF AfterFetch
    <2>3. g \in Frame /\ g.pc = p /\ g.op = f.op /\ g.round = f.round
      BY <1>1, <2>2 DEF Frame, PCs
    <2>4. p = "tracked" => f.round = 0 /\ f.op \notin {"update", "edit"}
      BY <1>1 DEF AfterFetch, PlanOf, Frame
    <2>5. p # "fetch" => f.round < MaxRounds
      BY <1>1, <1>3, TrackingOK DEF LastRound, Frame
    <2>6. PlanOf(g)
      BY <1>1, <2>2, <2>3, <2>5 DEF PlanOf
    <2>7. scheduled' \in SUBSET Mods /\ cut' \in BOOLEAN /\ (cut => cut')
      BY <2>1 DEF TypeInv, TypeOK
    <2>. QED
      BY <2>1, <2>2, <2>3, <2>4, <2>6, <2>7
  <1>. QED
    BY <1>2, <1>3
-----------------------------------------------------------------------------
(* The type invariant. *)

(* The tables and the bookkeeping, without frames, queue and cut. *)
TablesOK == /\ known \subseteq Mods /\ versioned \subseteq known
            /\ deps \in [Mods -> SUBSET Mods]
            /\ tracked \subseteq known
            /\ installed \subseteq tracked /\ origin \subseteq tracked
OutsideOK == /\ published \in Graphs /\ spoiled \subseteq Mods
             /\ requests \in 0..MaxRequests /\ releases \in 0..MaxReleases
             /\ failures \in 0..MaxFailures

(* The type invariant is the sum of its parts. *)
LEMMA TypeParts ==
  TypeOK <=> /\ TablesOK /\ OutsideOK
             /\ scheduled \subseteq Mods /\ cut \in BOOLEAN
             /\ frame \in [Threads -> Frame]
  <1>. QED
    BY DEF TypeOK, TablesOK, OutsideOK

(* A step that gives one session a well-formed frame keeps the plans.  The *)
(* mods table may only grow.                                               *)
LEMMA StepFits ==
  ASSUME TypeInv, NEW t \in Threads, NEW f \in Frame, Set(t, f),
         known \subseteq known', PlanOf(f)', PlanOf(f),
         TablesOK', OutsideOK', scheduled' \subseteq Mods, cut' \in BOOLEAN
  PROVE  TypeInv'
  <1>1. frame' \in [Threads -> Frame]
    BY DEF TypeInv, TypeOK, Set
  <1>2. ASSUME NEW u \in Threads PROVE PlanOf(frame[u])'
    <2>1. CASE u = t
      <3>1. frame'[u] = f
        BY <2>1 DEF Set, TypeInv, TypeOK
      <3>. QED
        BY <3>1 DEF PlanOf
    <2>2. CASE u # t
      <3>1. frame'[u] = frame[u]
        BY <2>2 DEF Set, TypeInv, TypeOK
      <3>2. PlanOf(frame[u])
        BY DEF TypeInv, PlansFit
      <3>. QED
        BY <3>1, <3>2 DEF PlanOf
    <2>. QED
      BY <2>1, <2>2
  <1>. QED
    BY <1>1, <1>2, TypeParts DEF TypeInv, TypeOK, TablesOK, OutsideOK, PlansFit

(* What is planned still fits when the mods table has grown. *)
LEMMA PlanStays ==
  ASSUME NEW f, PlanOf(f), known \subseteq known'
  PROVE  PlanOf(f)'
  <1>. QED
    BY DEF PlanOf

(* Requests start well formed. *)
LEMMA SubmitTyped ==
  ASSUME TypeInv, NEW c \in Callers,
         RefreshAll(c) \/ \E m \in Mods : Submit(c, m)
  PROVE  TypeInv'
  <1>1. c \in Threads /\ TablesOK /\ OutsideOK /\ scheduled \subseteq Mods
        /\ cut \in BOOLEAN
    BY TypeParts DEF TypeInv, Threads
  <1>2. ASSUME Request(c)
        PROVE  OutsideOK' /\ scheduled' \subseteq Mods /\ cut' \in BOOLEAN
    BY <1>1, <1>2, TrackingOK DEF Request, OutsideOK
  <1>3. CASE RefreshAll(c)
    <2>1. PICK f \in NextMod(tracked) : Set(c, f)
      BY <1>3 DEF RefreshAll
    <2>2. f \in Frame /\ PlanOf(f)
      BY <1>1, <2>1, NextModFits DEF TablesOK
    <2>3. TablesOK' /\ known' = known
      BY <1>1, <1>3 DEF RefreshAll, TablesOK, tables
    <2>4. Request(c)
      BY <1>3 DEF RefreshAll
    <2>. QED
      BY <1>1, <1>2, <2>1, <2>2, <2>3, <2>4, PlanStays, StepFits
  <1>4. ASSUME NEW m \in Mods, Submit(c, m) PROVE TypeInv'
    <2>1. ASSUME NEW v \in BOOLEAN, Create(c, m, v) PROVE TypeInv'
      <3> DEFINE f == Refreshing("create", m, {})
      <3>1. f \in Frame /\ PlanOf(f)
        BY RefreshingFits
      <3>2. TablesOK' /\ known \subseteq known'
        BY <1>1, <2>1 DEF Create, TablesOK, WithVersion
      <3>3. Request(c) /\ Set(c, f)
        BY <2>1 DEF Create
      <3> HIDE DEF f
      <3>. QED
        BY <1>1, <1>2, <3>1, <3>2, <3>3, PlanStays, StepFits
    <2>2. ASSUME NEW v \in BOOLEAN, NEW o \in BOOLEAN, Update(c, m, v, o)
          PROVE  TypeInv'
      <3> DEFINE p == IF o /\ m \in installed /\ ~v THEN "orphans" ELSE "tracked"
                 f == Begin("update", m, p)
      <3>1. "update" \in Ops /\ p \in PCs
        BY DEF Ops, PCs
      <3>2. f \in Frame /\ f.pc = p /\ f.round = 0
        BY <3>1, BeginFits
      <3>3. PlanOf(f)
        BY <3>2, TrackingOK DEF PlanOf
      <3>4. TablesOK' /\ known' = known
        BY <1>1, <2>2 DEF Update, TablesOK, WithVersion, catalog
      <3>5. Request(c) /\ Set(c, f)
        BY <2>2 DEF Update
      <3> HIDE DEF f
      <3>. QED
        BY <1>1, <1>2, <3>2, <3>3, <3>4, <3>5, PlanStays, StepFits
    <2>3. ASSUME Edit(c, m) PROVE TypeInv'
      <3> DEFINE f == Begin("edit", m, "tracked")
      <3>1. "edit" \in Ops /\ "tracked" \in PCs
        BY DEF Ops, PCs
      <3>2. f \in Frame /\ f.pc = "tracked" /\ f.round = 0
        BY <3>1, BeginFits
      <3>3. PlanOf(f)
        BY <3>2, TrackingOK DEF PlanOf
      <3>4. TablesOK' /\ known' = known
        BY <1>1, <2>3 DEF Edit, TablesOK, catalog
      <3>5. Request(c) /\ Set(c, f)
        BY <2>3 DEF Edit
      <3> HIDE DEF f
      <3>. QED
        BY <1>1, <1>2, <3>2, <3>3, <3>4, <3>5, PlanStays, StepFits
    <2>4. ASSUME NEW v \in BOOLEAN, Delete(c, m, v) PROVE TypeInv'
      <3> DEFINE b == Begin("delete", m, "remove")
                 f == [b EXCEPT !.orphans = IF v THEN Orphans(m) ELSE {}]
      <3>1. "delete" \in Ops /\ "remove" \in PCs
        BY DEF Ops, PCs
      <3>2. b \in Frame /\ b.pc = "remove" /\ b.round = 0 /\ b.op = "delete"
        BY <3>1, BeginFits
      <3>3. Orphans(m) \subseteq Mods
        BY <1>1 DEF Orphans, TablesOK
      <3>4. f \in Frame /\ f.pc = "remove" /\ f.round = 0 /\ f.op = "delete"
        BY <3>2, <3>3 DEF Frame
      <3>5. PlanOf(f)
        BY <3>4, TrackingOK DEF PlanOf
      <3>6. TablesOK' /\ known' = known
        BY <1>1, <2>4 DEF Delete, TablesOK, tables
      <3>7. Request(c) /\ Set(c, f)
        BY <2>4 DEF Delete
      <3> HIDE DEF f
      <3>. QED
        BY <1>1, <1>2, <3>4, <3>5, <3>6, <3>7, PlanStays, StepFits
    <2>5. ASSUME Refresh(c, m) PROVE TypeInv'
      <3> DEFINE f == Refreshing("refresh", m, {})
      <3>1. f \in Frame /\ PlanOf(f)
        BY RefreshingFits
      <3>2. TablesOK' /\ known' = known
        BY <1>1, <2>5 DEF Refresh, TablesOK, tables
      <3>3. Request(c) /\ Set(c, f)
        BY <2>5 DEF Refresh
      <3> HIDE DEF f
      <3>. QED
        BY <1>1, <1>2, <3>1, <3>2, <3>3, PlanStays, StepFits
    <2>. QED
      BY <1>4, <2>1, <2>2, <2>3, <2>4, <2>5 DEF Submit
  <1>. QED
    BY <1>3, <1>4

(* Queue workers and the scheduler start well formed. *)
LEMMA StartTyped ==
  ASSUME TypeInv, NEW t \in Threads, Start(t)
  PROVE  TypeInv'
  <1>1. TablesOK /\ OutsideOK /\ scheduled \subseteq Mods /\ cut \in BOOLEAN
    BY TypeParts DEF TypeInv
  <1>2. TablesOK' /\ OutsideOK' /\ scheduled' \subseteq Mods /\ cut' \in BOOLEAN
        /\ known' = known
    BY <1>1 DEF Start, Take, Schedule, tables, outside, TablesOK, OutsideOK
  <1>3. \E f \in Frame : PlanOf(f) /\ Set(t, f)
    <2>1. CASE Schedule(t)
      BY <1>1, <2>1, NextModFits DEF Schedule, TablesOK
    <2>2. ASSUME NEW m \in Mods, Take(t, m) PROVE <1>3
      BY <2>2, RefreshingFits DEF Take
    <2>. QED
      BY <2>1, <2>2 DEF Start
  <1>. QED
    BY <1>2, <1>3, PlanStays, StepFits

(* Deletions and uninstallations keep the types. *)
LEMMA TailTyped ==
  ASSUME TypeInv, NEW t \in Threads,
         Remove(t) \/ FindOrphans(t) \/ ClearOrphans(t)
  PROVE  TypeInv'
  <1>1. TablesOK /\ OutsideOK /\ scheduled \subseteq Mods /\ cut \in BOOLEAN
        /\ frame \in [Threads -> Frame]
    BY TypeParts DEF TypeInv
  <1>2. OutsideOK' /\ scheduled' \subseteq Mods /\ cut' \in BOOLEAN /\ known' = known
    BY <1>1 DEF Remove, FindOrphans, ClearOrphans, tables, catalog, outside, OutsideOK
  <1>3. TablesOK'
    BY <1>1 DEF Remove, FindOrphans, ClearOrphans, tables, catalog, TablesOK
  <1>4. CASE Remove(t)
    <2>1. ASSUME NEW u \in Threads
          PROVE  frame'[u] \in Frame /\ PlanOf(frame[u])'
      <3>1. frame[u] \in Frame /\ PlanOf(frame[u])
        BY <1>1 DEF TypeInv, PlansFit
      <3>2. CASE At(u, "remove") /\ frame[u].mod = frame[t].mod
        <4> DEFINE g == [frame[u] EXCEPT !.pc = "clear"]
        <4>1. frame'[u] = g
          BY <1>4, <3>2 DEF Remove
        <4>2. g \in Frame /\ g.pc = "clear" /\ g.round = frame[u].round
          BY <3>1 DEF Frame, PCs
        <4>3. g.round < MaxRounds
          BY <3>1, <3>2, <4>2 DEF PlanOf, At
        <4>. QED
          BY <4>1, <4>2, <4>3 DEF PlanOf
      <3>3. CASE ~(At(u, "remove") /\ frame[u].mod = frame[t].mod)
        <4>1. frame'[u] = frame[u]
          BY <1>4, <3>3 DEF Remove
        <4>. QED
          BY <1>2, <3>1, <4>1 DEF PlanOf
      <3>. QED
        BY <3>2, <3>3
    <2>2. frame' \in [Threads -> Frame]
      BY <1>4, <2>1 DEF Remove
    <2>. QED
      BY <1>2, <1>3, <2>1, <2>2, TypeParts DEF TypeInv, TypeOK, TablesOK, OutsideOK, PlansFit
  <1>5. CASE FindOrphans(t)
    <2> DEFINE o == IF frame[t].mod \in tracked THEN Orphans(frame[t].mod) ELSE {}
               g == [frame[t] EXCEPT !.pc = "clear", !.orphans = o]
    <2>1. frame[t] \in Frame /\ PlanOf(frame[t]) /\ frame[t].pc = "orphans"
      BY <1>1, <1>5 DEF TypeInv, PlansFit, FindOrphans, At
    <2>2. o \subseteq Mods
      BY <1>1 DEF Orphans, TablesOK
    <2>3. g \in Frame /\ g.pc = "clear" /\ g.round = frame[t].round
      BY <2>1, <2>2 DEF Frame, PCs
    <2>4. PlanOf(g)
      BY <2>1, <2>3 DEF PlanOf
    <2>5. Set(t, g)
      BY <1>5 DEF FindOrphans
    <2> HIDE DEF g
    <2>. QED
      BY <1>2, <1>3, <2>3, <2>4, <2>5, PlanStays, StepFits
  <1>6. CASE ClearOrphans(t)
    <2> DEFINE p == IF frame[t].op = "delete" THEN "plan" ELSE "tracked"
               g == [frame[t] EXCEPT !.orphans = {}, !.pc = p]
    <2>1. frame[t] \in Frame /\ PlanOf(frame[t]) /\ frame[t].pc = "clear"
      BY <1>1, <1>6 DEF TypeInv, PlansFit, ClearOrphans, At
    <2>2. g \in Frame /\ g.pc = p /\ g.round = frame[t].round
      BY <2>1 DEF Frame, PCs
    <2>3. PlanOf(g)
      BY <2>1, <2>2 DEF PlanOf
    <2>4. Set(t, g)
      BY <1>6 DEF ClearOrphans
    <2> HIDE DEF g
    <2>. QED
      BY <1>2, <1>3, <2>2, <2>3, <2>4, PlanStays, StepFits
  <1>. QED
    BY <1>4, <1>5, <1>6

(* Storing a page keeps the tables. *)
LEMMA StoreTyped ==
  ASSUME TablesOK, NEW m \in Mods, NEW page \in SUBSET Mods, Store(m, page)
  PROVE  /\ known' \subseteq Mods /\ versioned' \subseteq known'
         /\ deps' \in [Mods -> SUBSET Mods]
         /\ known \subseteq known'
  <1>. QED
    BY DEF TablesOK, Store

(* Pages keep the types. *)
LEMMA FetchTyped ==
  ASSUME TypeInv, NEW t \in Threads,
         Upsert(t) \/ OthersRaise(t) \/ \E m \in Mods : Fetch(t, m) \/ FetchFails(t, m)
  PROVE  TypeInv'
  <1>1. TablesOK /\ OutsideOK /\ scheduled \subseteq Mods /\ cut \in BOOLEAN
        /\ frame[t] \in Frame /\ PlanOf(frame[t])
    BY TypeParts DEF TypeInv, PlansFit
  <1>2. ASSUME NEW m \in Mods, Fetch(t, m) PROVE TypeInv'
    <2> DEFINE g == [frame[t] EXCEPT !.pc = "upsert", !.item = m, !.page = published[m]]
    <2>1. published[m] \subseteq Mods
      BY <1>1, TrackingOK DEF OutsideOK
    <2>2. frame[t].pc = "fetch"
      BY <1>2 DEF Fetch, At
    <2>3. g \in Frame /\ g.pc = "upsert" /\ g.round = frame[t].round /\ g.op = frame[t].op
      BY <1>1, <2>1 DEF Frame, PCs
    <2>4. PlanOf(g)
      BY <1>1, <2>2, <2>3 DEF PlanOf
    <2>5. Set(t, g) /\ UNCHANGED <<tables, scheduled, cut, outside>>
      BY <1>2 DEF Fetch
    <2>6. TablesOK' /\ OutsideOK' /\ scheduled' \subseteq Mods /\ cut' \in BOOLEAN
          /\ known' = known
      BY <1>1, <2>5 DEF TablesOK, OutsideOK, tables, outside
    <2> HIDE DEF g
    <2>. QED
      BY <2>3, <2>4, <2>5, <2>6, PlanStays, StepFits
  <1>3. ASSUME NEW m \in Mods, FetchFails(t, m) PROVE TypeInv'
    <2>1. TablesOK' /\ OutsideOK' /\ known' = known
      BY <1>1, <1>3, TrackingOK DEF FetchFails, TablesOK, OutsideOK, tables
    <2>2. CASE Raises(t, FALSE)
      BY <1>1, <2>1, <2>2, RaisesFits, QueueFits, PlanStays, StepFits DEF TypeInv
    <2>3. CASE Fetched(t, m)
      <3>1. frame[t].pc \in {"fetch", "upsert"}
        BY <1>3 DEF FetchFails, At
      <3>. QED
        BY <2>1, <2>3, <3>1, FetchedFits, PlanStays, StepFits
    <2>. QED
      BY <1>3, <2>2, <2>3 DEF FetchFails
  <1>4. CASE Upsert(t)
    <2>1. frame[t].pc \in {"fetch", "upsert"} /\ Fetched(t, frame[t].item)
          /\ Store(frame[t].item, frame[t].page) /\ UNCHANGED <<rows, outside>>
      BY <1>4 DEF Upsert, At
    <2>2. frame[t].item \in Mods /\ frame[t].page \in SUBSET Mods
      BY <1>1 DEF Frame
    <2>3. TablesOK' /\ OutsideOK' /\ known \subseteq known'
      BY <1>1, <2>1, <2>2, StoreTyped DEF TablesOK, OutsideOK, rows, outside
    <2>. QED
      BY <2>1, <2>2, <2>3, FetchedFits, PlanStays, StepFits
  <1>5. CASE OthersRaise(t)
    <2>1. /\ Raises(t, TRUE) \/ Raises(t, FALSE)
          /\ UNCHANGED <<tables, published, spoiled, requests, releases>>
          /\ failures' = failures \/ (failures < MaxFailures /\ failures' = failures + 1)
      BY <1>5 DEF OthersRaise
    <2>2. TablesOK' /\ OutsideOK' /\ known' = known
      BY <1>1, <2>1, TrackingOK DEF TablesOK, OutsideOK, tables
    <2>. QED
      BY <1>1, <2>1, <2>2, RaisesFits, QueueFits, PlanStays, StepFits DEF TypeInv
  <1>. QED
    BY <1>2, <1>3, <1>4, <1>5

(* Synchronisations keep the types: a planned mod has a row by then. *)
LEMMA SynchroniseTyped ==
  ASSUME TypeInv, NEW t \in Threads, Synchronise(t)
  PROVE  TypeInv'
  <1> DEFINE f == frame[t]
  <1>1. TablesOK /\ OutsideOK /\ scheduled \subseteq Mods /\ cut \in BOOLEAN
        /\ f \in Frame /\ PlanOf(f) /\ TypeOK
    BY TypeParts DEF TypeInv, PlansFit
  <1>2. CASE Tracked(t)
    <2>1. TablesOK' /\ OutsideOK' /\ known' = known
      BY <1>1, <1>2 DEF Tracked, TablesOK, OutsideOK, tables, outside
    <2>2. CASE Set(t, [f EXCEPT !.pc = "plan"]) /\ UNCHANGED <<scheduled, cut>>
      <3> DEFINE g == [f EXCEPT !.pc = "plan"]
      <3>1. f.pc = "tracked"
        BY <1>2 DEF Tracked, At
      <3>2. g \in Frame /\ g.pc = "plan" /\ g.round = f.round
        BY <1>1 DEF Frame, PCs
      <3>3. PlanOf(g)
        BY <1>1, <3>1, <3>2 DEF PlanOf
      <3>. QED
        BY <1>1, <2>1, <2>2, <3>2, <3>3, PlanStays, StepFits
    <2>3. CASE Ends(t) /\ UNCHANGED cut
      BY <1>1, <2>1, <2>3, EndsFits, QueueFits, PlanStays, StepFits
    <2>4. CASE Raises(t, FALSE)
      BY <1>1, <2>1, <2>4, RaisesFits, QueueFits, PlanStays, StepFits
    <2>. QED
      BY <1>2, <2>2, <2>3, <2>4 DEF Tracked
  <1>3. CASE Plan(t)
    <2> DEFINE news == Required \ known
               adds == Required \ tracked
               marks == (Required \cap tracked) \ origin
               want == Required \ versioned
               g == [f EXCEPT !.pc = "commit", !.news = news, !.adds = adds,
                              !.marks = marks, !.want = want]
    <2>1. f.pc = "plan" /\ Set(t, g) /\ UNCHANGED <<tables, scheduled, cut, outside>>
      BY <1>3 DEF Plan, At
    <2>2. /\ news \subseteq Mods /\ adds \subseteq Mods
          /\ marks \subseteq Mods /\ want \subseteq Mods
      BY DEF Required
    <2>3. adds \subseteq known \cup news
      OBVIOUS
    <2>4. /\ g \in Frame /\ g.pc = "commit" /\ g.round = f.round
          /\ g.adds = adds /\ g.news = news
      <3> HIDE DEF news, adds, marks, want
      <3>. QED
        BY <1>1, <2>2 DEF Frame, PCs
    <2>5. PlanOf(g)
      <3> HIDE DEF news, adds, marks, want, g
      <3>. QED
        BY <1>1, <2>1, <2>3, <2>4 DEF PlanOf
    <2>6. TablesOK' /\ OutsideOK' /\ scheduled' \subseteq Mods /\ cut' \in BOOLEAN
          /\ known' = known
      BY <1>1, <2>1 DEF TablesOK, OutsideOK, tables, outside
    <2> HIDE DEF g
    <2>. QED
      BY <2>1, <2>4, <2>5, <2>6, PlanStays, StepFits
  <1>4. CASE Commit(t)
    <2>1. f.pc = "commit" /\ UNCHANGED <<deps, versioned, installed, outside>>
      BY <1>4 DEF Commit, At
    <2>2. CASE Conflict(f)
      <3>1. Raises(t, TRUE) /\ UNCHANGED <<known, tracked, origin>>
        BY <1>4, <2>2 DEF Commit
      <3>2. TablesOK' /\ OutsideOK' /\ known' = known
        BY <1>1, <2>1, <3>1 DEF TablesOK, OutsideOK, outside
      <3>. QED
        BY <1>1, <3>1, <3>2, RaisesFits, QueueFits, PlanStays, StepFits
    <2>3. CASE ~Conflict(f)
      <3>1. /\ known' = known \cup f.news /\ tracked' = tracked \cup f.adds
            /\ origin' = origin \cup f.adds \cup f.marks /\ UNCHANGED cut
        BY <1>4, <2>3 DEF Commit
      <3>2. f.news \subseteq Mods /\ f.adds \subseteq known \cup f.news
            /\ f.marks \subseteq tracked
        BY <1>1, <2>1, <2>3 DEF Frame, PlanOf, Conflict
      <3>3. TablesOK' /\ OutsideOK' /\ known \subseteq known' /\ cut' \in BOOLEAN
        BY <1>1, <2>1, <3>1, <3>2 DEF TablesOK, OutsideOK, outside
      <3>4. CASE Fresh(f) = {}
        <4>1. Ends(t)
          BY <1>4, <2>3, <3>4 DEF Commit
        <4>. QED
          BY <1>1, <3>3, <4>1, EndsFits, QueueFits, PlanStays, StepFits
      <3>5. CASE Fresh(f) # {}
        <4> DEFINE fresh == Fresh(f)
                   g == [f EXCEPT !.pc = "fetch", !.news = {}, !.adds = {},
                                  !.marks = {}, !.want = fresh,
                                  !.done = f.done \cup fresh,
                                  !.round = f.round + 1]
        <4>1. Set(t, g) /\ UNCHANGED scheduled
          BY <1>4, <2>3, <3>5 DEF Commit
        <4>2. f.round \in Nat /\ f.round + 1 \in 0..MaxRounds /\ f.round + 1 # 0
          BY <1>1, <2>1, TrackingOK DEF Frame, PlanOf
        <4>3. fresh \subseteq Mods
          BY <1>1 DEF Fresh, Frame
        <4>4. g \in Frame /\ g.pc = "fetch" /\ g.round = f.round + 1
          <5> HIDE DEF fresh
          <5>. QED
            BY <1>1, <4>2, <4>3 DEF Frame, PCs
        <4> HIDE DEF g
        <4>5. PlanOf(g)
          BY <4>2, <4>4 DEF PlanOf
        <4>. QED
          BY <1>1, <3>3, <4>1, <4>4, <4>5, PlanStays, StepFits
      <3>. QED
        BY <3>4, <3>5
    <2>. QED
      BY <2>2, <2>3
  <1>. QED
    BY <1>2, <1>3, <1>4 DEF Synchronise

(* So do the Workshop, the other modsets and exits. *)
LEMMA AroundTyped ==
  ASSUME TypeInv, Publish \/ Crash \/ \E m \in Mods : OtherModset(m)
  PROVE  TypeInv'
  <1>1. TablesOK /\ OutsideOK /\ scheduled \subseteq Mods /\ cut \in BOOLEAN
        /\ frame \in [Threads -> Frame] /\ PlansFit
    BY TypeParts DEF TypeInv
  <1>2. CASE Publish
    BY <1>1, <1>2, TrackingOK
       DEF Publish, TypeInv, TypeOK, TablesOK, OutsideOK, PlansFit, PlanOf, tables
  <1>3. CASE Crash
    <2>1. frame' = [t \in Threads |-> Rest] /\ scheduled' = {} /\ cut' = TRUE
      BY <1>3 DEF Crash, Failure
    <2>2. TablesOK' /\ OutsideOK'
      BY <1>1, <1>3, TrackingOK DEF Crash, Failure, TablesOK, OutsideOK, tables
    <2>3. PlansFit'
      BY <2>1, RestFits DEF PlansFit, PlanOf
    <2>. QED
      BY <2>1, <2>2, <2>3, RestFits DEF TypeInv, TypeOK, TablesOK, OutsideOK
  <1>4. ASSUME NEW m \in Mods, OtherModset(m) PROVE TypeInv'
    <2>1. published[m] \subseteq Mods
      BY <1>1, TrackingOK DEF OutsideOK
    <2>2. /\ known' \subseteq Mods /\ versioned' \subseteq known'
          /\ deps' \in [Mods -> SUBSET Mods] /\ known \subseteq known'
      BY <1>1, <1>4, <2>1, StoreTyped DEF OtherModset, TablesOK, catalog
    <2>3. UNCHANGED <<rows, scheduled, frame, published, requests, releases>> /\ Failure
      BY <1>4 DEF OtherModset
    <2>4. spoiled' \subseteq Mods
      BY <1>1, <1>4 DEF OtherModset, OutsideOK
    <2>5. TablesOK' /\ OutsideOK' /\ cut' \in BOOLEAN
      BY <1>1, <2>2, <2>3, <2>4, TrackingOK DEF TablesOK, OutsideOK, rows, Failure
    <2>6. PlansFit'
      BY <1>1, <2>2, <2>3 DEF PlansFit, PlanOf
    <2>. QED
      BY <1>1, <2>3, <2>5, <2>6 DEF TypeInv, TypeOK, TablesOK, OutsideOK
  <1>. QED
    BY <1>2, <1>3, <1>4

(* Nothing runs at first, and the rows are consistent. *)
LEMMA InitTyped == Init => TypeInv
  <1> SUFFICES ASSUME Init PROVE TypeInv
    OBVIOUS
  <1>1. published \in [Mods -> SUBSET Mods]
    BY TrackingOK DEF Init
  <1>2. TablesOK /\ OutsideOK
    BY <1>1, TrackingOK DEF Init, TablesOK, OutsideOK
  <1>3. frame \in [Threads -> Frame] /\ PlansFit
    BY RestFits DEF Init, PlansFit
  <1>. QED
    BY <1>2, <1>3, TypeParts DEF Init, TypeInv

(* Every step keeps the types and the plans. *)
LEMMA NextTyped == TypeInv /\ [Next]_vars => TypeInv'
  <1> SUFFICES ASSUME TypeInv, [Next]_vars PROVE TypeInv'
    OBVIOUS
  <1>1. CASE UNCHANGED vars
    BY <1>1 DEF TypeInv, TypeOK, PlansFit, PlanOf, vars, tables, outside
  <1>2. ASSUME NEW t \in Threads, Step(t) PROVE TypeInv'
    BY <1>2, TailTyped, FetchTyped, SynchroniseTyped DEF Step
  <1>3. ASSUME NEW t \in Threads, Start(t) PROVE TypeInv'
    BY <1>3, StartTyped
  <1>4. ASSUME NEW c \in Callers, RefreshAll(c) \/ \E m \in Mods : Submit(c, m)
        PROVE  TypeInv'
    BY <1>4, SubmitTyped
  <1>5. CASE Publish \/ Crash \/ \E m \in Mods : OtherModset(m)
    BY <1>5, AroundTyped
  <1>. QED
    BY <1>1, <1>2, <1>3, <1>4, <1>5 DEF Next

(* Every reachable state is well typed: versions, installations and marks  *)
(* exist only for mods the modset tracks, whatever interleaves.            *)
THEOREM TypeCorrect == Spec => []TypeOK
  <1>1. TypeInv => TypeOK
    BY DEF TypeInv
  <1>. QED
    BY <1>1, InitTyped, NextTyped, PTL DEF Spec
-----------------------------------------------------------------------------
(* Debts. *)

(* Nothing more is required when mods are uninstalled. *)
LEMMA RequiredShrinks ==
  ASSUME installed' \subseteq installed, deps' = deps
  PROVE  Required' \subseteq Required
  <1>1. ASSUME NEW s \in SUBSET Mods, Closed(s) PROVE Closed(s)'
    BY <1>1 DEF Closed
  <1>. QED
    BY <1>1 DEF Required

(* Nor is anything else required when neither the installed mods nor the   *)
(* stored dependencies change.                                             *)
LEMMA RequiredStays ==
  ASSUME installed' = installed, deps' = deps
  PROVE  Required' = Required
  <1>. QED
    BY DEF Required, Closed

(* A session not stepped on still owes, unless the mod it updates is gone  *)
(* or a mod it counts on is no longer marked.                              *)
LEMMA OwesStays ==
  ASSUME NEW u \in Threads, Owes(u), frame'[u] = frame[u],
         tracked \subseteq tracked', origin \subseteq origin',
         Required' \subseteq Required
  PROVE  Owes(u)'
  <1>. QED
    BY DEF Owes

(* The debt passes a step that requires nothing new and takes no row away, *)
(* if the one session that moves owes nothing or still does.               *)
LEMMA DebtPasses ==
  ASSUME DebtInv, NEW t \in Threads,
         \A u \in Threads \ {t} : frame'[u] = frame[u],
         tracked \subseteq tracked', origin \subseteq origin',
         Required' \subseteq Required, cut => cut',
         Owes(t) => cut' \/ Owes(t)' \/ Required' \subseteq origin'
  PROVE  DebtInv'
  <1>1. ASSUME NEW u \in Threads, Owes(u) PROVE DebtInv'
    <2>1. CASE u = t
      BY <1>1, <2>1 DEF DebtInv
    <2>2. CASE u # t
      BY <1>1, <2>2, OwesStays DEF DebtInv
    <2>. QED
      BY <2>1, <2>2
  <1>2. CASE cut
    BY <1>2 DEF DebtInv
  <1>3. CASE Required \subseteq origin
    BY <1>3 DEF DebtInv
  <1>. QED
    BY <1>1, <1>2, <1>3 DEF DebtInv

(* The frame of the session that moves, and of the others. *)
LEMMA SetMoves ==
  ASSUME TypeInv, NEW t \in Threads, NEW f, Set(t, f)
  PROVE  frame'[t] = f /\ \A u \in Threads \ {t} : frame'[u] = frame[u]
  <1>. QED
    BY DEF Set, TypeInv, TypeOK

(* A request that changes what is installed owes a synchronisation; one    *)
(* that changes nothing takes no debt away.                                *)
LEMMA SubmitDebt ==
  ASSUME TypeInv, DebtInv, NEW c \in Callers,
         RefreshAll(c) \/ \E m \in Mods : Submit(c, m)
  PROVE  DebtInv'
  <1>1. c \in Threads
    BY DEF Threads
  <1>2. ASSUME Request(c), UNCHANGED tables, NEW f, Set(c, f) PROVE DebtInv'
    <2>1. ~Owes(c) /\ cut' = cut
      BY <1>2 DEF Request, At, Owes
    <2>2. Required' = Required
      BY <1>2, RequiredStays DEF tables
    <2>3. tracked' = tracked /\ origin' = origin
      BY <1>2 DEF tables
    <2>. QED
      BY <1>1, <1>2, <2>1, <2>2, <2>3, SetMoves, DebtPasses
  <1>3. CASE RefreshAll(c)
    BY <1>2, <1>3 DEF RefreshAll
  <1>4. ASSUME NEW m \in Mods, Submit(c, m) PROVE DebtInv'
    <2>1. ASSUME NEW v \in BOOLEAN, Create(c, m, v) PROVE DebtInv'
      <3>1. frame'[c] = Refreshing("create", m, {})
        BY <1>1, <2>1, SetMoves DEF Create
      <3>2. frame'[c].pc = "fetch"
        BY <3>1, RefreshingFits
      <3>. QED
        BY <1>1, <3>2 DEF DebtInv, Owes
    <2>2. ASSUME NEW v \in BOOLEAN, NEW o \in BOOLEAN, Update(c, m, v, o)
          PROVE  DebtInv'
      <3> DEFINE p == IF o /\ m \in installed /\ ~v THEN "orphans" ELSE "tracked"
      <3>1. frame'[c] = Begin("update", m, p) /\ m \in tracked'
        BY <1>1, <2>2, SetMoves DEF Update
      <3>2. frame'[c].pc = p /\ frame'[c].mod = m
        BY <3>1, BeginFits DEF Ops, PCs
      <3>. QED
        BY <1>1, <3>1, <3>2 DEF DebtInv, Owes
    <2>3. ASSUME Edit(c, m) PROVE DebtInv'
      <3>1. frame'[c] = Begin("edit", m, "tracked") /\ m \in tracked'
        BY <1>1, <2>3, SetMoves DEF Edit
      <3>2. frame'[c].pc = "tracked" /\ frame'[c].mod = m
        BY <3>1, BeginFits DEF Ops, PCs
      <3>. QED
        BY <1>1, <3>1, <3>2 DEF DebtInv, Owes
    <2>4. ASSUME NEW v \in BOOLEAN, Delete(c, m, v) PROVE DebtInv'
      BY <1>2, <2>4 DEF Delete
    <2>5. ASSUME Refresh(c, m) PROVE DebtInv'
      BY <1>2, <2>5 DEF Refresh
    <2>. QED
      BY <1>4, <2>1, <2>2, <2>3, <2>4, <2>5 DEF Submit
  <1>. QED
    BY <1>3, <1>4

(* A session that starts was at rest and owed nothing. *)
LEMMA StartDebt ==
  ASSUME TypeInv, DebtInv, NEW t \in Threads, Start(t)
  PROVE  DebtInv'
  <1>1. At(t, "idle") /\ UNCHANGED <<tables, cut>> /\ \E f : Set(t, f)
    BY DEF Start, Take, Schedule
  <1>2. ~Owes(t)
    BY <1>1 DEF At, Owes
  <1>3. Required' = Required
    BY <1>1, RequiredStays DEF tables
  <1>4. tracked' = tracked /\ origin' = origin /\ cut' = cut
    BY <1>1 DEF tables
  <1>. QED
    BY <1>1, <1>2, <1>3, <1>4, SetMoves, DebtPasses

(* Whoever removes a row takes over every debt about it; uninstalling      *)
(* orphans leaves debts as they are.                                       *)
LEMMA TailDebt ==
  ASSUME TypeInv, DebtInv, NEW t \in Threads,
         Remove(t) \/ FindOrphans(t) \/ ClearOrphans(t)
  PROVE  DebtInv'
  <1>1. CASE Remove(t)
    <2>1. frame[t].op = "delete" /\ frame[t] \in Frame
      BY <1>1 DEF Remove, At, TypeInv, TypeOK, PlansFit, PlanOf
    <2>2. frame'[t] = [frame[t] EXCEPT !.pc = "clear"]
      BY <1>1 DEF Remove
    <2>3. frame'[t].pc = "clear" /\ frame'[t].op = "delete"
      BY <2>1, <2>2 DEF Frame
    <2>. QED
      BY <2>3 DEF DebtInv, Owes
  <1>2. CASE FindOrphans(t)
    <2>1. At(t, "orphans") /\ UNCHANGED <<tables, cut>>
      BY <1>2 DEF FindOrphans
    <2>2. PICK o : Set(t, [frame[t] EXCEPT !.pc = "clear", !.orphans = o])
      BY <1>2 DEF FindOrphans
    <2>3. frame[t] \in Frame
      BY DEF TypeInv, TypeOK
    <2>4. frame'[t].pc = "clear" /\ frame'[t].op = frame[t].op
          /\ frame'[t].mod = frame[t].mod
      <3> DEFINE g == [frame[t] EXCEPT !.pc = "clear", !.orphans = o]
      <3>1. frame'[t] = g
        BY <2>2, SetMoves
      <3>2. g.pc = "clear" /\ g.op = frame[t].op /\ g.mod = frame[t].mod
        BY <2>3 DEF Frame
      <3>. QED
        BY <3>1, <3>2
    <2>5. tracked' = tracked /\ origin' = origin /\ cut' = cut /\ Required' = Required
      BY <2>1, RequiredStays DEF tables
    <2>6. Owes(t) => Owes(t)'
      BY <2>1, <2>4, <2>5 DEF Owes, At
    <2>. QED
      BY <2>2, <2>5, <2>6, SetMoves, DebtPasses
  <1>3. CASE ClearOrphans(t)
    <2> DEFINE p == IF frame[t].op = "delete" THEN "plan" ELSE "tracked"
               g == [frame[t] EXCEPT !.orphans = {}, !.pc = p]
    <2>1. At(t, "clear") /\ Set(t, g) /\ UNCHANGED <<tracked, origin, cut>>
      BY <1>3 DEF ClearOrphans
    <2>2. frame[t] \in Frame
      BY DEF TypeInv, TypeOK
    <2>3. g.pc = p /\ g.op = frame[t].op /\ g.mod = frame[t].mod
      BY <2>2 DEF Frame
    <2>4. frame'[t] = g
      BY <2>1, SetMoves
    <2>5. Required' \subseteq Required
      BY <1>3, RequiredShrinks DEF ClearOrphans, catalog
    <2> HIDE DEF g
    <2>6. Owes(t) => Owes(t)'
      BY <2>1, <2>3, <2>4 DEF Owes, At
    <2>. QED
      BY <2>1, <2>5, <2>6, SetMoves, DebtPasses
  <1>. QED
    BY <1>1, <1>2, <1>3

(* A session that fetches goes on to synchronise. *)
LEMMA FetchDebt ==
  ASSUME TypeInv, DebtInv, NEW t \in Threads,
         Upsert(t) \/ OthersRaise(t) \/ \E m \in Mods : Fetch(t, m) \/ FetchFails(t, m)
  PROVE  DebtInv'
  <1>1. frame[t] \in Frame
    BY DEF TypeInv, TypeOK
  <1>2. ASSUME NEW m \in Mods, Fetched(t, m), frame[t].pc \in {"fetch", "upsert"}
        PROVE  DebtInv'
    <2>1. PICK f \in Frame : /\ Set(t, f)
                             /\ \/ cut'
                                \/ f.pc \in {"fetch", "plan"}
                                \/ f.pc = "tracked" /\ f.op \notin {"update", "edit"}
      BY <1>2, FetchedFits
    <2>2. frame'[t] = f
      BY <2>1, SetMoves
    <2>. QED
      BY <2>1, <2>2 DEF DebtInv, Owes
  <1>3. ASSUME NEW m \in Mods, Fetch(t, m) PROVE DebtInv'
    <2> DEFINE g == [frame[t] EXCEPT !.pc = "upsert", !.item = m, !.page = published[m]]
    <2>1. frame'[t] = g
      BY <1>3, SetMoves DEF Fetch
    <2>2. g.pc = "upsert"
      BY <1>1 DEF Frame
    <2>. QED
      BY <2>1, <2>2 DEF DebtInv, Owes
  <1>4. ASSUME NEW m \in Mods, FetchFails(t, m) PROVE DebtInv'
    <2>1. CASE Raises(t, FALSE)
      BY <2>1 DEF Raises, DebtInv
    <2>2. CASE Fetched(t, m)
      BY <1>2, <1>4, <2>2 DEF FetchFails, At
    <2>. QED
      BY <1>4, <2>1, <2>2 DEF FetchFails
  <1>5. CASE Upsert(t)
    <2>1. frame[t].item \in Mods
      BY <1>1 DEF Frame
    <2>. QED
      BY <1>2, <1>5, <2>1 DEF Upsert, At
  <1>6. CASE OthersRaise(t)
    BY <1>6 DEF OthersRaise, Raises, DebtInv
  <1>. QED
    BY <1>3, <1>4, <1>5, <1>6

(* A plan covers everything required when it is made, and a commit marks   *)
(* what was planned.                                                       *)
LEMMA SynchroniseDebt ==
  ASSUME TypeInv, DebtInv, NEW t \in Threads, Synchronise(t)
  PROVE  DebtInv'
  <1> DEFINE f == frame[t]
  <1>1. f \in Frame
    BY DEF TypeInv, TypeOK
  <1>2. CASE Tracked(t)
    <2>1. At(t, "tracked") /\ UNCHANGED tables
      BY <1>2 DEF Tracked
    <2>2. tracked' = tracked /\ origin' = origin /\ Required' = Required
      BY <2>1, RequiredStays DEF tables
    <2>3. CASE f.mod \in tracked
      <3> DEFINE g == [f EXCEPT !.pc = "plan"]
      <3>1. frame'[t] = g
        BY <1>2, <2>3, SetMoves DEF Tracked
      <3>2. g.pc = "plan"
        BY <1>1 DEF Frame
      <3>. QED
        BY <3>1, <3>2 DEF DebtInv, Owes
    <2>4. CASE f.mod \notin tracked /\ f.op \in {"update", "edit"}
      <3>1. ~Owes(t)
        BY <2>1, <2>4 DEF Owes, At
      <3>2. cut' = cut /\ \E g : Set(t, g)
        BY <1>2, <2>4 DEF Tracked, Ends
      <3>. QED
        BY <2>2, <3>1, <3>2, SetMoves, DebtPasses
    <2>5. CASE f.mod \notin tracked /\ f.op \notin {"update", "edit"}
      BY <1>2, <2>5 DEF Tracked, Raises, DebtInv
    <2>. QED
      BY <2>3, <2>4, <2>5
  <1>3. CASE Plan(t)
    <2> DEFINE adds == Required \ tracked
               marks == (Required \cap tracked) \ origin
               g == [f EXCEPT !.pc = "commit", !.news = Required \ known,
                              !.adds = adds, !.marks = marks,
                              !.want = Required \ versioned]
    <2>1. Set(t, g) /\ UNCHANGED tables
      BY <1>3 DEF Plan
    <2>2. Required' = Required /\ origin' = origin
      BY <2>1, RequiredStays DEF tables
    <2>3. frame'[t] = g
      BY <2>1, SetMoves
    <2>4. g.pc = "commit" /\ g.adds = adds /\ g.marks = marks
      <3> HIDE DEF adds, marks
      <3>. QED
        BY <1>1 DEF Frame
    <2>5. Required \subseteq origin \cup adds \cup marks
      OBVIOUS
    <2> HIDE DEF g, adds, marks
    <2>6. Owes(t)'
      BY <2>2, <2>3, <2>4, <2>5 DEF Owes
    <2>. QED
      BY <2>6 DEF DebtInv
  <1>4. CASE Commit(t)
    <2>1. f.pc = "commit" /\ UNCHANGED <<deps, installed>>
      BY <1>4 DEF Commit, At
    <2>2. CASE Conflict(f)
      BY <1>4, <2>2 DEF Commit, Raises, DebtInv
    <2>3. CASE ~Conflict(f)
      <3>1. /\ tracked' = tracked \cup f.adds
            /\ origin' = origin \cup f.adds \cup f.marks /\ cut' = cut
        BY <1>4, <2>3 DEF Commit
      <3>2. \E g : Set(t, g)
        BY <1>4, <2>3 DEF Commit, Ends
      <3>3. Required' = Required
        BY <2>1, RequiredStays
      <3>4. Owes(t) => Required' \subseteq origin'
        BY <2>1, <3>1, <3>3 DEF Owes
      <3>. QED
        BY <3>1, <3>2, <3>3, <3>4, SetMoves, DebtPasses
    <2>. QED
      BY <2>2, <2>3
  <1>. QED
    BY <1>2, <1>3, <1>4 DEF Synchronise

(* A release on the Workshop changes no debt; the rest cuts something.     *)
LEMMA AroundDebt ==
  ASSUME DebtInv, Publish \/ Crash \/ \E m \in Mods : OtherModset(m)
  PROVE  DebtInv'
  <1>1. CASE Publish
    <2>1. UNCHANGED <<tables, frame, cut>>
      BY <1>1 DEF Publish
    <2>2. Required' = Required
      BY <2>1, RequiredStays DEF tables
    <2>. QED
      BY <2>1, <2>2 DEF DebtInv, Owes, tables
  <1>2. CASE Crash \/ \E m \in Mods : OtherModset(m)
    BY <1>2 DEF Crash, OtherModset, Failure, DebtInv
  <1>. QED
    BY <1>1, <1>2

(* No step makes a debt disappear. *)
LEMMA NextDebt == TypeInv /\ DebtInv /\ [Next]_vars => DebtInv'
  <1> SUFFICES ASSUME TypeInv, DebtInv, [Next]_vars PROVE DebtInv'
    OBVIOUS
  <1>1. CASE UNCHANGED vars
    <2>1. UNCHANGED <<tables, frame, cut>>
      BY <1>1 DEF vars
    <2>2. Required' = Required
      BY <2>1, RequiredStays DEF tables
    <2>. QED
      BY <2>1, <2>2 DEF DebtInv, Owes, tables
  <1>2. ASSUME NEW t \in Threads, Step(t) PROVE DebtInv'
    BY <1>2, TailDebt, FetchDebt, SynchroniseDebt DEF Step
  <1>3. ASSUME NEW t \in Threads, Start(t) PROVE DebtInv'
    BY <1>3, StartDebt
  <1>4. ASSUME NEW c \in Callers, RefreshAll(c) \/ \E m \in Mods : Submit(c, m)
        PROVE  DebtInv'
    BY <1>4, SubmitDebt
  <1>5. CASE Publish \/ Crash \/ \E m \in Mods : OtherModset(m)
    BY <1>5, AroundDebt
  <1>. QED
    BY <1>1, <1>2, <1>3, <1>4, <1>5 DEF Next

(* Once every session is at rest and nothing was cut short, everything an  *)
(* installed mod needs, directly or through others, is tracked and marked  *)
(* as a dependency, however many sessions changed the modset at once.      *)
THEOREM QuietCorrect == Spec => []QuietClosed
  <1>1. Init => IInv
    BY InitTyped DEF Init, IInv, DebtInv
  <1>2. IInv /\ [Next]_vars => IInv'
    <2>1. IInv => TypeInv /\ DebtInv
      BY DEF IInv
    <2>2. TypeInv' /\ DebtInv' => IInv'
      BY DEF IInv
    <2>. QED
      BY <2>1, <2>2, NextTyped, NextDebt
  <1>3. IInv => QuietClosed
    BY DEF IInv, DebtInv, QuietClosed, Owes, At
  <1>. QED
    BY <1>1, <1>2, <1>3, PTL DEF Spec
-----------------------------------------------------------------------------
(* The metadata queue as ModTracking uses it.                              *)

(* A worker refreshes one mod, which is still scheduled, and which no      *)
(* other worker refreshes.                                                 *)
WorkerInv ==
    /\ \A w \in Working : /\ frame[w].op = "refresh" /\ frame[w].rest = {}
                          /\ frame[w].mod \in scheduled
    /\ \A v, w \in Working : frame[v].mod = frame[w].mod => v = w

Busy == {frame[w].mod : w \in Working}

(* The worker goes on with its mod, or is done with it. *)
GoesOn(w) == /\ \E f : /\ Set(w, f)
                      /\ f.pc # "idle" /\ f.op = frame[w].op
                      /\ f.mod = frame[w].mod /\ f.rest = frame[w].rest
             /\ scheduled' = scheduled
IsDone(w) == Set(w, Rest) /\ scheduled' = scheduled \ {frame[w].mod}

(* When an operation ends or raises, a worker is done, and another session *)
(* at most adds to the queue.                                              *)
LEMMA EndsQueue ==
  ASSUME TypeOK, NEW t \in Threads, Ends(t) \/ Raises(t, TRUE) \/ Raises(t, FALSE)
  PROVE  /\ t \in Workers /\ frame[t].op = "refresh" /\ frame[t].rest = {} => IsDone(t)
         /\ t \notin Workers =>
               /\ scheduled' \in {scheduled, scheduled \cup {frame[t].mod}}
               /\ \A u \in Threads \ {t} : frame'[u] = frame[u]
  <1>1. ASSUME NEW others, others = {}, \E f \in NextMod(others) : Set(t, f)
        PROVE  Set(t, Rest)
    BY <1>1 DEF NextMod
  <1>2. ASSUME NEW f, Set(t, f) PROVE \A u \in Threads \ {t} : frame'[u] = frame[u]
    BY <1>2 DEF Set, TypeOK
  <1>3. CASE Ends(t)
    <2>1. /\ \E f \in NextMod(frame[t].rest) : Set(t, f)
          /\ t \in Workers /\ frame[t].op = "refresh" => scheduled' = scheduled \ {frame[t].mod}
      <3>1. ASSUME t \in Workers, frame[t].op = "refresh"
            PROVE  scheduled' = scheduled \ {frame[t].mod}
        BY <1>3, <3>1 DEF Ends
      <3>. QED
        BY <1>3, <3>1 DEF Ends
    <2>3. ASSUME t \notin Workers
          PROVE  \/ scheduled' = scheduled \cup ({frame[t].mod} \cap tracked)
                 \/ scheduled' = scheduled
      <3>1. CASE frame[t].op \in {"create", "update"}
        BY <1>3, <2>3, <3>1 DEF Ends
      <3>2. CASE frame[t].op \notin {"create", "update"}
        BY <1>3, <2>3, <3>2 DEF Ends
      <3>. QED
        BY <3>1, <3>2
    <2>2. scheduled \cup ({frame[t].mod} \cap tracked) \in {scheduled, scheduled \cup {frame[t].mod}}
      <3>1. CASE frame[t].mod \in tracked
        BY <3>1
      <3>2. CASE frame[t].mod \notin tracked
        BY <3>2
      <3>. QED
        BY <3>1, <3>2
    <2>. QED
      BY <1>1, <1>2, <2>1, <2>2, <2>3 DEF IsDone
  <1>4. ASSUME NEW broken \in BOOLEAN, Raises(t, broken)
        PROVE  /\ t \in Workers /\ frame[t].op = "refresh" /\ frame[t].rest = {} => IsDone(t)
               /\ t \notin Workers =>
                     /\ scheduled' \in {scheduled, scheduled \cup {frame[t].mod}}
                     /\ \A u \in Threads \ {t} : frame'[u] = frame[u]
    <2> DEFINE others == IF broken THEN {} ELSE frame[t].rest
    <2>1. /\ \E f \in NextMod(others) : Set(t, f)
          /\ frame[t].rest = {} => others = {}
          /\ scheduled' = IF t \in Workers THEN scheduled \ {frame[t].mod} ELSE scheduled
      BY <1>4 DEF Raises
    <2> HIDE DEF others
    <2>. QED
      BY <1>1, <1>2, <2>1 DEF IsDone
  <1>. QED
    BY <1>3, <1>4

(* A step of a worker. *)
LEMMA WorkerMoves ==
  ASSUME TypeInv, WorkerInv, NEW w \in Workers, Step(w)
  PROVE  w \in Working /\ (GoesOn(w) \/ IsDone(w))
  <1>1. w \in Threads /\ frame[w] \in Frame /\ PlanOf(frame[w]) /\ TypeOK
    BY DEF TypeInv, TypeOK, PlansFit, Threads
  <1>2. w \in Working
    BY DEF Step, Remove, FindOrphans, ClearOrphans, Fetch, FetchFails, Upsert, OthersRaise,
           Synchronise, Tracked, Plan, Commit, Working, At
  <1>3. frame[w].op = "refresh" /\ frame[w].rest = {} /\ frame[w].pc # "remove"
    BY <1>1, <1>2 DEF WorkerInv, PlanOf
  <1>4. ASSUME Ends(w) \/ Raises(w, TRUE) \/ Raises(w, FALSE) PROVE IsDone(w)
    BY <1>1, <1>3, <1>4, EndsQueue
  <1> DEFINE f == frame[w]
  <1>5. ASSUME NEW m \in Mods, Fetched(w, m) PROVE GoesOn(w) \/ IsDone(w)
    <2>1. CASE Ends(w)
      BY <1>4, <2>1
    <2>2. CASE ~Ends(w)
      <3> DEFINE g == [f EXCEPT !.want = @ \ {m}, !.page = {}, !.item = f.mod,
                                !.pc = IF f.want \ {m} = {} THEN AfterFetch(w) ELSE "fetch"]
      <3>1. Set(w, g) /\ scheduled' = scheduled
        BY <1>5, <2>2 DEF Fetched
      <3>2. g.pc # "idle" /\ g.op = f.op /\ g.mod = f.mod /\ g.rest = f.rest
        BY <1>1 DEF Frame, AfterFetch
      <3>. QED
        BY <3>1, <3>2, Zenon DEF GoesOn
    <2>. QED
      BY <2>1, <2>2
  <1>6. ASSUME FindOrphans(w) PROVE GoesOn(w) \/ IsDone(w)
    <2> DEFINE g == [f EXCEPT !.pc = "clear", !.orphans =
                        IF f.mod \in tracked THEN Orphans(f.mod) ELSE {}]
    <2>1. Set(w, g) /\ scheduled' = scheduled
      BY <1>6 DEF FindOrphans
    <2>2. g.pc # "idle" /\ g.op = f.op /\ g.mod = f.mod /\ g.rest = f.rest
      BY <1>1 DEF Frame
    <2>. QED
      BY <2>1, <2>2, Zenon DEF GoesOn
  <1>7. ASSUME ClearOrphans(w) PROVE GoesOn(w) \/ IsDone(w)
    <2> DEFINE g == [f EXCEPT !.orphans = {}, !.pc = IF f.op = "delete" THEN "plan" ELSE "tracked"]
    <2>1. Set(w, g) /\ scheduled' = scheduled
      BY <1>7 DEF ClearOrphans
    <2>2. g.pc # "idle" /\ g.op = f.op /\ g.mod = f.mod /\ g.rest = f.rest
      BY <1>1 DEF Frame
    <2>. QED
      BY <2>1, <2>2, Zenon DEF GoesOn
  <1>8. ASSUME NEW m \in Mods, Fetch(w, m) PROVE GoesOn(w)
    <2> DEFINE g == [f EXCEPT !.pc = "upsert", !.item = m, !.page = published[m]]
    <2>1. Set(w, g) /\ scheduled' = scheduled
      BY <1>8 DEF Fetch
    <2>2. g.pc # "idle" /\ g.op = f.op /\ g.mod = f.mod /\ g.rest = f.rest
      BY <1>1 DEF Frame
    <2>. QED
      BY <2>1, <2>2, Zenon DEF GoesOn
  <1>9. ASSUME NEW m \in Mods, FetchFails(w, m) PROVE GoesOn(w) \/ IsDone(w)
    BY <1>4, <1>5, <1>9 DEF FetchFails
  <1>10. ASSUME Upsert(w) PROVE GoesOn(w) \/ IsDone(w)
    <2>1. Fetched(w, f.item) /\ f.item \in Mods
      BY <1>1, <1>10 DEF Upsert, Frame
    <2>. QED
      BY <1>5, <2>1
  <1>11. ASSUME Tracked(w) PROVE GoesOn(w) \/ IsDone(w)
    <2>1. CASE f.mod \in tracked
      <3> DEFINE g == [f EXCEPT !.pc = "plan"]
      <3>1. Set(w, g) /\ scheduled' = scheduled
        BY <1>11, <2>1 DEF Tracked
      <3>2. g.pc # "idle" /\ g.op = f.op /\ g.mod = f.mod /\ g.rest = f.rest
        BY <1>1 DEF Frame
      <3>. QED
        BY <3>1, <3>2, Zenon DEF GoesOn
    <2>2. CASE f.mod \notin tracked
      BY <1>4, <1>11, <2>2 DEF Tracked
    <2>. QED
      BY <2>1, <2>2
  <1>12. ASSUME Plan(w) PROVE GoesOn(w) \/ IsDone(w)
    <2> DEFINE g == [f EXCEPT !.pc = "commit", !.news = Required \ known,
                              !.adds = Required \ tracked, !.marks = (Required \cap tracked) \ origin,
                              !.want = Required \ versioned]
    <2>1. Set(w, g) /\ scheduled' = scheduled
      BY <1>12 DEF Plan
    <2>2. g.pc # "idle" /\ g.op = f.op /\ g.mod = f.mod /\ g.rest = f.rest
      BY <1>1 DEF Frame
    <2>. QED
      BY <2>1, <2>2, Zenon DEF GoesOn
  <1>13. ASSUME Commit(w) PROVE GoesOn(w) \/ IsDone(w)
    <2>1. CASE Ends(w) \/ Raises(w, TRUE)
      BY <1>4, <2>1
    <2>2. CASE ~Ends(w) /\ ~Raises(w, TRUE)
      <3> DEFINE g == [f EXCEPT !.pc = "fetch", !.news = {}, !.adds = {}, !.marks = {},
                                !.want = Fresh(f), !.done = f.done \cup Fresh(f),
                                !.round = f.round + 1]
      <3>1. Set(w, g) /\ scheduled' = scheduled
        BY <1>13, <2>2 DEF Commit
      <3>2. g.pc # "idle" /\ g.op = f.op /\ g.mod = f.mod /\ g.rest = f.rest
        BY <1>1 DEF Frame
      <3>. QED
        BY <3>1, <3>2, Zenon DEF GoesOn
    <2>. QED
      BY <2>1, <2>2
  <1>14. ~OthersRaise(w)
    BY TrackingOK DEF OthersRaise
  <1>. QED
    BY <1>2, <1>3, <1>6, <1>7, <1>8, <1>9, <1>10, <1>11, <1>12, <1>13, <1>14
       DEF Step, Remove, At, Synchronise

(* A step of another session leaves the workers alone, and adds one mod to *)
(* the queue at most.                                                      *)
LEMMA OthersMove ==
  ASSUME TypeInv, WorkerInv, NEW t \in Threads \ Workers, Step(t)
  PROVE  /\ \A w \in Workers : frame'[w] = frame[w]
         /\ scheduled' = scheduled \/ \E m \in Mods : scheduled' = scheduled \cup {m}
  <1> DEFINE Others == /\ \A w \in Workers : frame'[w] = frame[w]
                       /\ scheduled' \in {scheduled, scheduled \cup {frame[t].mod}}
  <1>1. TypeOK /\ t \in Threads /\ frame[t].mod \in Mods
    BY DEF TypeInv, TypeOK, Frame
  <1>2. ASSUME NEW f, Set(t, f) PROVE \A w \in Workers : frame'[w] = frame[w]
    BY <1>1, <1>2 DEF Set, TypeOK, Threads
  <1>3. ASSUME Ends(t) \/ Raises(t, TRUE) \/ Raises(t, FALSE) PROVE Others
    BY <1>1, <1>3, EndsQueue DEF Threads
  <1>4. ASSUME NEW f, Set(t, f), scheduled' = scheduled PROVE Others
    BY <1>2, <1>4
  <1> HIDE DEF Others
  <1>5. ASSUME Remove(t) PROVE Others
    <2>1. ASSUME NEW w \in Workers PROVE frame'[w] = frame[w]
      <3>1. w \in Threads /\ PlanOf(frame[w])
        BY DEF TypeInv, PlansFit, Threads
      <3>2. ~At(w, "remove")
        BY <3>1 DEF WorkerInv, Working, PlanOf, At
      <3>. QED
        BY <1>5, <3>1, <3>2 DEF Remove
    <2>. QED
      BY <1>5, <2>1 DEF Remove, Others
  <1>6. ASSUME FindOrphans(t) PROVE Others
    BY <1>4, <1>6 DEF FindOrphans
  <1>7. ASSUME ClearOrphans(t) PROVE Others
    BY <1>4, <1>7 DEF ClearOrphans
  <1>8. ASSUME NEW m \in Mods, Fetched(t, m) PROVE Others
    BY <1>3, <1>4, <1>8 DEF Fetched
  <1>9. ASSUME NEW m \in Mods, Fetch(t, m) \/ FetchFails(t, m) PROVE Others
    BY <1>3, <1>4, <1>8, <1>9 DEF Fetch, FetchFails
  <1>10. ASSUME Upsert(t) PROVE Others
    <2>1. Fetched(t, frame[t].item) /\ frame[t].item \in Mods
      BY <1>1, <1>10 DEF Upsert, TypeOK, Frame
    <2>. QED
      BY <1>8, <2>1
  <1>11. ASSUME Synchronise(t) PROVE Others
    BY <1>3, <1>4, <1>11 DEF Synchronise, Tracked, Plan, Commit
  <1>12. ASSUME OthersRaise(t) PROVE Others
    BY <1>3, <1>12 DEF OthersRaise
  <1>13. Others
    BY <1>5, <1>6, <1>7, <1>9, <1>10, <1>11, <1>12 DEF Step
  <1>. QED
    BY <1>1, <1>13 DEF Others

(* So do requests, releases and what happens to other modsets. *)
LEMMA OutsideMoves ==
  ASSUME TypeInv,
         \/ \E c \in Callers : RefreshAll(c) \/ \E m \in Mods : Submit(c, m)
         \/ \E s \in Threads : Schedule(s)
         \/ \E m \in Mods : OtherModset(m)
         \/ Publish \/ UNCHANGED vars
  PROVE  /\ \A w \in Workers : frame'[w] = frame[w]
         /\ scheduled' = scheduled
  <1>1. ASSUME NEW t \in Threads \ Workers, NEW f, Set(t, f)
        PROVE  \A w \in Workers : frame'[w] = frame[w]
    BY <1>1 DEF Set, TypeInv, TypeOK, Threads
  <1>2. ASSUME NEW c \in Callers, NEW f, Set(c, f)
        PROVE  \A w \in Workers : frame'[w] = frame[w]
    BY <1>1, <1>2, TrackingOK DEF Threads
  <1>3. ASSUME NEW c \in Callers, RefreshAll(c)
        PROVE  (\A w \in Workers : frame'[w] = frame[w]) /\ scheduled' = scheduled
    BY <1>2, <1>3 DEF RefreshAll, Request
  <1>4. ASSUME NEW c \in Callers, NEW m \in Mods, Submit(c, m)
        PROVE  (\A w \in Workers : frame'[w] = frame[w]) /\ scheduled' = scheduled
    BY <1>2, <1>4 DEF Submit, Create, Delete, Update, Edit, Refresh, Request
  <1>5. ASSUME NEW s \in Threads, Schedule(s)
        PROVE  (\A w \in Workers : frame'[w] = frame[w]) /\ scheduled' = scheduled
    <2>1. s \in Threads \ Workers /\ \E f \in NextMod(tracked) : Set(s, f)
      BY <1>5, TrackingOK DEF Schedule
    <2>. QED
      BY <1>1, <1>5, <2>1 DEF Schedule
  <1>6. CASE Publish \/ (\E m \in Mods : OtherModset(m)) \/ UNCHANGED vars
    BY <1>6 DEF Publish, OtherModset, vars
  <1>. QED
    BY <1>3, <1>4, <1>5, <1>6

(* What is asked of the queue does not matter to those who work. *)
LEMMA WorkersStay ==
  ASSUME WorkerInv, \A w \in Workers : frame'[w] = frame[w], scheduled \subseteq scheduled'
  PROVE  WorkerInv' /\ Busy' = Busy
  <1>1. Working' = Working /\ \A w \in Working : frame'[w] = frame[w]
    BY DEF Working, At
  <1>. QED
    BY <1>1 DEF WorkerInv, Busy

(* A worker is busy with its mod until it is done. *)
LEMMA WorkerRefines ==
  ASSUME TypeInv, WorkerInv, NEW w \in Workers, Step(w)
  PROVE  /\ WorkerInv'
         /\ \/ Busy' = Busy /\ scheduled' = scheduled
            \/ /\ frame[w].mod \in Busy
               /\ Busy' = Busy \ {frame[w].mod} /\ scheduled' = scheduled \ {frame[w].mod}
  <1>1. w \in Working /\ (GoesOn(w) \/ IsDone(w))
    BY WorkerMoves
  <1>2. ASSUME NEW f, Set(w, f)
        PROVE  frame'[w] = f /\ \A v \in Workers \ {w} : frame'[v] = frame[v]
    BY <1>2 DEF Set, TypeInv, TypeOK, Threads
  <1>3. CASE GoesOn(w)
    <2>1. /\ scheduled' = scheduled
          /\ frame'[w].pc # "idle" /\ frame'[w].op = frame[w].op
          /\ frame'[w].mod = frame[w].mod /\ frame'[w].rest = frame[w].rest
          /\ \A v \in Workers \ {w} : frame'[v] = frame[v]
      BY <1>2, <1>3 DEF GoesOn
    <2>2. Working' = Working
      BY <1>1, <2>1 DEF Working, At
    <2>3. \A v \in Working : /\ frame'[v].mod = frame[v].mod /\ frame'[v].op = frame[v].op
                             /\ frame'[v].rest = frame[v].rest
      BY <2>1 DEF Working
    <2>. QED
      BY <2>1, <2>2, <2>3 DEF WorkerInv, Busy
  <1>4. CASE IsDone(w)
    <2>1. /\ scheduled' = scheduled \ {frame[w].mod}
          /\ frame'[w].pc = "idle"
          /\ \A v \in Workers \ {w} : frame'[v] = frame[v]
      BY <1>2, <1>4, RestFits DEF IsDone
    <2>2. Working' = Working \ {w} /\ \A v \in Working' : frame'[v] = frame[v]
      BY <1>1, <2>1 DEF Working, At
    <2>3. \A v \in Working' : frame[v].mod # frame[w].mod
      BY <1>1, <2>2 DEF WorkerInv
    <2>4. WorkerInv'
      BY <2>1, <2>2, <2>3 DEF WorkerInv
    <2>5. frame[w].mod \in Busy /\ Busy' = Busy \ {frame[w].mod}
      BY <1>1, <2>2, <2>3 DEF Busy
    <2>. QED
      BY <2>1, <2>4, <2>5
  <1>. QED
    BY <1>1, <1>3, <1>4

(* A worker takes a mod that no other is busy with. *)
LEMMA TakeRefines ==
  ASSUME TypeInv, WorkerInv, NEW w \in Workers, NEW m \in Mods, Take(w, m)
  PROVE  WorkerInv' /\ m \in scheduled \ Busy /\ Busy' = Busy \cup {m} /\ scheduled' = scheduled
  <1> DEFINE f == Refreshing("refresh", m, {})
  <1>1. f.pc = "fetch" /\ f.op = "refresh" /\ f.mod = m /\ f.rest = {}
    BY RestFits DEF Refreshing, Begin, Frame
  <1>2. frame'[w] = f /\ \A v \in Workers \ {w} : frame'[v] = frame[v]
    BY DEF Take, Set, TypeInv, TypeOK, Threads
  <1>3. /\ m \in scheduled /\ scheduled' = scheduled /\ w \notin Working
        /\ \A v \in Working : frame[v].mod # m
    BY DEF Take, Working, At
  <1> HIDE DEF f
  <1>4. Working' = Working \cup {w} /\ \A v \in Working : frame'[v] = frame[v]
    BY <1>1, <1>2, <1>3 DEF Working, At
  <1>5. WorkerInv'
    BY <1>1, <1>2, <1>3, <1>4 DEF WorkerInv
  <1>6. m \notin Busy /\ Busy' = Busy \cup {m}
    BY <1>1, <1>2, <1>3, <1>4 DEF Busy
  <1>. QED
    BY <1>3, <1>5, <1>6

(* Every step is one of the set of mods to refresh, or changes nothing of  *)
(* it.                                                                     *)
LEMMA NextQueues ==
  TypeInv /\ WorkerInv /\ [Next]_vars
     => WorkerInv' /\ (RefreshSet!Next \/ (scheduled' = scheduled /\ Busy' = Busy))
  <1> SUFFICES ASSUME TypeInv, WorkerInv, [Next]_vars
               PROVE  WorkerInv' /\ (RefreshSet!Next \/ (scheduled' = scheduled /\ Busy' = Busy))
    OBVIOUS
  <1>1. /\ \A m \in Mods : RefreshSet!Ask(m) <=> scheduled' = scheduled \cup {m} /\ Busy' = Busy
        /\ \A m \in Mods : RefreshSet!Take(m) <=>
              m \in scheduled \ Busy /\ Busy' = Busy \cup {m} /\ scheduled' = scheduled
        /\ \A m \in Mods : RefreshSet!Finish(m) <=>
              m \in Busy /\ Busy' = Busy \ {m} /\ scheduled' = scheduled \ {m}
        /\ RefreshSet!Exit <=> scheduled' = {} /\ Busy' = {}
    BY DEF RefreshSet!Ask, RefreshSet!Take, RefreshSet!Finish, RefreshSet!Exit, Busy
  <1>2. ASSUME NEW t \in Threads \ Workers, Step(t)
        PROVE  WorkerInv' /\ (RefreshSet!Next \/ (scheduled' = scheduled /\ Busy' = Busy))
    <2>1. /\ \A w \in Workers : frame'[w] = frame[w]
          /\ scheduled' = scheduled \/ \E m \in Mods : scheduled' = scheduled \cup {m}
      BY <1>2, OthersMove
    <2>2. WorkerInv' /\ Busy' = Busy
      BY <2>1, WorkersStay
    <2>. QED
      BY <1>1, <2>1, <2>2 DEF RefreshSet!Next
  <1>3. ASSUME NEW w \in Workers, Step(w)
        PROVE  WorkerInv' /\ (RefreshSet!Next \/ (scheduled' = scheduled /\ Busy' = Busy))
    <2>1. frame[w].mod \in Mods
      BY DEF TypeInv, TypeOK, Frame, Threads
    <2>. QED
      BY <1>1, <1>3, <2>1, WorkerRefines DEF RefreshSet!Next
  <1>4. ASSUME NEW w \in Workers, NEW m \in Mods, Take(w, m) PROVE WorkerInv' /\ RefreshSet!Next
    BY <1>1, <1>4, TakeRefines DEF RefreshSet!Next
  <1>5. ASSUME \/ \E c \in Callers : RefreshAll(c) \/ \E m \in Mods : Submit(c, m)
               \/ \E s \in Threads : Schedule(s)
               \/ \E m \in Mods : OtherModset(m)
               \/ Publish \/ UNCHANGED vars
        PROVE  WorkerInv' /\ scheduled' = scheduled /\ Busy' = Busy
    BY <1>5, OutsideMoves, WorkersStay
  <1>6. CASE Crash
    <2>1. scheduled' = {} /\ \A w \in Workers : frame'[w].pc = "idle"
      BY <1>6, RestFits DEF Crash, Threads
    <2>2. Working' = {}
      BY <2>1 DEF Working, At
    <2>. QED
      BY <1>1, <2>1, <2>2 DEF WorkerInv, Busy, RefreshSet!Next
  <1>7. ASSUME NEW t \in Threads, Start(t)
        PROVE  \/ t \in Workers /\ \E m \in Mods : Take(t, m)
               \/ Schedule(t)
    BY <1>7 DEF Start, Take
  <1>. QED
    BY <1>2, <1>3, <1>4, <1>5, <1>6, <1>7 DEF Next

(* Towards the metadata queue the operations on mods behave as RefreshSet  *)
(* says, and MetadataQueue implements that: what the two modules suppose   *)
(* of one another agrees (services.py, mod_refresh_queue.py).              *)
THEOREM UsesRefreshSet == Spec => QueueSpec
  <1>1. Init => WorkerInv /\ RefreshSet!Init
    <2>1. Init => Working = {} /\ scheduled = {}
      BY RestFits DEF Init, Working, At, Threads
    <2>. QED
      BY <2>1 DEF WorkerInv, RefreshSet!Init
  <1>2. TypeInv /\ WorkerInv /\ [Next]_vars => [RefreshSet!Next]_<<scheduled, Busy>>
    BY NextQueues
  <1>3. <<scheduled, Busy>> = <<scheduled, {frame[w].mod : w \in Working}>>
    BY DEF Busy
  <1>. QED
    BY <1>1, <1>2, <1>3, InitTyped, NextTyped, NextQueues, PTL DEF Spec, QueueSpec, RefreshSet!Spec, Busy
-----------------------------------------------------------------------------
(* How long an operation takes.                                            *)

(* The steps of one synchronisation with the fetches before it, ...        *)
InRound(pc, n) == CASE pc = "fetch" -> 2 * n + 3
                    [] pc = "upsert" -> 2 * n + 2
                    [] pc \in {"remove", "orphans"} -> 5
                    [] pc = "clear" -> 4
                    [] pc = "tracked" -> 3
                    [] pc = "plan" -> 2
                    [] pc = "commit" -> 1
Size == Cardinality(Mods)
PerRound == 2 * Size + 3
(* ... of all rounds for one mod, and what a session has left to do.       *)
PerMod == (MaxRounds + 1) * PerRound
StepsLeft(f) ==
    IF f.pc = "idle" THEN 0
    ELSE Cardinality(f.rest) * PerMod
           + (MaxRounds - f.round) * PerRound + InRound(f.pc, Cardinality(f.want))

(* The page that has been read is one that was wanted. *)
Read(f) == f.pc = "upsert" => f.item \in f.want
ReadInv == \A t \in Threads : Read(frame[t])

(* Sets of mods are finite, and there is a mod. *)
LEMMA Sizes ==
  ASSUME NEW S \in SUBSET Mods
  PROVE  /\ Cardinality(S) \in 0..Size /\ Size \in Nat \ {0}
         /\ S # {} => Cardinality(S) >= 1
         /\ \A m \in S : Cardinality(S \ {m}) = Cardinality(S) - 1
         /\ \A T \in SUBSET S : Cardinality(T) <= Cardinality(S)
  <1>1. IsFiniteSet(Mods) /\ IsFiniteSet(S)
    BY TrackingOK, FS_Subset
  <1>2. Cardinality(S) \in Nat /\ Size \in Nat
    BY <1>1, FS_CardinalityType DEF Size
  <1>3. Size # 0 /\ (S # {} => Cardinality(S) # 0)
    BY <1>1, TrackingOK, FS_EmptySet DEF Size
  <1>4. Cardinality(S) <= Size
    BY <1>1, FS_Subset DEF Size
  <1>5. \A m \in S : Cardinality(S \ {m}) = Cardinality(S) - 1
    BY <1>1, FS_RemoveElement
  <1>6. \A T \in SUBSET S : Cardinality(T) <= Cardinality(S)
    BY <1>1, FS_Subset
  <1>. QED
    BY <1>2, <1>3, <1>4, <1>5, <1>6

(* Products of naturals. *)
LEMMA Products ==
  ASSUME NEW n \in Nat, NEW a \in Nat, NEW b \in Nat, a <= b
  PROVE  a * n \in Nat /\ b * n \in Nat /\ a * n <= b * n /\ (a + 1) * n = a * n + n
  <1>1. /\ a * n \in Nat /\ b * n \in Nat /\ (b - a) * n \in Nat
        /\ b * n = a * n + (b - a) * n /\ (a + 1) * n = a * n + n
    BY SMT
  <1>. QED
    BY <1>1

(* What a session has to do in a round is at most PerRound. *)
LEMMA InRoundIs ==
  ASSUME NEW pc \in PCs \ {"idle"}, NEW n \in 0..Size
  PROVE  /\ InRound(pc, n) \in 1..PerRound /\ PerRound \in Nat
         /\ pc = "fetch" => InRound(pc, n) = 2 * n + 3
         /\ pc = "upsert" => InRound(pc, n) = 2 * n + 2
         /\ pc \in {"remove", "orphans"} => InRound(pc, n) = 5
         /\ pc = "clear" => InRound(pc, n) = 4
         /\ pc = "tracked" => InRound(pc, n) = 3
         /\ pc = "plan" => InRound(pc, n) = 2
         /\ pc = "commit" => InRound(pc, n) = 1
  <1>1. Size \in Nat \ {0}
    BY Sizes
  <1>2. /\ pc = "fetch" => InRound(pc, n) = 2 * n + 3
        /\ pc = "upsert" => InRound(pc, n) = 2 * n + 2
        /\ pc \in {"remove", "orphans"} => InRound(pc, n) = 5
        /\ pc = "clear" => InRound(pc, n) = 4
        /\ pc = "tracked" => InRound(pc, n) = 3
        /\ pc = "plan" => InRound(pc, n) = 2
        /\ pc = "commit" => InRound(pc, n) = 1
    BY DEF InRound
  <1>3. InRound(pc, n) \in 1..PerRound /\ PerRound \in Nat
    BY <1>1, <1>2 DEF PCs, PerRound
  <1>. QED
    BY <1>2, <1>3

(* What a session at work has left, part by part. *)
LEMMA LeftIs ==
  ASSUME NEW f \in Frame, f.pc # "idle"
  PROVE  /\ PerRound \in Nat /\ PerMod \in Nat
         /\ PerMod = MaxRounds * PerRound + PerRound
         /\ Cardinality(f.rest) \in 0..Size /\ Cardinality(f.want) \in 0..Size
         /\ f.round \in 0..MaxRounds
         /\ Cardinality(f.rest) * PerMod \in Nat
         /\ (MaxRounds - f.round) * PerRound \in Nat
         /\ MaxRounds * PerRound \in Nat
         /\ (MaxRounds - f.round) * PerRound <= MaxRounds * PerRound
         /\ InRound(f.pc, Cardinality(f.want)) \in 1..PerRound
         /\ StepsLeft(f) = Cardinality(f.rest) * PerMod + (MaxRounds - f.round) * PerRound
                             + InRound(f.pc, Cardinality(f.want))
  <1>1. /\ f.pc \in PCs \ {"idle"} /\ f.rest \in SUBSET Mods /\ f.want \in SUBSET Mods
        /\ f.round \in 0..MaxRounds /\ MaxRounds \in Nat
    BY TrackingOK DEF Frame
  <1>2. Cardinality(f.rest) \in 0..Size /\ Cardinality(f.want) \in 0..Size /\ Size \in Nat
    BY <1>1, Sizes
  <1>3. InRound(f.pc, Cardinality(f.want)) \in 1..PerRound /\ PerRound \in Nat
    BY <1>1, <1>2, InRoundIs
  <1>4. /\ MaxRounds - f.round \in Nat /\ MaxRounds - f.round <= MaxRounds
        /\ MaxRounds <= MaxRounds /\ Cardinality(f.rest) <= Cardinality(f.rest)
        /\ Cardinality(f.rest) \in Nat
    BY <1>1, <1>2
  <1>5. /\ (MaxRounds - f.round) * PerRound \in Nat /\ MaxRounds * PerRound \in Nat
        /\ (MaxRounds - f.round) * PerRound <= MaxRounds * PerRound
        /\ PerMod = MaxRounds * PerRound + PerRound
    BY <1>1, <1>3, <1>4, Products DEF PerMod
  <1>6. PerMod \in Nat
    BY <1>3, <1>5
  <1>7. Cardinality(f.rest) * PerMod \in Nat
    BY <1>4, <1>6, Products
  <1>. QED
    BY <1>1, <1>2, <1>3, <1>5, <1>6, <1>7 DEF StepsLeft

(* Less is left further on in the same round, ... *)
LEMMA SameRound ==
  ASSUME NEW f \in Frame, NEW g \in Frame, f.pc # "idle", g.pc # "idle",
         g.rest = f.rest, g.round = f.round,
         InRound(g.pc, Cardinality(g.want)) < InRound(f.pc, Cardinality(f.want))
  PROVE  StepsLeft(g) < StepsLeft(f)
  <1>1. /\ Cardinality(g.rest) * PerMod = Cardinality(f.rest) * PerMod
        /\ (MaxRounds - g.round) * PerRound = (MaxRounds - f.round) * PerRound
    OBVIOUS
  <1> DEFINE a == Cardinality(f.rest) * PerMod
             b == (MaxRounds - f.round) * PerRound
             x == InRound(f.pc, Cardinality(f.want))
             y == InRound(g.pc, Cardinality(g.want))
  <1>2. a \in Nat /\ b \in Nat /\ x \in Nat /\ StepsLeft(f) = a + b + x
    BY LeftIs
  <1>3. y \in Nat /\ StepsLeft(g) = a + b + y
    BY <1>1, LeftIs
  <1> HIDE DEF a, b
  <1>. QED
    BY <1>2, <1>3

(* ... in the next round of the same mod, ... *)
LEMMA NextRound ==
  ASSUME NEW f \in Frame, NEW g \in Frame, f.pc # "idle", g.pc # "idle",
         g.rest = f.rest, g.round = f.round + 1
  PROVE  StepsLeft(g) < StepsLeft(f)
  <1> DEFINE a == Cardinality(f.rest) * PerMod
             b == (MaxRounds - g.round) * PerRound
             x == InRound(f.pc, Cardinality(f.want))
             y == InRound(g.pc, Cardinality(g.want))
  <1>1. /\ a \in Nat /\ x \in 1..PerRound /\ PerRound \in Nat /\ f.round \in 0..MaxRounds
        /\ StepsLeft(f) = a + (MaxRounds - f.round) * PerRound + x
    BY LeftIs
  <1>2. /\ b \in Nat /\ y \in 1..PerRound /\ g.round \in 0..MaxRounds
        /\ StepsLeft(g) = a + b + y
    BY LeftIs
  <1>3. /\ MaxRounds - f.round = (MaxRounds - g.round) + 1
        /\ MaxRounds - g.round \in Nat /\ MaxRounds - g.round <= MaxRounds - g.round
    BY <1>1, <1>2, TrackingOK
  <1>4. (MaxRounds - f.round) * PerRound = b + PerRound
    BY <1>1, <1>3, Products
  <1> HIDE DEF a, b, x, y
  <1>. QED
    BY <1>1, <1>2, <1>4

(* What a refresh that begins has left to do. *)
LEMMA RefreshingLeft ==
  ASSUME NEW op \in {"create", "refresh", "all"}, NEW m \in Mods, NEW others \in SUBSET Mods
  PROVE  /\ Refreshing(op, m, others) \in Frame /\ Refreshing(op, m, others).pc = "fetch"
         /\ Refreshing(op, m, others).rest = others /\ Refreshing(op, m, others).round = 0
  <1> DEFINE b == Begin(op, m, "fetch")
             r == [b EXCEPT !.want = {m}, !.rest = others]
  <1>1. op \in Ops /\ "fetch" \in PCs
    BY DEF Ops, PCs
  <1>2. b \in Frame /\ b.pc = "fetch" /\ b.round = 0
    BY <1>1, BeginFits
  <1>3. r \in Frame /\ r.pc = "fetch" /\ r.rest = others /\ r.round = 0
    BY <1>2 DEF Frame
  <1>. QED
    BY <1>3 DEF Refreshing

(* ... and for the mods a full refresh has not come to, or at rest. *)
LEMMA NextModLess ==
  ASSUME NEW f \in Frame, f.pc # "idle", NEW others \in SUBSET f.rest, NEW g \in NextMod(others)
  PROVE  StepsLeft(g) < StepsLeft(f) /\ Read(g)
  <1> DEFINE a == Cardinality(f.rest) * PerMod
             b == (MaxRounds - f.round) * PerRound
             x == InRound(f.pc, Cardinality(f.want))
  <1>1. /\ a \in Nat /\ b \in Nat /\ x \in 1..PerRound /\ StepsLeft(f) = a + b + x
        /\ PerRound \in Nat /\ PerMod \in Nat
        /\ PerMod = MaxRounds * PerRound + PerRound /\ MaxRounds * PerRound \in Nat
    BY LeftIs
  <1>2. f.rest \in SUBSET Mods /\ others \in SUBSET Mods
    BY DEF Frame
  <1>3. CASE others = {}
    <2>1. g.pc = "idle"
      BY <1>3, RestFits DEF NextMod
    <2> HIDE DEF a, b, x
    <2>. QED
      BY <1>1, <2>1 DEF StepsLeft, Read
  <1>4. CASE others # {}
    <2>1. PICK m \in others : g = Refreshing("all", m, others \ {m})
      BY <1>4 DEF NextMod
    <2>2. /\ g \in Frame /\ g.pc = "fetch" /\ g.rest = others \ {m} /\ g.round = 0
      BY <1>2, <2>1, RefreshingLeft
    <2> DEFINE c == Cardinality(g.rest) * PerMod
               y == InRound(g.pc, Cardinality(g.want))
    <2>3. /\ c \in Nat /\ y \in 1..PerRound
          /\ StepsLeft(g) = c + (MaxRounds - 0) * PerRound + y
      BY <2>2, LeftIs
    <2>4. /\ Cardinality(g.rest) + 1 <= Cardinality(f.rest)
          /\ Cardinality(g.rest) \in Nat /\ Cardinality(f.rest) \in Nat
      <3>1. /\ Cardinality(others) \in 0..Size /\ Size \in Nat
            /\ Cardinality(others \ {m}) = Cardinality(others) - 1
            /\ Cardinality(others) >= 1
        BY <1>2, <1>4, Sizes
      <3>2. Cardinality(others) <= Cardinality(f.rest) /\ Cardinality(f.rest) \in 0..Size
        BY <1>2, Sizes
      <3>. QED
        BY <2>2, <3>1, <3>2
    <2>5. c + PerMod <= a
      <3>1. (Cardinality(g.rest) + 1) * PerMod <= a
        BY <1>1, <2>4, Products
      <3>2. (Cardinality(g.rest) + 1) * PerMod = c + PerMod
        BY <1>1, <2>4, Products
      <3> HIDE DEF a, c
      <3>. QED
        BY <3>1, <3>2
    <2>6. MaxRounds - 0 = MaxRounds
      BY TrackingOK
    <2>7. Read(g)
      BY <2>2 DEF Read
    <2> HIDE DEF a, b, c, x, y
    <2>. QED
      BY <1>1, <2>3, <2>5, <2>6, <2>7
  <1>. QED
    BY <1>3, <1>4

(* When an operation ends or raises, its session has less left to do. *)
LEMMA EndsLess ==
  ASSUME TypeOK, NEW t \in Threads, ~At(t, "idle"),
         Ends(t) \/ Raises(t, TRUE) \/ Raises(t, FALSE)
  PROVE  StepsLeft(frame'[t]) < StepsLeft(frame[t]) /\ Read(frame'[t])
  <1> DEFINE f == frame[t]
  <1>1. f \in Frame /\ f.pc # "idle" /\ frame \in [Threads -> Frame]
    BY DEF TypeOK, At
  <1>2. \E others \in SUBSET f.rest : \E g \in NextMod(others) : Set(t, g)
    <2>1. CASE Ends(t)
      BY <2>1 DEF Ends
    <2>2. CASE Raises(t, TRUE) \/ Raises(t, FALSE)
      BY <2>2 DEF Raises
    <2>. QED
      BY <2>1, <2>2
  <1>3. PICK others \in SUBSET f.rest : \E g \in NextMod(others) : Set(t, g)
    BY <1>2
  <1>5. PICK g \in NextMod(others) : Set(t, g)
    BY <1>3
  <1>4. frame'[t] = g
    BY <1>1, <1>5 DEF Set
  <1>. QED
    BY <1>1, <1>4, NextModLess

(* Fetching and storing what is wanted takes two steps for each mod. *)
LEMMA FetchedLess ==
  ASSUME TypeInv, NEW t \in Threads, frame[t].pc \in {"fetch", "upsert"},
         NEW m \in frame[t].want, Fetched(t, m)
  PROVE  StepsLeft(frame'[t]) < StepsLeft(frame[t]) /\ Read(frame'[t])
  <1> DEFINE f == frame[t]
             left == f.want \ {m}
  <1>1. f \in Frame /\ frame \in [Threads -> Frame] /\ f.pc # "idle" /\ TypeOK
    BY DEF TypeInv, TypeOK
  <1>2. CASE LastRound(t, left)
    BY <1>1, <1>2, EndsLess DEF Fetched, At
  <1>3. CASE ~LastRound(t, left)
    <2> DEFINE p == IF left = {} THEN AfterFetch(t) ELSE "fetch"
               g == [f EXCEPT !.want = left, !.page = {}, !.item = f.mod, !.pc = p]
    <2>1. frame'[t] = g
      BY <1>1, <1>3 DEF Fetched, Set
    <2>2. p \in {"fetch", "plan", "tracked"} /\ (p # "fetch" => left = {})
      BY DEF AfterFetch
    <2>3. g \in Frame /\ g.pc = p /\ g.rest = f.rest /\ g.round = f.round /\ g.want = left
      BY <1>1, <2>2 DEF Frame, PCs
    <2>4. /\ Cardinality(f.want) \in 1..Size /\ Cardinality(left) = Cardinality(f.want) - 1
          /\ Cardinality(left) \in 0..Size
      BY <1>1, Sizes DEF Frame
    <2>5. InRound(f.pc, Cardinality(f.want)) >= 2 * Cardinality(f.want) + 2
      BY <1>1, <2>4, InRoundIs DEF PCs
    <2>6. InRound(p, Cardinality(left)) <= 2 * Cardinality(left) + 3
      BY <2>2, <2>4, InRoundIs DEF PCs
    <2>7. InRound(p, Cardinality(left)) \in Nat /\ InRound(f.pc, Cardinality(f.want)) \in Nat
      BY <1>1, <2>2, <2>4, InRoundIs DEF PCs
    <2> HIDE DEF p, g, left
    <2>8. InRound(g.pc, Cardinality(g.want)) < InRound(f.pc, Cardinality(f.want))
      BY <2>3, <2>4, <2>5, <2>6, <2>7
    <2>9. StepsLeft(g) < StepsLeft(f)
      BY <1>1, <2>2, <2>3, <2>8, SameRound
    <2>. QED
      BY <2>1, <2>2, <2>3, <2>9 DEF Read
  <1>. QED
    BY <1>2, <1>3

(* Within a round a session goes forward. *)
LEMMA Forward ==
  ASSUME TypeInv, NEW t \in Threads, NEW p \in PCs, NEW g \in Frame, frame'[t] = g,
         g.pc = p, g.rest = frame[t].rest, g.round = frame[t].round,
         \/ frame[t].pc \in {"remove", "orphans"} /\ p = "clear"
         \/ frame[t].pc = "clear" /\ p \in {"plan", "tracked"}
         \/ frame[t].pc = "tracked" /\ p = "plan"
         \/ frame[t].pc = "plan" /\ p = "commit"
  PROVE  StepsLeft(frame'[t]) < StepsLeft(frame[t]) /\ Read(frame'[t])
  <1> DEFINE f == frame[t]
             n == Cardinality(f.want)
             o == Cardinality(g.want)
  <1>1. f \in Frame /\ f.pc # "idle" /\ p # "idle"
    BY DEF TypeInv, TypeOK
  <1>2. n \in 0..Size /\ o \in 0..Size
    BY <1>1, LeftIs
  <1> HIDE DEF n, o
  <1>3. InRound(p, o) < InRound(f.pc, n)
    <2>1. f.pc \in PCs
      BY <1>1 DEF Frame
    <2>2. /\ p = "clear" => InRound(p, o) = 4
          /\ p = "tracked" => InRound(p, o) = 3
          /\ p = "plan" => InRound(p, o) = 2
          /\ p = "commit" => InRound(p, o) = 1
      BY <1>1, <1>2, InRoundIs
    <2>3. /\ f.pc \in {"remove", "orphans"} => InRound(f.pc, n) = 5
          /\ f.pc = "clear" => InRound(f.pc, n) = 4
          /\ f.pc = "tracked" => InRound(f.pc, n) = 3
          /\ f.pc = "plan" => InRound(f.pc, n) = 2
      BY <1>1, <1>2, <2>1, InRoundIs
    <2>. QED
      BY <2>2, <2>3
  <1>4. StepsLeft(g) < StepsLeft(f)
    BY <1>1, <1>3, SameRound DEF n, o
  <1>. QED
    BY <1>4 DEF Read

(* Every step of a session takes something off what it has left. *)
LEMMA StepLess ==
  ASSUME TypeInv, ReadInv, NEW t \in Threads, Step(t)
  PROVE  StepsLeft(frame'[t]) < StepsLeft(frame[t]) /\ Read(frame'[t])
  <1> DEFINE f == frame[t]
             Goal == StepsLeft(frame'[t]) < StepsLeft(frame[t]) /\ Read(frame'[t])
  <1>1. f \in Frame /\ frame \in [Threads -> Frame] /\ TypeOK
    BY DEF TypeInv, TypeOK
  <1>2. ASSUME NEW g, Set(t, g) PROVE frame'[t] = g
    BY <1>1, <1>2 DEF Set
  <1>3. CASE Remove(t)
    <2> DEFINE g == [f EXCEPT !.pc = "clear"]
    <2>1. frame'[t] = g /\ f.pc = "remove"
      BY <1>3 DEF Remove, At
    <2>2. g \in Frame /\ g.pc = "clear" /\ g.rest = f.rest /\ g.round = f.round
      BY <1>1 DEF Frame, PCs
    <2>. QED
      BY <2>1, <2>2, Forward DEF PCs
  <1>4. CASE FindOrphans(t)
    <2> DEFINE o == IF f.mod \in tracked THEN Orphans(f.mod) ELSE {}
               g == [f EXCEPT !.pc = "clear", !.orphans = o]
    <2>1. frame'[t] = g /\ f.pc = "orphans"
      BY <1>2, <1>4 DEF FindOrphans, At
    <2>2. o \subseteq Mods
      BY <1>1 DEF Orphans, TypeOK
    <2> HIDE DEF o
    <2>3. g \in Frame /\ g.pc = "clear" /\ g.rest = f.rest /\ g.round = f.round
      BY <1>1, <2>2 DEF Frame, PCs
    <2>. QED
      BY <2>1, <2>3, Forward DEF PCs
  <1>5. CASE ClearOrphans(t)
    <2> DEFINE p == IF f.op = "delete" THEN "plan" ELSE "tracked"
               g == [f EXCEPT !.orphans = {}, !.pc = p]
    <2>1. frame'[t] = g /\ f.pc = "clear"
      BY <1>2, <1>5 DEF ClearOrphans, At
    <2>2. p \in {"plan", "tracked"}
      OBVIOUS
    <2>3. g \in Frame /\ g.pc = p /\ g.rest = f.rest /\ g.round = f.round
      BY <1>1, <2>2 DEF Frame, PCs
    <2> HIDE DEF p, g
    <2>. QED
      BY <2>1, <2>2, <2>3, Forward DEF PCs
  <1>6. ASSUME NEW m \in Mods, Fetch(t, m) PROVE Goal
    <2> DEFINE g == [f EXCEPT !.pc = "upsert", !.item = m, !.page = published[m]]
               n == Cardinality(f.want)
    <2>1. frame'[t] = g /\ f.pc = "fetch" /\ m \in f.want
      BY <1>2, <1>6 DEF Fetch, At
    <2>2. published[m] \subseteq Mods
      BY <1>1, TrackingOK DEF TypeOK
    <2>3. /\ g \in Frame /\ g.pc = "upsert" /\ g.rest = f.rest /\ g.round = f.round
          /\ g.want = f.want /\ g.item = m
      BY <1>1, <2>2 DEF Frame, PCs
    <2>4. n \in 0..Size
      BY <1>1, <2>1, LeftIs
    <2> HIDE DEF g
    <2>5. InRound(g.pc, Cardinality(g.want)) < InRound(f.pc, Cardinality(f.want))
      <3>1. InRound("upsert", n) = 2 * n + 2 /\ InRound("fetch", n) = 2 * n + 3
        BY <2>4, InRoundIs DEF PCs
      <3>2. g.pc = "upsert" /\ f.pc = "fetch" /\ Cardinality(g.want) = n
        BY <2>1, <2>3
      <3>. QED
        BY <2>4, <3>1, <3>2
    <2>6. StepsLeft(g) < StepsLeft(f)
      BY <1>1, <2>1, <2>3, <2>5, SameRound
    <2>. QED
      BY <2>1, <2>3, <2>6 DEF Read
  <1>7. ASSUME NEW m \in Mods, FetchFails(t, m) PROVE Goal
    BY <1>1, <1>7, EndsLess, FetchedLess DEF FetchFails, At
  <1>8. CASE Upsert(t)
    <2>1. f.pc = "upsert" /\ Fetched(t, f.item) /\ f.item \in f.want
      BY <1>8 DEF Upsert, At, ReadInv, Read
    <2>. QED
      BY <2>1, FetchedLess
  <1>9. CASE Tracked(t)
    <2>1. CASE f.mod \in tracked
      <3> DEFINE g == [f EXCEPT !.pc = "plan"]
      <3>1. frame'[t] = g /\ f.pc = "tracked"
        BY <1>2, <1>9, <2>1 DEF Tracked, At
      <3>2. g \in Frame /\ g.pc = "plan" /\ g.rest = f.rest /\ g.round = f.round
        BY <1>1 DEF Frame, PCs
      <3>. QED
        BY <3>1, <3>2, Forward DEF PCs
    <2>2. CASE f.mod \notin tracked
      BY <1>1, <1>9, <2>2, EndsLess DEF Tracked, At
    <2>. QED
      BY <2>1, <2>2
  <1>10. CASE Plan(t)
    <2> DEFINE news == Required \ known
               adds == Required \ tracked
               marks == (Required \cap tracked) \ origin
               want == Required \ versioned
               g == [f EXCEPT !.pc = "commit", !.news = news, !.adds = adds,
                              !.marks = marks, !.want = want]
    <2>1. frame'[t] = g /\ f.pc = "plan"
      BY <1>2, <1>10 DEF Plan, At
    <2>2. news \subseteq Mods /\ adds \subseteq Mods /\ marks \subseteq Mods /\ want \subseteq Mods
      BY DEF Required
    <2> HIDE DEF news, adds, marks, want
    <2>3. g \in Frame /\ g.pc = "commit" /\ g.rest = f.rest /\ g.round = f.round
      BY <1>1, <2>2 DEF Frame, PCs
    <2>. QED
      BY <2>1, <2>3, Forward DEF PCs
  <1>11. CASE Commit(t)
    <2>1. CASE Conflict(f) \/ Fresh(f) = {}
      BY <1>1, <1>11, <2>1, EndsLess DEF Commit, At
    <2>2. CASE ~Conflict(f) /\ Fresh(f) # {}
      <3> DEFINE fresh == Fresh(f)
                 g == [f EXCEPT !.pc = "fetch", !.news = {}, !.adds = {}, !.marks = {},
                                !.want = fresh, !.done = f.done \cup fresh,
                                !.round = f.round + 1]
      <3>1. frame'[t] = g /\ f.pc = "commit"
        BY <1>2, <1>11, <2>2 DEF Commit, At
      <3>2. fresh \subseteq Mods
        BY <1>1 DEF Fresh, Frame
      <3>3. f.round + 1 \in 0..MaxRounds
        BY <1>1, <3>1, TrackingOK DEF TypeInv, PlansFit, PlanOf, Frame
      <3> HIDE DEF fresh
      <3>4. g \in Frame /\ g.pc = "fetch" /\ g.rest = f.rest /\ g.round = f.round + 1
        BY <1>1, <3>2, <3>3 DEF Frame, PCs
      <3>5. StepsLeft(g) < StepsLeft(f)
        BY <1>1, <3>1, <3>4, NextRound
      <3>. QED
        BY <3>1, <3>4, <3>5 DEF Read
    <2>. QED
      BY <2>1, <2>2
  <1>12. CASE OthersRaise(t)
    BY <1>1, <1>12, EndsLess DEF OthersRaise, At
  <1>. QED
    BY <1>3, <1>4, <1>5, <1>6, <1>7, <1>8, <1>9, <1>10, <1>11, <1>12 DEF Step, Synchronise

(* A step of one session moves another only when both delete the same row, *)
(* and then it is a step of the other as well.                             *)
LEMMA StepOfBoth ==
  ASSUME TypeOK, NEW t \in Threads, Step(t), NEW u \in Threads \ {t}
  PROVE  frame'[u] = frame[u] \/ Remove(u)
  <1> DEFINE Goal == frame'[u] = frame[u] \/ Remove(u)
  <1>1. ASSUME NEW f, Set(t, f) PROVE Goal
    BY <1>1 DEF Set, TypeOK
  <1>2. ASSUME Ends(t) \/ Raises(t, TRUE) \/ Raises(t, FALSE) PROVE Goal
    BY <1>1, <1>2 DEF Ends, Raises
  <1>3. ASSUME Remove(t) PROVE Goal
    <2>1. CASE At(u, "remove") /\ frame[u].mod = frame[t].mod
      BY <1>3, <2>1 DEF Remove
    <2>2. CASE ~(At(u, "remove") /\ frame[u].mod = frame[t].mod)
      BY <1>3, <2>2 DEF Remove
    <2>. QED
      BY <2>1, <2>2
  <1> HIDE DEF Goal
  <1>4. ASSUME FindOrphans(t) \/ ClearOrphans(t) PROVE Goal
    BY <1>1, <1>4 DEF FindOrphans, ClearOrphans
  <1>5. ASSUME NEW m, Fetched(t, m) PROVE Goal
    BY <1>1, <1>2, <1>5 DEF Fetched
  <1>6. ASSUME NEW m \in Mods, Fetch(t, m) \/ FetchFails(t, m) PROVE Goal
    BY <1>1, <1>2, <1>5, <1>6 DEF Fetch, FetchFails
  <1>7. ASSUME Upsert(t) PROVE Goal
    BY <1>5, <1>7 DEF Upsert
  <1>8. ASSUME Synchronise(t) PROVE Goal
    BY <1>1, <1>2, <1>8 DEF Synchronise, Tracked, Plan, Commit
  <1>9. ASSUME OthersRaise(t) PROVE Goal
    BY <1>2, <1>9 DEF OthersRaise
  <1>10. Goal
    BY <1>3, <1>4, <1>6, <1>7, <1>8, <1>9 DEF Step
  <1>. QED
    BY <1>10 DEF Goal

(* Operations begin in sessions at rest, and with nothing read. *)
LEMMA Begins ==
  ASSUME TypeInv, NEW t \in Threads,
         Start(t) \/ (t \in Callers /\ (RefreshAll(t) \/ \E m \in Mods : Submit(t, m)))
  PROVE  At(t, "idle") /\ \E f : Set(t, f) /\ Read(f)
  <1>1. tracked \in SUBSET Mods
    BY DEF TypeInv, TypeOK
  <1>2. ASSUME NEW f \in NextMod(tracked) PROVE Read(f)
    <2>1. CASE tracked = {}
      BY <1>2, <2>1, RestFits DEF NextMod, Read
    <2>2. CASE tracked # {}
      <3>1. PICK m \in tracked : f = Refreshing("all", m, tracked \ {m})
        BY <1>2, <2>2 DEF NextMod
      <3>. QED
        BY <1>1, <3>1, RefreshingLeft DEF Read
    <2>. QED
      BY <2>1, <2>2
  <1>3. ASSUME NEW op \in {"create", "refresh"}, NEW m \in Mods
        PROVE  Read(Refreshing(op, m, {}))
    BY RefreshingLeft DEF Read
  <1>4. ASSUME NEW op \in Ops, NEW m \in Mods, NEW p \in PCs \ {"upsert"}
        PROVE  Read(Begin(op, m, p))
    BY BeginFits DEF Read
  <1>5. CASE Start(t)
    BY <1>2, <1>3, <1>5 DEF Start, Take, Schedule
  <1>6. CASE t \in Callers /\ RefreshAll(t)
    BY <1>2, <1>6 DEF RefreshAll, Request
  <1>7. ASSUME NEW m \in Mods, Submit(t, m) PROVE At(t, "idle") /\ \E f : Set(t, f) /\ Read(f)
    <2>1. CASE (\E v \in BOOLEAN : Create(t, m, v)) \/ Refresh(t, m)
      BY <1>3, <2>1 DEF Create, Refresh, Request
    <2>2. CASE \E v, o \in BOOLEAN : Update(t, m, v, o)
      <3>1. PICK p \in {"orphans", "tracked"} : Set(t, Begin("update", m, p))
        BY <2>2 DEF Update
      <3>2. At(t, "idle")
        BY <2>2 DEF Update, Request
      <3>. QED
        BY <1>4, <3>1, <3>2 DEF Ops, PCs
    <2>3. CASE Edit(t, m)
      BY <1>4, <2>3 DEF Edit, Request, Ops, PCs
    <2>4. ASSUME NEW v \in BOOLEAN, Delete(t, m, v)
          PROVE  At(t, "idle") /\ \E f : Set(t, f) /\ Read(f)
      <3> DEFINE b == Begin("delete", m, "remove")
                 o == IF v THEN Orphans(m) ELSE {}
                 f == [b EXCEPT !.orphans = o]
      <3>1. b \in Frame /\ b.pc = "remove"
        BY BeginFits DEF Ops, PCs
      <3>2. f.pc = "remove"
        BY <3>1 DEF Frame
      <3>3. Set(t, f) /\ At(t, "idle")
        BY <2>4 DEF Delete, Request
      <3> HIDE DEF f
      <3>. QED
        BY <3>2, <3>3 DEF Read
    <2>. QED
      BY <1>7, <2>1, <2>2, <2>3, <2>4 DEF Submit
  <1>. QED
    BY <1>5, <1>6, <1>7

(* What a session has left is a number, at rest zero. *)
LEMMA LeftTyped ==
  ASSUME NEW f \in Frame
  PROVE  /\ StepsLeft(f) \in 0..((Size + 1) * PerMod)
         /\ f.pc = "idle" => StepsLeft(f) = 0
  <1>0. Size \in Nat
    BY Sizes
  <1>1. Size \in Nat /\ PerRound \in Nat /\ MaxRounds \in Nat
    BY <1>0, TrackingOK DEF PerRound
  <1>2. MaxRounds * PerRound \in Nat /\ PerMod = MaxRounds * PerRound + PerRound
    BY <1>1, Products DEF PerMod
  <1>3. PerMod \in Nat
    BY <1>1, <1>2
  <1>4. Size * PerMod \in Nat /\ (Size + 1) * PerMod = Size * PerMod + PerMod
    BY <1>1, <1>3, Products
  <1>5. CASE f.pc = "idle"
    <2>1. (Size + 1) * PerMod \in Nat
      BY <1>3, <1>4
    <2>. QED
      BY <1>5, <2>1 DEF StepsLeft
  <1>6. CASE f.pc # "idle"
    <2> DEFINE a == Cardinality(f.rest) * PerMod
               b == (MaxRounds - f.round) * PerRound
               x == InRound(f.pc, Cardinality(f.want))
    <2>1. /\ a \in Nat /\ b \in Nat /\ x \in 1..PerRound /\ StepsLeft(f) = a + b + x
          /\ b <= MaxRounds * PerRound /\ Cardinality(f.rest) \in 0..Size
      BY <1>6, LeftIs
    <2>2. a <= Size * PerMod
      BY <1>1, <1>3, <2>1, Products
    <2> HIDE DEF a, b, x
    <2>. QED
      BY <1>1, <1>2, <1>3, <1>4, <1>6, <2>1, <2>2
  <1>. QED
    BY <1>5, <1>6

(* No step, of whoever, gives a session that is at work more to do. *)
LEMMA NextLess ==
  ASSUME TypeInv, ReadInv, [Next]_vars, NEW u \in Threads
  PROVE  /\ Read(frame'[u])
         /\ ~At(u, "idle") => StepsLeft(frame'[u]) <= StepsLeft(frame[u])
  <1>1. /\ frame \in [Threads -> Frame] /\ frame[u] \in Frame /\ TypeOK /\ Read(frame[u])
        /\ Callers \subseteq Threads
    BY DEF TypeInv, TypeOK, ReadInv, Threads
  <1>2. (Size + 1) * PerMod \in Nat /\ StepsLeft(frame[u]) \in 0..((Size + 1) * PerMod)
    <2>1. Size + 1 \in Nat /\ PerMod \in Nat
      <3>0. Size \in Nat
        BY Sizes
      <3>1. Size \in Nat /\ PerRound \in Nat /\ MaxRounds + 1 \in Nat
        BY <3>0, TrackingOK DEF PerRound
      <3>. QED
        BY <3>1, Products DEF PerMod
    <2>. QED
      BY <1>1, <2>1, LeftTyped, Products
  <1>3. ASSUME frame'[u] = frame[u]
        PROVE  Read(frame'[u]) /\ StepsLeft(frame'[u]) <= StepsLeft(frame[u])
    BY <1>1, <1>2, <1>3
  <1>4. ASSUME Step(u) PROVE Read(frame'[u]) /\ StepsLeft(frame'[u]) <= StepsLeft(frame[u])
    <2>1. StepsLeft(frame'[u]) < StepsLeft(frame[u]) /\ Read(frame'[u])
      BY <1>4, StepLess
    <2>2. frame'[u] \in Frame
      BY NextTyped DEF TypeInv, TypeOK
    <2>3. StepsLeft(frame'[u]) \in 0..((Size + 1) * PerMod)
      BY <2>2, LeftTyped
    <2>. QED
      BY <1>2, <2>1, <2>3
  <1>5. ASSUME NEW t \in Threads, Step(t)
        PROVE  Read(frame'[u]) /\ StepsLeft(frame'[u]) <= StepsLeft(frame[u])
    <2>1. CASE t = u
      BY <1>4, <1>5, <2>1
    <2>2. CASE t # u
      <3>1. frame'[u] = frame[u] \/ Remove(u)
        BY <1>1, <1>5, <2>2, StepOfBoth
      <3>. QED
        BY <1>3, <1>4, <3>1 DEF Step
    <2>. QED
      BY <2>1, <2>2
  <1>6. ASSUME NEW t \in Threads,
               Start(t) \/ (t \in Callers /\ (RefreshAll(t) \/ \E m \in Mods : Submit(t, m)))
        PROVE  /\ Read(frame'[u])
               /\ ~At(u, "idle") => StepsLeft(frame'[u]) <= StepsLeft(frame[u])
    <2>1. At(t, "idle") /\ \E f : Set(t, f) /\ Read(f)
      BY <1>6, Begins
    <2>2. CASE t = u
      BY <1>1, <2>1, <2>2 DEF Set
    <2>3. CASE t # u
      BY <1>1, <1>3, <2>1, <2>3 DEF Set
    <2>. QED
      BY <2>2, <2>3
  <1>7. CASE Crash
    <2>1. frame'[u] = Rest
      BY <1>7 DEF Crash
    <2>2. Read(Rest) /\ StepsLeft(Rest) = 0
      BY RestFits, LeftTyped DEF Read
    <2>. QED
      BY <1>2, <2>1, <2>2
  <1>8. CASE Publish \/ (\E m \in Mods : OtherModset(m)) \/ UNCHANGED vars
    <2>1. frame' = frame
      BY <1>8 DEF Publish, OtherModset, vars
    <2>. QED
      BY <1>3, <2>1
  <1>. QED
    BY <1>1, <1>5, <1>6, <1>7, <1>8 DEF Next

(* Each step of an operation takes something off what it has left to do,   *)
(* and nothing gives it more: no other session, release or failure.        *)
OperationsRunOut ==
    [][\A t \in Threads : ~At(t, "idle") =>
          /\ StepsLeft(frame'[t]) <= StepsLeft(frame[t])
          /\ Step(t) => StepsLeft(frame'[t]) < StepsLeft(frame[t])]_vars

(* An operation ends after (Size + 1) * PerMod steps of its own at most,   *)
(* whatever the sessions, the Workshop and the dependency graphs do        *)
(* meanwhile: the rounds are bounded, a full refresh takes up every mod    *)
(* once (services.py:216-237, mod_dependencies.py:19-37).                  *)
THEOREM OperationsBounded ==
  Spec => /\ [](\A t \in Threads : StepsLeft(frame[t]) \in 0..((Size + 1) * PerMod))
          /\ OperationsRunOut
  <1>1. Init => TypeInv /\ ReadInv
    BY InitTyped, RestFits DEF Init, ReadInv, Read
  <1>2. TypeInv /\ ReadInv /\ [Next]_vars => TypeInv' /\ ReadInv'
    BY NextTyped, NextLess DEF ReadInv
  <1>3. TypeInv => \A t \in Threads : StepsLeft(frame[t]) \in 0..((Size + 1) * PerMod)
    BY LeftTyped DEF TypeInv, TypeOK
  <1>4. TypeInv /\ ReadInv /\ [Next]_vars =>
          \A t \in Threads : ~At(t, "idle") =>
             /\ StepsLeft(frame'[t]) <= StepsLeft(frame[t])
             /\ Step(t) => StepsLeft(frame'[t]) < StepsLeft(frame[t])
    BY NextLess, StepLess
  <1>. QED
    BY <1>1, <1>2, <1>3, <1>4, PTL DEF Spec, OperationsRunOut
=============================================================================
