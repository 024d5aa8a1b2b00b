---------------------------- MODULE ModTracking ----------------------------
(***************************************************************************)
(* The mods one modset tracks and the dependencies it adds by itself:      *)
(* services.py and mod_dependencies.py.                                    *)
(*                                                                         *)
(* Every operation is a sequence of short transactions with Workshop       *)
(* requests in between, and operations of several sessions interleave: API *)
(* requests, the workers of the metadata queue, and the scheduled refresh. *)
(* The model follows one modset.  The others share the mods table with it  *)
(* (OtherModset) and the scheduled refresh, which goes through all modsets *)
(* of a mod in one try, so that an exception in one of them keeps the      *)
(* later ones from being refreshed (OthersRaise).  A dependency is the mod *)
(* it resolves to, and only direct dependencies are stored.  A conflict    *)
(* between two transactions surfaces at the commit.                        *)
(***************************************************************************)
EXTENDS Naturals, FiniteSets

CONSTANTS Mods,
          Callers,     \* sessions that serve API requests
          Workers,     \* metadata queue workers
          Schedulers,  \* sessions of the scheduled refresh
          Graphs,      \* dependency graphs the Workshop may show
          Versionless, \* mods whose Workshop page shows no version
          MaxRounds,   \* dependency rounds of one refresh (20 in the code)
          MaxRequests, \* bound: API requests
          MaxReleases, \* bound: changes on the Workshop
          MaxFailures  \* bound: failed fetches, lost processes, other modsets

Threads == Callers \cup Workers \cup Schedulers

ASSUME TrackingOK ==
    /\ IsFiniteSet(Mods) /\ Mods # {}
    /\ Callers \cap (Workers \cup Schedulers) = {}
    /\ Workers \cap Schedulers = {}
    /\ Graphs # {} /\ Graphs \subseteq [Mods -> SUBSET Mods]
    /\ Versionless \subseteq Mods
    /\ MaxRounds \in Nat \ {0}
    /\ {MaxRequests, MaxReleases, MaxFailures} \subseteq Nat

VARIABLES
    \* the database
    known,     \* mods with a row in the mods table
    deps,      \* deps[m]: the dependencies stored for m
    versioned, \* mods whose latest version is known
    tracked,   \* mods the modset has a UserMod row for
    installed, \* ... with an installed version
    origin,    \* ... marked as tracked because of a dependency
    \* the backend
    scheduled, \* mods in the metadata queue, or being refreshed by a worker
    frame,     \* frame[t]: what session t is doing
    \* the Workshop, and the other modsets
    published, \* published[m]: the dependencies its page shows
    spoiled,   \* mods with an installed version in another modset that
               \* cannot be compared
    \* bookkeeping
    cut,       \* an operation was cut short, or another modset changed mods
    requests, releases, failures

tables == <<known, deps, versioned, tracked, installed, origin>>
catalog == <<known, deps, versioned>>
rows == <<tracked, installed, origin>>
outside == <<published, spoiled, requests, releases, failures>>
vars == <<tables, scheduled, frame, cut, outside>>

Ops == {"create", "update", "edit", "delete", "refresh", "all"}
(* "remove", "orphans" and "clear" are the tail of a deletion or of an     *)
(* update that uninstalls; "fetch" and "upsert" the two halves of          *)
(* fetch_and_upsert_mods; "tracked" looks the mod up again; "plan" and     *)
(* "commit" are the two halves of a synchronisation.                       *)
PCs == {"idle", "remove", "orphans", "clear", "fetch", "upsert", "tracked",
        "plan", "commit"}
Frame == [pc : PCs, op : Ops,
          mod : Mods,            \* the mod the operation is about
          orphans : SUBSET Mods, \* dependencies to uninstall
          news : SUBSET Mods,    \* planned rows of the mods table
          adds : SUBSET Mods,    \* planned rows of the modset
          marks : SUBSET Mods,   \* planned origin marks
          want : SUBSET Mods,    \* mods to fetch
          item : Mods,           \* the mod whose page has been fetched
          page : SUBSET Mods,    \* the dependencies on that page
          done : SUBSET Mods,    \* dependencies this refresh has fetched
          round : 0..MaxRounds,  \* synchronisations this refresh has planned
          rest : SUBSET Mods]    \* mods refresh_all_mods has not come to
Rest == [pc |-> "idle", op |-> "refresh", mod |-> CHOOSE m \in Mods : TRUE,
         orphans |-> {}, news |-> {}, adds |-> {}, marks |-> {}, want |-> {},
         item |-> CHOOSE m \in Mods : TRUE, page |-> {},
         done |-> {}, round |-> 0, rest |-> {}]
Begin(op, m, pc) == [Rest EXCEPT !.op = op, !.mod = m, !.pc = pc]
Refreshing(op, m, others) ==
    [Begin(op, m, "fetch") EXCEPT !.want = {m}, !.rest = others]

At(t, p) == frame[t].pc = p
Set(t, f) == frame' = [frame EXCEPT ![t] = f]
Looping == {"edit", "refresh", "all"}

(* The transitive dependencies of the installed mods, as far as stored.    *)
Closed(s) == \A x \in installed \cup s : deps[x] \ {x} \subseteq s
Required == {m \in Mods : \A s \in SUBSET Mods : Closed(s) => m \in s}

(* is_delete_blocked looks at direct dependencies only. *)
Blocked(m) == \E x \in installed \ {m} : m \in deps[x]

(* Dependencies of m, tracked as such, that nothing else installed lists.  *)
Orphans(m) == {c \in (deps[m] \ {m}) \cap origin :
                  \A x \in installed \ {m} : c \notin deps[x]}

TypeOK ==
    /\ known \subseteq Mods /\ versioned \subseteq known
    /\ deps \in [Mods -> SUBSET Mods]
    /\ tracked \subseteq known
    /\ installed \subseteq tracked /\ origin \subseteq tracked
    /\ scheduled \subseteq Mods
    /\ frame \in [Threads -> Frame]
    /\ published \in Graphs /\ spoiled \subseteq Mods
    /\ cut \in BOOLEAN
    /\ requests \in 0..MaxRequests /\ releases \in 0..MaxReleases
    /\ failures \in 0..MaxFailures

(* Nothing runs, and earlier operations left the rows consistent. *)
Init ==
    /\ published \in Graphs /\ spoiled \in SUBSET Mods
    /\ known \in SUBSET Mods
    /\ versioned = known \ Versionless
    /\ deps = [m \in Mods |-> IF m \in known THEN published[m] ELSE {}]
    /\ tracked \in SUBSET known
    /\ installed \in SUBSET tracked
    /\ origin = Required /\ origin \subseteq tracked
    /\ scheduled = {}
    /\ frame = [t \in Threads |-> Rest]
    /\ cut = FALSE
    /\ requests = 0 /\ releases = 0 /\ failures = 0
-----------------------------------------------------------------------------
(* How an operation goes on and ends. *)

(* Mutant: the mod taken up stays in the list. *)
NextModAgain(others) ==
    IF others = {} THEN {Rest} ELSE {Refreshing("all", m, others) : m \in others}

(* The frame that goes on with refresh_all_mods, or the session at rest.   *)
(* The code goes by mod id; the order makes no difference here.            *)
NextMod(others) ==
    IF others = {} THEN {Rest}
    ELSE {Refreshing("all", m, others \ {m}) : m \in others}

(* Mutant: whoever has refreshed a mod takes it off the queue. *)
EndsUnqueued(t) ==
    /\ \E f \in NextMod(frame[t].rest) : Set(t, f)
    /\ scheduled' = IF frame[t].op \in {"create", "update"}
                    THEN scheduled \cup ({frame[t].mod} \cap tracked)
                    ELSE scheduled \ {frame[t].mod}

(* The request, the queue entry or the mod of a full refresh is finished.  *)
(* A mod just added or given a version goes to the metadata queue.         *)
Ends(t) == /\ \E f \in NextMod(frame[t].rest) : Set(t, f)
           /\ scheduled' = CASE t \in Workers -> scheduled \ {frame[t].mod}
                             [] frame[t].op \in {"create", "update"} ->
                                    scheduled \cup ({frame[t].mod} \cap tracked)
                             [] OTHER -> scheduled

(* An exception ends the operation.  refresh_all_mods catches it and goes  *)
(* on, with nothing to show for it when the session is broken: after a     *)
(* failed flush every later statement of the session raises, too.          *)
Raises(t, broken) ==
    /\ cut' = TRUE
    /\ \E f \in NextMod(IF broken THEN {} ELSE frame[t].rest) : Set(t, f)
    /\ scheduled' = IF t \in Workers THEN scheduled \ {frame[t].mod} ELSE scheduled
-----------------------------------------------------------------------------
(* API requests up to their first commit. *)

Request(c) == /\ c \in Callers /\ At(c, "idle")
              /\ requests < MaxRequests
              /\ requests' = requests + 1
              /\ UNCHANGED <<scheduled, cut, published, spoiled, releases, failures>>

WithVersion(m, v) == IF v THEN installed \cup {m} ELSE installed \ {m}

(* create_mod: the rows of m, before its page is fetched. *)
Create(c, m, v) ==
    /\ Request(c)
    /\ known' = known \cup {m} /\ tracked' = tracked \cup {m}
    /\ installed' = WithVersion(m, v)
    /\ Set(c, Refreshing("create", m, {}))
    /\ UNCHANGED <<deps, versioned, origin>>

(* update_user_mod with an installed version, or with none. *)
Update(c, m, v, clearOrphans) ==
    /\ Request(c)
    /\ m \in known
    /\ tracked' = tracked \cup {m}
    /\ installed' = WithVersion(m, v)
    /\ Set(c, Begin("update", m, IF clearOrphans /\ m \in installed /\ ~v
                                 THEN "orphans" ELSE "tracked"))
    /\ UNCHANGED <<catalog, origin>>

(* update_user_mod of another field: synchronises with fetches at once. *)
Edit(c, m) == /\ Request(c)
              /\ m \in known
              /\ tracked' = tracked \cup {m}
              /\ Set(c, Begin("edit", m, "tracked"))
              /\ UNCHANGED <<catalog, installed, origin>>

(* delete_mod up to the deletion: the guard, and what will be orphaned. *)
Delete(c, m, clearOrphans) ==
    /\ Request(c)
    /\ m \in tracked
    /\ ~Blocked(m)
    /\ Set(c, [Begin("delete", m, "remove") EXCEPT
                  !.orphans = IF clearOrphans THEN Orphans(m) ELSE {}])
    /\ UNCHANGED tables

(* POST /refresh, and the refresh of one mod, by whichever path. *)
Refresh(c, m) == /\ Request(c)
                 /\ m \in tracked
                 /\ Set(c, Refreshing("refresh", m, {}))
                 /\ UNCHANGED tables
RefreshAll(c) == /\ Request(c)
                 /\ \E f \in NextMod(tracked) : Set(c, f)
                 /\ UNCHANGED tables

(* The metadata queue hands a mod to a worker; the scheduler starts.       *)
Take(w, m) == /\ w \in Workers /\ At(w, "idle")
              /\ m \in scheduled
              /\ \A u \in Workers : At(u, "idle") \/ frame[u].mod # m
              /\ Set(w, Refreshing("refresh", m, {}))
              /\ UNCHANGED <<tables, scheduled, cut, outside>>
Schedule(s) == /\ s \in Schedulers /\ At(s, "idle")
               /\ tracked # {}
               /\ \E f \in NextMod(tracked) : Set(s, f)
               /\ UNCHANGED <<tables, scheduled, cut, outside>>
-----------------------------------------------------------------------------
(* The tail of a deletion, and of an update that uninstalls. *)

(* The row that was read is deleted; of two deletions of one row, the      *)
(* second matches nothing, and goes on.                                    *)
Remove(t) ==
    LET m == frame[t].mod
    IN /\ At(t, "remove")
       /\ tracked' = tracked \ {m}
       /\ installed' = installed \ {m}
       /\ origin' = origin \ {m}
       /\ frame' = [u \in Threads |->
                       IF At(u, "remove") /\ frame[u].mod = m
                       THEN [frame[u] EXCEPT !.pc = "clear"] ELSE frame[u]]
       /\ UNCHANGED <<catalog, scheduled, cut, outside>>

FindOrphans(t) ==
    /\ At(t, "orphans")
    /\ Set(t, [frame[t] EXCEPT !.pc = "clear", !.orphans =
                  IF frame[t].mod \in tracked THEN Orphans(frame[t].mod) ELSE {}])
    /\ UNCHANGED <<tables, scheduled, cut, outside>>

(* deactivate_dependency_tracking: whatever was found, is uninstalled. *)
ClearOrphans(t) ==
    /\ At(t, "clear")
    /\ installed' = installed \ frame[t].orphans
    /\ Set(t, [frame[t] EXCEPT !.orphans = {},
                  !.pc = IF frame[t].op = "delete" THEN "plan" ELSE "tracked"])
    /\ UNCHANGED <<catalog, tracked, origin, scheduled, cut, outside>>
-----------------------------------------------------------------------------
(* fetch_and_upsert_mods and refresh_dependency_mods. *)

(* Where t goes when everything it wanted has been fetched: create_mod     *)
(* synchronises, a refresh looks its mod up first, a dependency round is   *)
(* followed by the next synchronisation, unless it was the last one.       *)
AfterFetch(t) == CASE frame[t].round > 0 -> "plan"
                   [] frame[t].op = "create" -> "plan"
                   [] OTHER -> "tracked"
LastRound(t, left) == left = {} /\ frame[t].round = MaxRounds

Fetched(t, m) ==
    LET left == frame[t].want \ {m}
    IN IF LastRound(t, left)
       THEN cut' = TRUE /\ Ends(t)
       ELSE /\ Set(t, [frame[t] EXCEPT !.want = left, !.page = {}, !.item = frame[t].mod,
                         !.pc = IF left = {} THEN AfterFetch(t) ELSE "fetch"])
            /\ UNCHANGED <<scheduled, cut>>

(* A page is read from the Workshop ... *)
Fetch(t, m) ==
    /\ At(t, "fetch")
    /\ m \in frame[t].want
    /\ Set(t, [frame[t] EXCEPT !.pc = "upsert", !.item = m, !.page = published[m]])
    /\ UNCHANGED <<tables, scheduled, cut, outside>>

(* ... or cannot be: fatal for the operation's own mod, skipped for a      *)
(* dependency.                                                             *)
FetchFails(t, m) ==
    /\ At(t, "fetch")
    /\ m \in frame[t].want
    /\ failures < MaxFailures
    /\ failures' = failures + 1
    /\ IF frame[t].round = 0 THEN Raises(t, FALSE) ELSE Fetched(t, m)
    /\ UNCHANGED <<tables, published, spoiled, requests, releases>>

(* Mutant: an empty list of dependencies keeps the old one, as an empty    *)
(* name or size does.                                                      *)
StoreOr(m, page) == /\ known' = known \cup {m}
                    /\ versioned' = versioned \cup ({m} \ Versionless)
                    /\ deps' = [deps EXCEPT ![m] = IF page = {} THEN @ ELSE page]

Store(m, page) == /\ known' = known \cup {m}
                  /\ versioned' = versioned \cup ({m} \ Versionless)
                  /\ deps' = [deps EXCEPT ![m] = page]

(* upsert_scraped_mod: what the page showed replaces what was stored. *)
Upsert(t) == /\ At(t, "upsert")
             /\ Store(frame[t].item, frame[t].page)
             /\ Fetched(t, frame[t].item)
             /\ UNCHANGED <<rows, outside>>

(* The scheduled refresh comes to this modset only after the others that   *)
(* track the mod, or some of them.  Reading the mod back raises there when *)
(* the installed version cannot be compared, and a conflict there breaks   *)
(* the session, also while it is busy with a mod of other modsets only.    *)
OthersRaise(t) ==
    /\ t \in Schedulers /\ frame[t].round = 0
    /\ \/ /\ At(t, "tracked") /\ frame[t].mod \in spoiled
          /\ Raises(t, FALSE)
          /\ UNCHANGED failures
       \/ /\ At(t, "tracked") \/ At(t, "fetch")
          /\ failures < MaxFailures
          /\ failures' = failures + 1
          /\ Raises(t, TRUE)
    /\ UNCHANGED <<tables, published, spoiled, requests, releases>>

(* The mod is looked up again: an update answers 404 when it is gone, a    *)
(* refresh fails, and the scheduled refresh passes the modset over.        *)
Tracked(t) == /\ At(t, "tracked")
              /\ IF frame[t].mod \in tracked
                 THEN /\ Set(t, [frame[t] EXCEPT !.pc = "plan"])
                      /\ UNCHANGED <<scheduled, cut>>
                 ELSE IF frame[t].op \in {"update", "edit"}
                      THEN Ends(t) /\ UNCHANGED cut
                      ELSE Raises(t, FALSE)
              /\ UNCHANGED <<tables, outside>>
-----------------------------------------------------------------------------
(* synchronize_dependency_tracking_for_modset(_state). *)

(* Mutant: only direct dependencies are followed. *)
PlanDirect(t) ==
    LET direct == UNION {deps[x] \ {x} : x \in installed}
    IN /\ At(t, "plan")
       /\ Set(t, [frame[t] EXCEPT !.pc = "commit", !.news = direct \ known,
                     !.adds = direct \ tracked, !.marks = (direct \cap tracked) \ origin,
                     !.want = direct \ versioned])
       /\ UNCHANGED <<tables, scheduled, cut, outside>>

(* What is missing, from one reading of the tables. *)
Plan(t) ==
    LET required == Required
    IN /\ At(t, "plan")
       /\ Set(t, [frame[t] EXCEPT !.pc = "commit", !.news = required \ known,
                     !.adds = required \ tracked,
                     !.marks = (required \cap tracked) \ origin,
                     !.want = required \ versioned])
       /\ UNCHANGED <<tables, scheduled, cut, outside>>

(* Mutant: marking a row that is gone goes unnoticed. *)
ConflictAdds(f) == f.news \cap known # {} \/ f.adds \cap tracked # {}

(* A planned row exists by now (primary key, uq_user_mods_modset_mod), or  *)
(* a row to mark is gone.                                                  *)
Conflict(f) == \/ f.news \cap known # {}
               \/ f.adds \cap tracked # {}
               \/ f.marks \ tracked # {}

(* The dependencies a looping operation goes on to fetch: each one once. *)
Fresh(f) == IF f.op \in Looping THEN f.want \ f.done ELSE {}

(* The rows are written, unless another transaction was faster. *)
Commit(t) ==
    LET f == frame[t]
        fresh == Fresh(f)
    IN /\ At(t, "commit")
       /\ IF Conflict(f)
          THEN Raises(t, TRUE) /\ UNCHANGED <<known, tracked, origin>>
          ELSE /\ known' = known \cup f.news
               /\ tracked' = tracked \cup f.adds
               /\ origin' = origin \cup f.adds \cup f.marks
               /\ UNCHANGED cut
               /\ IF fresh = {} THEN Ends(t)
                  ELSE /\ Set(t, [f EXCEPT !.pc = "fetch", !.news = {}, !.adds = {},
                                    !.marks = {}, !.want = fresh,
                                    !.done = f.done \cup fresh,
                                    !.round = f.round + 1])
                       /\ UNCHANGED scheduled
       /\ UNCHANGED <<deps, versioned, installed, outside>>
-----------------------------------------------------------------------------
(* What happens around the modset. *)

(* A mod is released with other dependencies. *)
Publish == /\ releases < MaxReleases
           /\ releases' = releases + 1
           /\ published' \in Graphs
           /\ UNCHANGED <<tables, spoiled, scheduled, frame, cut, requests, failures>>

Failure == failures < MaxFailures /\ failures' = failures + 1 /\ cut' = TRUE

(* Another modset learns of m, refreshes it, or is given a version of it.  *)
OtherModset(m) ==
    /\ Failure
    /\ \/ Store(m, published[m]) /\ UNCHANGED spoiled
       \/ known' = known \cup {m} /\ UNCHANGED <<deps, versioned, spoiled>>
       \/ spoiled' \in {spoiled \cup {m}, spoiled \ {m}} /\ UNCHANGED catalog
    /\ UNCHANGED <<rows, scheduled, frame, published, requests, releases>>

(* The backend exits and starts again: sessions and queue are lost. *)
Crash == /\ Failure
         /\ scheduled' = {}
         /\ frame' = [t \in Threads |-> Rest]
         /\ UNCHANGED <<tables, published, spoiled, requests, releases>>
-----------------------------------------------------------------------------
Synchronise(t) == Tracked(t) \/ Plan(t) \/ Commit(t)
Step(t) == \/ Remove(t) \/ FindOrphans(t) \/ ClearOrphans(t)
           \/ (\E m \in Mods : Fetch(t, m) \/ FetchFails(t, m))
           \/ Upsert(t) \/ OthersRaise(t) \/ Synchronise(t)
Submit(c, m) == \/ \E v \in BOOLEAN : Create(c, m, v) \/ Delete(c, m, v)
                \/ \E v, o \in BOOLEAN : Update(c, m, v, o)
                \/ Edit(c, m) \/ Refresh(c, m)
Start(t) == (\E m \in Mods : Take(t, m)) \/ Schedule(t)

Next == \/ \E t \in Threads : Step(t) \/ Start(t)
        \/ \E c \in Callers : RefreshAll(c) \/ \E m \in Mods : Submit(c, m)
        \/ \E m \in Mods : OtherModset(m)
        \/ Publish \/ Crash

Spec == Init /\ [][Next]_vars

(* Sessions run, queue workers take what is queued, and the scheduled      *)
(* refresh comes round again; users and the Workshop owe nothing.          *)
Fairness == \A t \in Threads : WF_vars(Step(t) \/ Start(t))
FairSpec == Spec /\ Fairness
-----------------------------------------------------------------------------
(* When everything is at rest and nothing was cut short, every transitive  *)
(* dependency of an installed mod is tracked and marked as a dependency,   *)
(* however the operations interleaved (README.md, "Automatically adds      *)
(* dependencies to tracking when an installed version is set").            *)
QuietClosed == (\A t \in Threads : At(t, "idle")) /\ ~cut => Required \subseteq origin

(* Every operation comes to its end, whatever the dependency graph does    *)
(* meanwhile.                                                              *)
OperationsEnd == \A t \in Threads : ~At(t, "idle") ~> At(t, "idle")

(* Whatever was cut short, the scheduled refreshes repair it: in the end   *)
(* the stored dependencies of every tracked mod are those of the Workshop, *)
(* and everything required is tracked as a dependency, unless every mod of *)
(* the modset has a version in another one that cannot be compared.        *)
Converges == <>[](/\ \A m \in tracked : deps[m] = published[m]
                  /\ Required \subseteq origin \/ tracked \subseteq spoiled)

(* The metadata queue, as the operations here see it, is a RefreshSet, and *)
(* they use no more of it: a mod is asked for, one worker at a time is     *)
(* busy with it, and it may be asked for again when that one is done.      *)
Working == {w \in Workers : ~At(w, "idle")}
RefreshSet == INSTANCE RefreshSet WITH
    Keys <- Mods, busy <- {frame[w].mod : w \in Working}
QueueSpec == RefreshSet!Spec
=============================================================================
