---------------------------- MODULE RefreshJobs ----------------------------
(***************************************************************************)
(* Durable manual update checks: refresh_jobs.py, the three refresh        *)
(* endpoints of routers/mods.py and the ModRefreshJob row of models.py.    *)
(*                                                                         *)
(* A thread is a refresh worker of a backend process, or the handling of   *)
(* one API request: a synchronous call (POST .../refresh) enqueues, runs   *)
(* the job itself and polls; an asynchronous call (POST .../refresh-job)   *)
(* only enqueues.  Threads interleave between database statements and      *)
(* commits.  What a check does to mod data is abstracted to its outcome.   *)
(***************************************************************************)
EXTENDS Naturals, Sequences, FiniteSets

CONSTANTS Modsets, Mods,
          Procs,       \* backend processes sharing the database
          Workers,     \* refresh worker threads
          SyncCalls,   \* slots for synchronous refresh requests
          AsyncCalls,  \* slots for asynchronous refresh requests
          ProcOf,      \* the process a thread belongs to
          Editable,    \* keys whose installed version a user may edit
          MaxAttempts, \* bound: requests that get past the tracking check
          MaxFaults    \* bound: crashes, database errors and lost locks

Keys == Modsets \X Mods
Threads == Workers \cup SyncCalls \cup AsyncCalls
Attempts == 1..MaxAttempts

Free == "free"  \* what lock[k] holds when nobody holds the lock of k

ASSUME ConstantsOK ==
    /\ IsFiniteSet(Modsets) /\ IsFiniteSet(Mods) /\ Keys # {}
    /\ Free \notin Threads
    /\ Workers \cap (SyncCalls \cup AsyncCalls) = {}
    /\ SyncCalls \cap AsyncCalls = {}
    /\ ProcOf \in [Threads -> Procs]
    /\ Editable \subseteq Keys
    /\ MaxAttempts \in Nat /\ MaxFaults \in Nat

VARIABLES
    \* the database
    job,        \* job[k]: the mod_refresh_jobs row of k, or NoJob
    modsets,    \* modsets that exist
    tracked,    \* keys with a UserMod row
    unreadable, \* tracked keys whose versions compare_versions cannot order
    audits,     \* audits[a]: logged results of attempt a
    lock,       \* advisory lock of k: the thread whose session holds it
    \* the processes
    up,         \* running processes
    frame,      \* frame[t]: where thread t is, and its local variables
    \* bookkeeping
    issued,     \* attempt ids drawn so far
    started,    \* started[a]: how often the check of attempt a was begun
    faults      \* faults so far

modVars == <<modsets, tracked, unreadable>>
counters == <<issued, started, faults>>
vars == <<job, modsets, tracked, unreadable, audits, lock, up, frame,
          issued, started, faults>>

NoJob == [attempt |-> 0, state |-> "none", error |-> "none"]
ActiveStates == {"queued", "running"}
TerminalStates == {"succeeded", "failed"}
Errors == {"none", "check", "interrupted"}
Row == [attempt : 0..MaxAttempts,
        state : ActiveStates \cup TerminalStates \cup {"none"},
        error : Errors]
Active(k) == job[k].state \in ActiveStates

(* Where a thread is.  "lock" to "release" are the statements of           *)
(* execute_refresh, "enqueue" and "accepted" those of enqueue_refresh,     *)
(* "poll" is the waiting loop of api_refresh_mod.                          *)
Locked == {"inspect", "recover", "drop", "mark", "start", "refresh",
           "report", "commit", "release"}
PCs == {"idle", "enqueue", "accepted", "lock", "poll"} \cup Locked

Frame == [pc : PCs,
          key : Keys,               \* the job being handled
          seen : 0..MaxAttempts,    \* attempt drawn, or read from the row
          result : TerminalStates \cup {"none", "raised"},
          todo : Seq(Keys)]         \* rest of a worker's snapshot
AtRest == [pc |-> "idle", key |-> CHOOSE k \in Keys : TRUE, seen |-> 0,
           result |-> "none", todo |-> <<>>]

At(t, p) == frame[t].pc = p
Goto(t, p) == frame' = [frame EXCEPT ![t].pc = p]
(* The thread is between committing "running" and writing the outcome. *)
Executing(t) == frame[t].pc \in {"start", "refresh", "report", "commit"}

TypeOK ==
    /\ job \in [Keys -> Row]
    /\ modsets \subseteq Modsets
    /\ tracked \subseteq Keys
    /\ unreadable \subseteq tracked
    /\ audits \in [Attempts -> Seq(TerminalStates)]
    /\ lock \in [Keys -> Threads \cup {Free}]
    /\ up \subseteq Procs
    /\ frame \in [Threads -> Frame]
    /\ issued \in 0..MaxAttempts
    /\ started \in [Attempts -> Nat]
    /\ faults \in 0..MaxFaults

Init ==
    /\ job = [k \in Keys |-> NoJob]
    /\ modsets = Modsets
    /\ tracked = Keys
    /\ unreadable = {}
    /\ audits = [a \in Attempts |-> <<>>]
    /\ lock = [k \in Keys |-> Free]
    /\ up = Procs
    /\ frame = [t \in Threads |-> AtRest]
    /\ issued = 0
    /\ started = [a \in Attempts |-> 0]
    /\ faults = 0
-----------------------------------------------------------------------------
(* Requests: api_refresh_mod, api_start_refresh_job and enqueue_refresh.   *)

(* The handler has checked that k is tracked; enqueue_refresh draws the    *)
(* attempt id and requested_at it may write.                               *)
Submit(c, k) ==
    /\ c \in SyncCalls \cup AsyncCalls
    /\ ProcOf[c] \in up
    /\ At(c, "idle")
    /\ k \in tracked
    /\ issued < MaxAttempts
    /\ issued' = issued + 1
    /\ frame' = [frame EXCEPT ![c].pc = "enqueue", ![c].key = k,
                             ![c].seen = issued + 1]
    /\ UNCHANGED <<job, modVars, audits, lock, up, started, faults>>

(* Mutant: the UPDATE lost its condition on the state. *)
EnqueueAlways(c) ==
    /\ At(c, "enqueue")
    /\ job' = [job EXCEPT ![frame[c].key] = [attempt |-> frame[c].seen,
                                            state |-> "queued", error |-> "none"]]
    /\ Goto(c, "accepted")
    /\ UNCHANGED <<modVars, audits, lock, up, counters>>

(* The conditional UPDATE, or the INSERT when there is no row; the modset  *)
(* foreign key makes the INSERT fail, silently, once the modset is gone.   *)
Enqueue(c) ==
    LET k == frame[c].key
        opens == ~Active(k) /\ (job[k] # NoJob \/ k[1] \in modsets)
    IN /\ At(c, "enqueue")
       /\ job' = IF opens
                 THEN [job EXCEPT ![k] = [attempt |-> frame[c].seen,
                                          state |-> "queued", error |-> "none"]]
                 ELSE job
       /\ Goto(c, "accepted")
       /\ UNCHANGED <<modVars, audits, lock, up, counters>>

(* The re-read that answers the request: an asynchronous call is over; a   *)
(* synchronous one goes on to execute the job.  No row: internal error.    *)
Accepted(c) ==
    /\ At(c, "accepted")
    /\ IF c \in SyncCalls /\ job[frame[c].key] # NoJob
       THEN frame' = [frame EXCEPT ![c].pc = "lock",
                                   ![c].seen = job[frame[c].key].attempt]
       ELSE frame' = [frame EXCEPT ![c] = AtRest]
    /\ UNCHANGED <<job, modVars, audits, lock, up, counters>>

(* Mutant: the loop only knows success. *)
PollSuccess(c) ==
    /\ At(c, "poll")
    /\ job[frame[c].key].state = "succeeded"
    /\ frame' = [frame EXCEPT ![c] = AtRest]
    /\ UNCHANGED <<job, modVars, audits, lock, up, counters>>

(* One turn of the polling loop that ends it: no row (404), failed (502)   *)
(* or succeeded (200).                                                     *)
Poll(c) ==
    /\ At(c, "poll")
    /\ ~Active(frame[c].key)
    /\ frame' = [frame EXCEPT ![c] = AtRest]
    /\ UNCHANGED <<job, modVars, audits, lock, up, counters>>
-----------------------------------------------------------------------------
(* The worker loop of start_refresh_workers.                               *)

(* Mutant: workers look for queued jobs only. *)
QueuedKeys == {k \in Keys : job[k].state = "queued"}
ActiveKeys == {k \in Keys : Active(k)}
(* s lists the active jobs, oldest request first. *)
IsSnapshot(s) == \A i, j \in DOMAIN s : i < j => job[s[i]].attempt < job[s[j]].attempt

Snapshot(w) ==
    /\ w \in Workers
    /\ ProcOf[w] \in up
    /\ At(w, "idle")
    /\ \E s \in [1..Cardinality(ActiveKeys) -> ActiveKeys] :
          /\ IsSnapshot(s)
          /\ s # <<>>
          /\ frame' = [frame EXCEPT ![w].pc = "lock", ![w].key = Head(s),
                                   ![w].todo = Tail(s)]
    /\ UNCHANGED <<job, modVars, audits, lock, up, counters>>

(* The frame of t once execute_refresh has returned or raised: a worker    *)
(* takes the next key of its snapshot, or drops the rest if it raised; a   *)
(* synchronous call polls, or answers an error if it raised.               *)
Returned(t, raised) ==
    LET f == frame[t]
    IN IF raised \/ (t \in Workers /\ f.todo = <<>>)
       THEN AtRest
       ELSE IF t \in Workers
            THEN [AtRest EXCEPT !.pc = "lock", !.key = Head(f.todo),
                                !.todo = Tail(f.todo)]
            ELSE [f EXCEPT !.pc = "poll", !.result = "none"]
-----------------------------------------------------------------------------
(* execute_refresh.                                                        *)

(* Mutant: the answer of pg_try_advisory_lock is ignored. *)
TryLockIgnored(t) ==
    LET k == frame[t].key
    IN /\ At(t, "lock")
       /\ lock' = IF lock[k] = Free THEN [lock EXCEPT ![k] = t] ELSE lock
       /\ Goto(t, "inspect")
       /\ UNCHANGED <<job, modVars, audits, up, counters>>

TryLock(t) ==
    LET k == frame[t].key
    IN /\ At(t, "lock")
       /\ IF lock[k] = Free
          THEN /\ lock' = [lock EXCEPT ![k] = t]
               /\ Goto(t, "inspect")
          ELSE /\ frame' = [frame EXCEPT ![t] = Returned(t, FALSE)]
               /\ UNCHANGED lock
       /\ UNCHANGED <<job, modVars, audits, up, counters>>

(* An exception leaves execute_refresh; the session rolls back. *)
Raise(t) == frame' = [frame EXCEPT ![t].pc = "release", ![t].result = "raised"]

(* _audit_result cannot read a tracked mod whose versions do not compare:  *)
(* get_mod_read raises, and with it the transaction that ends the job.     *)
CanAudit(k) == k \notin unreadable

(* Mutant: a running row is run again. *)
InspectReplay(t) ==
    LET k == frame[t].key
    IN /\ At(t, "inspect")
       /\ frame' = [frame EXCEPT ![t].pc = IF Active(k) THEN "mark" ELSE "release",
                                ![t].seen = job[k].attempt]
       /\ UNCHANGED <<job, modVars, audits, lock, up, counters>>

(* The row is read, and, if it is queued, whether its mod is tracked. *)
Inspect(t) ==
    LET k == frame[t].key
        next == CASE job[k].state = "running" -> "recover"
                  [] job[k].state = "queued" /\ k \in tracked -> "mark"
                  [] job[k].state = "queued" /\ k \notin tracked -> "drop"
                  [] OTHER -> "release"
    IN /\ At(t, "inspect")
       /\ frame' = [frame EXCEPT ![t].pc = next, ![t].seen = job[k].attempt]
       /\ UNCHANGED <<job, modVars, audits, lock, up, counters>>

(* The row ends in state s with error e, and the audit entry of the        *)
(* attempt t has read with it.  A row that vanished makes the UPDATE match *)
(* nothing, which raises.                                                  *)
EndJob(t, s, e) ==
    LET k == frame[t].key
    IN IF job[k] # NoJob /\ CanAudit(k)
       THEN /\ job' = [job EXCEPT ![k].state = s, ![k].error = e]
            /\ audits' = [audits EXCEPT ![frame[t].seen] = Append(@, s)]
            /\ Goto(t, "release")
       ELSE Raise(t) /\ UNCHANGED <<job, audits>>

(* Mutant: recovery forgets the audit entry. *)
RecoverSilently(t) ==
    /\ At(t, "recover")
    /\ job' = [job EXCEPT ![frame[t].key].state = "failed"]
    /\ Goto(t, "release")
    /\ UNCHANGED <<modVars, audits, lock, up, counters>>

(* A running row whose lock could be taken: its process is gone. *)
Recover(t) == /\ At(t, "recover")
              /\ EndJob(t, "failed", "interrupted")
              /\ UNCHANGED <<modVars, lock, up, counters>>

Drop(t) == /\ At(t, "drop")
           /\ job' = [job EXCEPT ![frame[t].key] = NoJob]
           /\ Goto(t, "release")
           /\ UNCHANGED <<modVars, audits, lock, up, counters>>

Mark(t) ==
    LET k == frame[t].key
    IN /\ At(t, "mark")
       /\ IF job[k] # NoJob
          THEN job' = [job EXCEPT ![k].state = "running"] /\ Goto(t, "start")
          ELSE Raise(t) /\ UNCHANGED job
       /\ UNCHANGED <<modVars, audits, lock, up, counters>>

(* The attempt is re-read after the commit, then refresh_mod begins. *)
Start(t) ==
    LET a == job[frame[t].key].attempt
    IN /\ At(t, "start")
       /\ IF a # 0
          THEN /\ frame' = [frame EXCEPT ![t].pc = "refresh", ![t].seen = a]
               /\ started' = [started EXCEPT ![a] = @ + 1]
          ELSE Raise(t) /\ UNCHANGED started
       /\ UNCHANGED <<job, modVars, audits, lock, up, issued, faults>>

(* refresh_mod returns or raises.  It asserts that the mod is tracked and  *)
(* reads it at the end, so it cannot succeed otherwise.                    *)
Refresh(t) ==
    LET k == frame[t].key
    IN /\ At(t, "refresh")
       /\ \E r \in TerminalStates :
             /\ r = "succeeded" => k \in tracked \ unreadable
             /\ frame' = [frame EXCEPT ![t].pc = "report", ![t].result = r]
       /\ UNCHANGED <<job, modVars, audits, lock, up, counters>>

(* The row is read again; only the attempt that was started is completed. *)
Report(t) ==
    /\ At(t, "report")
    /\ Goto(t, IF job[frame[t].key].attempt = frame[t].seen THEN "commit"
               ELSE "release")
    /\ UNCHANGED <<job, modVars, audits, lock, up, counters>>

Commit(t) ==
    /\ At(t, "commit")
    /\ IF frame[t].result = "succeeded" THEN EndJob(t, "succeeded", "none")
       ELSE EndJob(t, "failed", "check")
    /\ UNCHANGED <<modVars, lock, up, counters>>

(* Unlocking on a session that no longer holds the lock's connection       *)
(* raises as well.                                                         *)
Release(t) ==
    LET k == frame[t].key
        held == lock[k] = t
    IN /\ At(t, "release")
       /\ lock' = IF held THEN [lock EXCEPT ![k] = Free] ELSE lock
       /\ frame' = [frame EXCEPT ![t] =
                       Returned(t, ~held \/ frame[t].result = "raised")]
       /\ UNCHANGED <<job, modVars, audits, up, counters>>
-----------------------------------------------------------------------------
(* Failures, and what else happens to the rows.                            *)

Fault == faults < MaxFaults /\ faults' = faults + 1

(* A process exits: its threads vanish, the server drops their locks. *)
Crash(p) ==
    LET dead == {t \in Threads : ProcOf[t] = p}
    IN /\ p \in up
       /\ Fault
       /\ up' = up \ {p}
       /\ frame' = [t \in Threads |-> IF t \in dead THEN AtRest ELSE frame[t]]
       /\ lock' = [k \in Keys |-> IF lock[k] \in dead THEN Free ELSE lock[k]]
       /\ UNCHANGED <<job, modVars, audits, issued, started>>

Restart(p) == /\ p \notin up
              /\ up' = up \cup {p}
              /\ UNCHANGED <<job, modVars, audits, lock, frame, counters>>

(* A statement or commit of execute_refresh fails, outside the refresh. *)
DbError(t) == /\ frame[t].pc \in Locked \ {"refresh", "release"}
              /\ Fault
              /\ Raise(t)
              /\ UNCHANGED <<job, modVars, audits, lock, up, issued, started>>

(* A mod is added to a modset, by a user or as a dependency. *)
Track(k) == /\ k \notin tracked
            /\ k[1] \in modsets
            /\ tracked' = tracked \cup {k}
            /\ UNCHANGED <<job, modsets, unreadable, audits, lock, up, frame,
                           counters>>

(* Mutant: the mapping is hidden, its version text kept. *)
UntrackSoftly(k) ==
    /\ k \in tracked
    /\ tracked' = tracked \ {k}
    /\ UNCHANGED <<job, modsets, unreadable, audits, lock, up, frame, counters>>

(* delete_mod removes the UserMod row and leaves the job row. *)
Untrack(k) == /\ k \in tracked
              /\ tracked' = tracked \ {k}
              /\ unreadable' = unreadable \ {k}
              /\ UNCHANGED <<job, modsets, audits, lock, up, frame, counters>>

(* delete_modset: both kinds of rows go by ON DELETE CASCADE. *)
DeleteModset(m) ==
    LET inside(k) == k[1] = m
    IN /\ m \in modsets
       /\ modsets' = modsets \ {m}
       /\ tracked' = {k \in tracked : ~inside(k)}
       /\ unreadable' = {k \in unreadable : ~inside(k)}
       /\ job' = [k \in Keys |-> IF inside(k) THEN NoJob ELSE job[k]]
       /\ UNCHANGED <<audits, lock, up, frame, counters>>

(* update_user_mod stores any installed version of up to 80 characters;    *)
(* "latest" does not compare with "1.2.0" and "1.1.0" does.                *)
EditVersion(k) ==
    /\ k \in Editable \cap tracked
    /\ unreadable' = IF k \in unreadable THEN unreadable \ {k}
                     ELSE unreadable \cup {k}
    /\ UNCHANGED <<job, modsets, tracked, audits, lock, up, frame, counters>>

(* The connection holding t's lock is cut while t's process lives on. *)
LoseLock(t) ==
    /\ frame[t].pc \in Locked
    /\ lock[frame[t].key] = t
    /\ Fault
    /\ lock' = [lock EXCEPT ![frame[t].key] = Free]
    /\ UNCHANGED <<job, modVars, audits, up, frame, issued, started>>
-----------------------------------------------------------------------------
Execute(t) == \/ TryLock(t) \/ Inspect(t) \/ Recover(t) \/ Drop(t) \/ Mark(t)
              \/ Start(t) \/ Refresh(t) \/ Report(t) \/ Commit(t) \/ Release(t)

Handle(c) == Enqueue(c) \/ Accepted(c) \/ Poll(c)

Step(t) == Execute(t) \/ Handle(t) \/ Snapshot(t)

Next == \/ \E t \in Threads : Step(t) \/ DbError(t)
        \/ \E c \in SyncCalls \cup AsyncCalls, k \in Keys : Submit(c, k)
        \/ \E p \in Procs : Crash(p) \/ Restart(p)
        \/ \E k \in Keys : Track(k) \/ Untrack(k) \/ EditVersion(k)
        \/ \E m \in Modsets : DeleteModset(m)

Spec == Init /\ [][Next]_vars

(* Threads run and processes are restarted; users and faults owe nothing. *)
Fairness == /\ \A t \in Threads : WF_vars(Step(t))
            /\ \A p \in Procs : WF_vars(Restart(p))
FairSpec == Spec /\ Fairness

(* The same system when a lock's connection can be cut. *)
LossyNext == Next \/ \E t \in Threads : LoseLock(t)
LossySpec == Init /\ [][LossyNext]_vars
-----------------------------------------------------------------------------
(* While a thread is executing the check of k, the row of k is that check's*)
(* running attempt, unless the whole modset is gone: nobody else recovered *)
(* it, replaced it or runs it too (docs/architecture.md, "prevent another  *)
(* worker executing or recovering a still-active check").                  *)
ActiveCheckProtected ==
    \A t \in Threads : Executing(t) =>
        LET row == job[frame[t].key]
        IN \/ row.state = "running" /\ row.attempt = frame[t].seen
           \/ row = NoJob /\ frame[t].key[1] \notin modsets

(* Two threads never execute a check of the same key at once. *)
ExclusiveExecution ==
    \A t, u \in Threads :
        Executing(t) /\ Executing(u) /\ frame[t].key = frame[u].key => t = u

(* The check of an attempt begins at most once, whatever crashes and       *)
(* retries happen (no replay of possible side effects).                    *)
NoReplay == \A a \in Attempts : started[a] <= 1

(* The audit log has exactly one entry for the attempt a terminal row      *)
(* shows, with that result, none for an active one, and never two.         *)
AuditTrail ==
    /\ \A a \in Attempts : Len(audits[a]) <= 1
    /\ \A k \in Keys :
          /\ Active(k) => audits[job[k].attempt] = <<>>
          /\ job[k].state \in TerminalStates =>
                audits[job[k].attempt] = <<job[k].state>>

(* A finished attempt stays as it is: its row changes only by opening      *)
(* another attempt or by disappearing with the modset ("marks the          *)
(* interrupted running job failed without replaying it").                  *)
TerminalIsFinal ==
    [][\A k \in Keys : job[k].state \in TerminalStates /\ job'[k] # job[k] =>
          \/ job'[k] = NoJob /\ k[1] \notin modsets'
          \/ job'[k].state = "queued" /\ job'[k].attempt # job[k].attempt]_vars

(* No outcome can be recorded for a row whose mod is unreadable, and every *)
(* pass of a worker ends there: the attempts requested later wait for it.  *)
Behind(k) == \E u \in unreadable : Active(u) /\ job[u].attempt <= job[k].attempt

(* Every attempt is eventually over: finished, or dropped with its mod,    *)
(* unless again and again it is behind an active row whose mod has an      *)
(* installed version that does not compare with the latest one             *)
(* ("Failed/interrupted checks allow a new attempt").                      *)
AttemptsEnd ==
    \A k \in Keys, a \in Attempts :
        (Active(k) /\ job[k].attempt = a)
        ~> (~(Active(k) /\ job[k].attempt = a) \/ Behind(k))

(* A synchronous request is eventually answered, or lost with its process, *)
(* with the same exception.                                                *)
SyncCallsReturn ==
    \A c \in SyncCalls :
        At(c, "poll") ~> (At(c, "idle") \/ Behind(frame[c].key))

(* The rows behave as RefreshJobLifecycle promises. *)
Lifecycle == INSTANCE RefreshJobLifecycle WITH
    opened <- {a \in Attempts : a <= issued /\ ~\E c \in SyncCalls \cup AsyncCalls :
                 At(c, "enqueue") /\ frame[c].seen = a},
    checking <- {frame[t].seen : t \in {u \in Threads : Executing(u)}}
LifecycleSpec == Lifecycle!Spec
=============================================================================
