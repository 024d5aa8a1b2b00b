------------------------ MODULE RefreshJobs_proofs ------------------------
(***************************************************************************)
(* Proofs about RefreshJobs for every number of modsets, mods, processes,  *)
(* threads, attempts and faults.                                           *)
(***************************************************************************)
EXTENDS RefreshJobs, FiniteSetTheorems, SequenceTheorems, TLAPS

Holding(t) == frame[t].pc \in Locked

(* A thread inside execute_refresh holds the advisory lock of its key. *)
LockInv == \A t \in Threads : Holding(t) => lock[frame[t].key] = t

Gone(k) == job[k] = NoJob /\ k[1] \notin modsets

(* A thread at one of these places acts on what it has read of its row. *)
Reading == {"recover", "drop", "mark", "start", "refresh", "report", "commit"}
Expected(p) == IF p \in {"drop", "mark"} THEN "queued" ELSE "running"

(* What a thread has read of its row is still so, whoever ran in between,  *)
(* or the whole modset is gone.                                            *)
RowOf(t) ==
    LET k == frame[t].key
    IN frame[t].pc \in Reading =>
         \/ job[k].state = Expected(frame[t].pc) /\ job[k].attempt = frame[t].seen
         \/ Gone(k)

WellFormed(r) == /\ r.state = "none" <=> r.attempt = 0
                 /\ r.state = "none" => r = NoJob

RowInv == /\ \A k \in Keys : WellFormed(job[k])
          /\ \A t \in Threads : RowOf(t)

(* Attempt ids are used once. *)
AttemptInv ==
    /\ \A k \in Keys : job[k].attempt <= issued
    /\ \A k, l \in Keys : job[k].attempt = job[l].attempt /\ job[k].attempt # 0 => k = l
    /\ \A c \in Threads : At(c, "enqueue") =>
         /\ frame[c].seen \in 1..issued
         /\ \A k \in Keys : job[k].attempt # frame[c].seen
         /\ \A d \in Threads : At(d, "enqueue") /\ frame[d].seen = frame[c].seen => c = d

Fresh(a) == started[a] = 0 /\ audits[a] = <<>>

(* The check of an attempt and its audit entry are written once. *)
HistoryOf(k) ==
    /\ job[k].state = "queued" => Fresh(job[k].attempt)
    /\ job[k].state = "running" => audits[job[k].attempt] = <<>>
    /\ job[k].state \in TerminalStates => audits[job[k].attempt] = <<job[k].state>>
RequestOf(c) == At(c, "enqueue") => Fresh(frame[c].seen)
StartOf(t) == At(t, "start") /\ job[frame[t].key].state = "running" =>
                 started[frame[t].seen] = 0
HistoryInv ==
    /\ \A a \in Attempts : started[a] <= 1 /\ Len(audits[a]) <= 1
    /\ \A a \in Attempts : a > issued => Fresh(a)
    /\ \A c \in Threads : RequestOf(c)
    /\ \A k \in Keys : HistoryOf(k)
    /\ \A t \in Threads : StartOf(t)

IInv == TypeOK /\ LockInv /\ RowInv /\ AttemptInv /\ HistoryInv
-----------------------------------------------------------------------------
(* A thread at rest is well formed. *)

LEMMA AtRestIsFrame == AtRest \in Frame
  <1>1. (CHOOSE k \in Keys : TRUE) \in Keys
    BY ConstantsOK
  <1>2. 0 \in 0..MaxAttempts
    BY ConstantsOK
  <1>3. <<>> \in Seq(Keys)
    OBVIOUS
  <1>. QED
    BY <1>1, <1>2, <1>3 DEF AtRest, Frame, PCs

(* A thread that leaves execute_refresh has a well-formed frame again. *)
LEMMA ReturnedIsFrame ==
  ASSUME TypeOK, NEW t \in Threads, NEW raised \in BOOLEAN
  PROVE  Returned(t, raised) \in Frame
  <1> DEFINE f == frame[t]
  <1>1. f \in Frame
    BY DEF TypeOK
  <1>2. CASE raised \/ (t \in Workers /\ f.todo = <<>>)
    BY <1>2, AtRestIsFrame DEF Returned
  <1>3. CASE ~raised /\ t \in Workers /\ f.todo # <<>>
    <2>1. Head(f.todo) \in Keys /\ Tail(f.todo) \in Seq(Keys)
      BY <1>1, <1>3 DEF Frame
    <2>. QED
      BY <1>3, <2>1, AtRestIsFrame DEF Returned, Frame, PCs
  <1>4. CASE ~raised /\ t \notin Workers
    BY <1>1, <1>4 DEF Returned, Frame, PCs
  <1>. QED
    BY <1>2, <1>3, <1>4

(* Replacing one thread's frame by a frame keeps the type. *)
LEMMA FramePut ==
  ASSUME frame \in [Threads -> Frame], NEW t \in Threads, NEW f \in Frame
  PROVE  [frame EXCEPT ![t] = f] \in [Threads -> Frame]
  OBVIOUS

(* Moving a thread to another statement keeps the type of frame. *)
LEMMA GotoType ==
  ASSUME frame \in [Threads -> Frame], NEW t \in Threads, NEW p \in PCs, Goto(t, p)
  PROVE  frame' \in [Threads -> Frame]
  <1>1. [frame[t] EXCEPT !.pc = p] \in Frame
    BY DEF Frame
  <1>2. frame' = [frame EXCEPT ![t] = [frame[t] EXCEPT !.pc = p]]
    BY DEF Goto
  <1>. QED
    BY <1>1, <1>2

(* An exception keeps the type of frame. *)
LEMMA RaiseType ==
  ASSUME frame \in [Threads -> Frame], NEW t \in Threads, Raise(t)
  PROVE  frame' \in [Threads -> Frame]
  <1>1. [frame[t] EXCEPT !.pc = "release", !.result = "raised"] \in Frame
    BY DEF Frame, PCs, Locked
  <1>2. frame' = [frame EXCEPT ![t] = [frame[t] EXCEPT !.pc = "release", !.result = "raised"]]
    BY DEF Raise
  <1>. QED
    BY <1>1, <1>2
-----------------------------------------------------------------------------
(* Type correctness. *)

(* The initial state is well typed. *)
LEMMA InitType == Init => TypeOK
  <1> SUFFICES ASSUME Init PROVE TypeOK
    OBVIOUS
  <1>1. job \in [Keys -> Row]
    BY ConstantsOK DEF Init, NoJob, Row, Errors
  <1>2. audits \in [Attempts -> Seq(TerminalStates)]
    BY DEF Init
  <1>3. frame \in [Threads -> Frame]
    BY AtRestIsFrame DEF Init
  <1>. QED
    BY <1>1, <1>2, <1>3, ConstantsOK DEF Init, TypeOK

(* Writing a row of k with an attempt it already has keeps the types. *)
LEMMA RowPut ==
  ASSUME TypeOK, NEW k \in Keys, NEW r \in Row
  PROVE  [job EXCEPT ![k] = r] \in [Keys -> Row]
  BY DEF TypeOK

(* Recording an outcome and its audit entry keeps the types. *)
LEMMA EndJobType ==
  ASSUME TypeOK, NEW t \in Threads, NEW s \in TerminalStates, NEW e \in Errors,
         EndJob(t, s, e)
  PROVE  /\ job' \in [Keys -> Row]
         /\ audits' \in [Attempts -> Seq(TerminalStates)]
         /\ frame' \in [Threads -> Frame]
  <1> DEFINE k == frame[t].key
  <1>1. k \in Keys /\ frame \in [Threads -> Frame]
    BY DEF TypeOK, Frame
  <1>2. CASE job[k] # NoJob /\ CanAudit(k)
    <2>1. [job[k] EXCEPT !.state = s, !.error = e] \in Row
      <3>1. job[k] \in Row
        BY <1>1 DEF TypeOK
      <3>. QED
        BY <3>1 DEF Row
    <2>2. job' = [job EXCEPT ![k] = [job[k] EXCEPT !.state = s, !.error = e]]
      BY <1>2 DEF EndJob
    <2>3. audits' = [audits EXCEPT ![frame[t].seen] = Append(@, s)]
      BY <1>2 DEF EndJob
    <2>4. \A a \in Attempts : Append(audits[a], s) \in Seq(TerminalStates)
      BY DEF TypeOK
    <2>5. audits' \in [Attempts -> Seq(TerminalStates)]
      BY <2>3, <2>4 DEF TypeOK
    <2>6. Goto(t, "release")
      BY <1>2 DEF EndJob
    <2>. QED
      BY <1>1, <2>1, <2>2, <2>5, <2>6, RowPut, GotoType DEF PCs, Locked
  <1>3. CASE ~(job[k] # NoJob /\ CanAudit(k))
    BY <1>1, <1>3, RaiseType DEF EndJob, TypeOK
  <1>. QED
    BY <1>2, <1>3

(* A worker that takes a snapshot has a well-formed frame. *)
LEMMA SnapshotType ==
  ASSUME TypeOK, NEW w \in Threads, Snapshot(w)
  PROVE  frame' \in [Threads -> Frame]
  <1>1. PICK s \in [1..Cardinality(ActiveKeys) -> ActiveKeys] :
          /\ s # <<>>
          /\ frame' = [frame EXCEPT ![w].pc = "lock", ![w].key = Head(s),
                                   ![w].todo = Tail(s)]
    BY DEF Snapshot
  <1>2. Cardinality(ActiveKeys) \in Nat
    <2>1. IsFiniteSet(Keys)
      BY ConstantsOK, FS_Product DEF Keys
    <2>2. IsFiniteSet(ActiveKeys)
      BY <2>1, FS_Subset DEF ActiveKeys
    <2>. QED
      BY <2>2, FS_CardinalityType
  <1> DEFINE n == Cardinality(ActiveKeys)
  <1>3. s \in Seq(Keys)
    <2>1. ActiveKeys \subseteq Keys
      BY DEF ActiveKeys
    <2> HIDE DEF n
    <2>2. n \in Nat /\ s \in [1..n -> Keys]
      BY <1>1, <1>2, <2>1 DEF n
    <2>. QED
      BY <2>2
  <1>4. Head(s) \in Keys /\ Tail(s) \in Seq(Keys)
    BY <1>1, <1>3, HeadTailProperties
  <1>5. frame[w] \in Frame /\ frame \in [Threads -> Frame]
    BY DEF TypeOK
  <1> DEFINE g == [frame[w] EXCEPT !.pc = "lock", !.key = Head(s), !.todo = Tail(s)]
  <1>6. g \in Frame
    BY <1>4, <1>5 DEF Frame, PCs
  <1>7. frame' = [frame EXCEPT ![w] = g]
    BY <1>1
  <1>. QED
    BY <1>5, <1>6, <1>7

(* execute_refresh keeps the types. *)
LEMMA ExecuteType ==
  ASSUME TypeOK, NEW t \in Threads, Execute(t)
  PROVE  TypeOK'
  <1> DEFINE k == frame[t].key
  <1>1. k \in Keys /\ frame \in [Threads -> Frame] /\ job[k] \in Row
    BY DEF TypeOK, Frame
  <1>2. CASE TryLock(t)
    <2>1. lock' \in [Keys -> Threads \cup {Free}]
      BY <1>1, <1>2 DEF TryLock, TypeOK
    <2>2. frame' \in [Threads -> Frame]
      <3>1. CASE lock[k] = Free
        BY <1>1, <1>2, <3>1, GotoType DEF TryLock, PCs, Locked
      <3>2. CASE lock[k] # Free
        BY <1>1, <1>2, <3>2, ReturnedIsFrame, FramePut DEF TryLock
      <3>. QED
        BY <3>1, <3>2
    <2>. QED
      BY <1>2, <2>1, <2>2 DEF TryLock, TypeOK, modVars, counters
  <1>3. CASE Inspect(t)
    <2>1. PICK p \in PCs : frame' = [frame EXCEPT ![t].pc = p, ![t].seen = job[k].attempt]
      BY <1>3 DEF Inspect, PCs, Locked
    <2>2. [frame[t] EXCEPT !.pc = p, !.seen = job[k].attempt] \in Frame
      BY <1>1, <2>1 DEF Frame, Row
    <2>3. frame' = [frame EXCEPT ![t] = [frame[t] EXCEPT !.pc = p, !.seen = job[k].attempt]]
      BY <2>1
    <2>4. frame' \in [Threads -> Frame]
      BY <1>1, <2>2, <2>3
    <2>. QED
      BY <1>3, <2>4 DEF Inspect, TypeOK, modVars, counters
  <1>4. CASE Recover(t)
    BY <1>4, EndJobType DEF Recover, TypeOK, modVars, counters, TerminalStates, Errors
  <1>5. CASE Drop(t)
    <2>1. NoJob \in Row
      BY ConstantsOK DEF NoJob, Row, Errors
    <2>3. job' \in [Keys -> Row]
      BY <1>1, <1>5, <2>1, RowPut DEF Drop
    <2>2. frame' \in [Threads -> Frame]
      BY <1>1, <1>5, GotoType DEF Drop, PCs, Locked
    <2>. QED
      BY <1>5, <2>2, <2>3 DEF Drop, TypeOK, modVars, counters
  <1>6. CASE Mark(t)
    <2>1. frame' \in [Threads -> Frame]
      BY <1>1, <1>6, GotoType, RaiseType DEF Mark, PCs, Locked
    <2>2. [job[k] EXCEPT !.state = "running"] \in Row
      BY <1>1 DEF Row, ActiveStates
    <2>3. \/ job' = [job EXCEPT ![k] = [job[k] EXCEPT !.state = "running"]]
          \/ job' = job
      BY <1>6 DEF Mark
    <2>4. job' \in [Keys -> Row]
      BY <1>1, <2>2, <2>3 DEF TypeOK
    <2>. QED
      BY <1>6, <2>1, <2>4 DEF Mark, TypeOK, modVars, counters
  <1>7. CASE Start(t)
    <2> DEFINE a == job[k].attempt
    <2>1. a \in 0..MaxAttempts
      BY <1>1 DEF Row
    <2>2. CASE a # 0
      <3>1. [frame[t] EXCEPT !.pc = "refresh", !.seen = a] \in Frame
        BY <1>1, <2>1 DEF Frame, PCs, Locked
      <3>2. frame' = [frame EXCEPT ![t] = [frame[t] EXCEPT !.pc = "refresh", !.seen = a]]
        BY <1>7, <2>2 DEF Start
      <3>3. frame' \in [Threads -> Frame]
        BY <1>1, <3>1, <3>2
      <3>4. started' \in [Attempts -> Nat]
        <4>1. a \in Attempts /\ started' = [started EXCEPT ![a] = @ + 1]
          BY <1>7, <2>1, <2>2, ConstantsOK DEF Start, Attempts
        <4>. QED
          BY <4>1 DEF TypeOK
      <3>. QED
        BY <1>7, <3>3, <3>4 DEF Start, TypeOK, modVars, counters
    <2>3. CASE a = 0
      BY <1>1, <1>7, <2>3, RaiseType DEF Start, TypeOK, modVars, counters
    <2>. QED
      BY <2>2, <2>3
  <1>8. CASE Refresh(t)
    <2>1. PICK r \in TerminalStates :
            frame' = [frame EXCEPT ![t].pc = "report", ![t].result = r]
      BY <1>8 DEF Refresh
    <2>2. [frame[t] EXCEPT !.pc = "report", !.result = r] \in Frame
      BY <1>1 DEF Frame, PCs, Locked
    <2>3. frame' = [frame EXCEPT ![t] = [frame[t] EXCEPT !.pc = "report", !.result = r]]
      BY <2>1
    <2>4. frame' \in [Threads -> Frame]
      BY <1>1, <2>2, <2>3
    <2>. QED
      BY <1>8, <2>4 DEF Refresh, TypeOK, modVars, counters
  <1>9. CASE Report(t)
    <2>1. frame' \in [Threads -> Frame]
      BY <1>1, <1>9, GotoType DEF Report, PCs, Locked
    <2>. QED
      BY <1>9, <2>1 DEF Report, TypeOK, modVars, counters
  <1>10. CASE Commit(t)
    BY <1>10, EndJobType DEF Commit, TypeOK, modVars, counters, TerminalStates, Errors
  <1>11. CASE Release(t)
    <2>1. lock' \in [Keys -> Threads \cup {Free}]
      BY <1>11 DEF Release, TypeOK
    <2>2. frame' \in [Threads -> Frame]
      BY <1>1, <1>11, ReturnedIsFrame, FramePut DEF Release
    <2>. QED
      BY <1>11, <2>1, <2>2 DEF Release, TypeOK, modVars, counters
  <1>. QED
    BY <1>2, <1>3, <1>4, <1>5, <1>6, <1>7, <1>8, <1>9, <1>10, <1>11 DEF Execute
(* Requests, workers, failures and changes to the mods keep the types. *)
LEMMA OtherType ==
  ASSUME TypeOK, NEW t \in Threads, Handle(t) \/ Snapshot(t) \/ DbError(t) \/ LoseLock(t)
  PROVE  TypeOK'
  <1> DEFINE k == frame[t].key
  <1>1. k \in Keys /\ frame \in [Threads -> Frame] /\ job[k] \in Row
    BY DEF TypeOK, Frame
  <1>2. CASE Enqueue(t)
    <2>1. frame[t].seen \in 0..MaxAttempts
      BY DEF TypeOK, Frame
    <2>2. [attempt |-> frame[t].seen, state |-> "queued", error |-> "none"] \in Row
      BY <2>1 DEF Row, ActiveStates, Errors
    <2>3. job' \in [Keys -> Row]
      BY <1>1, <1>2, <2>2, RowPut DEF Enqueue, TypeOK
    <2>4. frame' \in [Threads -> Frame]
      BY <1>1, <1>2, GotoType DEF Enqueue, PCs
    <2>. QED
      BY <1>2, <2>3, <2>4 DEF Enqueue, TypeOK, modVars, counters
  <1>3. CASE Accepted(t)
    <2>0. job[k].attempt \in 0..MaxAttempts /\ frame[t] \in Frame /\ "lock" \in PCs
      BY <1>1 DEF Row, PCs
    <2>1. ASSUME NEW a \in 0..MaxAttempts PROVE [frame[t] EXCEPT !.pc = "lock", !.seen = a] \in Frame
      BY <2>0 DEF Frame
    <2>2. \/ frame' = [frame EXCEPT ![t] = [frame[t] EXCEPT !.pc = "lock", !.seen = job[k].attempt]]
          \/ frame' = [frame EXCEPT ![t] = AtRest]
      BY <1>3 DEF Accepted
    <2>3. frame' \in [Threads -> Frame]
      BY <1>1, <2>0, <2>1, <2>2, AtRestIsFrame
    <2>. QED
      BY <1>3, <2>3 DEF Accepted, TypeOK, modVars, counters
  <1>4. CASE Poll(t)
    <2>1. frame' \in [Threads -> Frame]
      BY <1>1, <1>4, AtRestIsFrame DEF Poll
    <2>. QED
      BY <1>4, <2>1 DEF Poll, TypeOK, modVars, counters
  <1>5. CASE Snapshot(t)
    BY <1>5, SnapshotType DEF Snapshot, TypeOK, modVars, counters
  <1>6. CASE DbError(t)
    <2>1. frame' \in [Threads -> Frame]
      BY <1>1, <1>6, RaiseType DEF DbError
    <2>2. faults' \in 0..MaxFaults
      BY <1>6, ConstantsOK DEF DbError, Fault, TypeOK
    <2>. QED
      BY <1>6, <2>1, <2>2 DEF DbError, TypeOK, modVars
  <1>7. CASE LoseLock(t)
    <2>1. faults' \in 0..MaxFaults
      BY <1>7, ConstantsOK DEF LoseLock, Fault, TypeOK
    <2>2. lock' \in [Keys -> Threads \cup {Free}]
      BY <1>1, <1>7 DEF LoseLock, TypeOK
    <2>. QED
      BY <1>7, <2>1, <2>2 DEF LoseLock, TypeOK, modVars
  <1>. QED
    BY <1>2, <1>3, <1>4, <1>5, <1>6, <1>7 DEF Handle

(* A new request keeps the types. *)
LEMMA SubmitType ==
  ASSUME TypeOK, NEW c \in SyncCalls \cup AsyncCalls, NEW k \in Keys, Submit(c, k)
  PROVE  TypeOK'
  <1>1. issued + 1 \in 0..MaxAttempts
    BY ConstantsOK DEF Submit, TypeOK
  <1>2. c \in Threads
    BY DEF Threads
  <1>3. [frame[c] EXCEPT !.pc = "enqueue", !.key = k, !.seen = issued + 1] \in Frame
    BY <1>1, <1>2 DEF TypeOK, Frame, PCs
  <1>4. frame' = [frame EXCEPT ![c] =
                    [frame[c] EXCEPT !.pc = "enqueue", !.key = k, !.seen = issued + 1]]
    BY DEF Submit
  <1>5. frame' \in [Threads -> Frame]
    BY <1>2, <1>3, <1>4 DEF TypeOK
  <1>. QED
    BY <1>1, <1>5 DEF Submit, TypeOK, modVars

(* Crashes and restarts keep the types. *)
LEMMA ProcessType ==
  ASSUME TypeOK, NEW p \in Procs, Crash(p) \/ Restart(p)
  PROVE  TypeOK'
  <1>1. CASE Crash(p)
    <2>1. frame' \in [Threads -> Frame]
      BY <1>1, AtRestIsFrame DEF Crash, TypeOK
    <2>2. lock' \in [Keys -> Threads \cup {Free}]
      BY <1>1 DEF Crash, TypeOK
    <2>3. faults' \in 0..MaxFaults
      BY <1>1, ConstantsOK DEF Crash, Fault, TypeOK
    <2>. QED
      BY <1>1, <2>1, <2>2, <2>3 DEF Crash, TypeOK, modVars
  <1>2. CASE Restart(p)
    BY <1>2 DEF Restart, TypeOK, modVars, counters
  <1>. QED
    BY <1>1, <1>2

(* Changes to tracked mods and modsets keep the types. *)
LEMMA ModsType ==
  ASSUME TypeOK,
         \/ \E k \in Keys : Track(k) \/ Untrack(k) \/ EditVersion(k)
         \/ \E m \in Modsets : DeleteModset(m)
  PROVE  TypeOK'
  <1>1. CASE \E k \in Keys : Track(k) \/ Untrack(k) \/ EditVersion(k)
    BY <1>1 DEF Track, Untrack, EditVersion, TypeOK, modVars, counters
  <1>2. CASE \E m \in Modsets : DeleteModset(m)
    <2>1. PICK m \in Modsets : DeleteModset(m)
      BY <1>2
    <2>2. NoJob \in Row
      BY ConstantsOK DEF NoJob, Row, Errors
    <2>3. job' \in [Keys -> Row]
      BY <2>1, <2>2 DEF DeleteModset, TypeOK
    <2>. QED
      BY <2>1, <2>3 DEF DeleteModset, TypeOK, counters
  <1>. QED
    BY <1>1, <1>2

(* Every step keeps the types, those that lose a lock included. *)
LEMMA StepType == TypeOK /\ [LossyNext]_vars => TypeOK'
  <1> SUFFICES ASSUME TypeOK, [LossyNext]_vars PROVE TypeOK'
    OBVIOUS
  <1>1. CASE \E t \in Threads : Step(t) \/ DbError(t) \/ LoseLock(t)
    BY <1>1, ExecuteType, OtherType DEF Step
  <1>2. CASE \E c \in SyncCalls \cup AsyncCalls, k \in Keys : Submit(c, k)
    BY <1>2, SubmitType
  <1>3. CASE \E p \in Procs : Crash(p) \/ Restart(p)
    BY <1>3, ProcessType
  <1>4. CASE \/ \E k \in Keys : Track(k) \/ Untrack(k) \/ EditVersion(k)
             \/ \E m \in Modsets : DeleteModset(m)
    BY <1>4, ModsType
  <1>5. CASE UNCHANGED vars
    BY <1>5 DEF vars, TypeOK
  <1>. QED
    BY <1>1, <1>2, <1>3, <1>4, <1>5 DEF LossyNext, Next

(* Every variable keeps its type in every behaviour of the jobs. *)
THEOREM TypeCorrect == Spec => []TypeOK
  <1>1. [Next]_vars => [LossyNext]_vars
    BY DEF LossyNext
  <1>. QED
    BY <1>1, InitType, StepType, PTL DEF Spec

(* ... even when the connection that holds a lock can be cut. *)
THEOREM LossyTypeCorrect == LossySpec => []TypeOK
  BY InitType, StepType, PTL DEF LossySpec

-----------------------------------------------------------------------------
(* Locks. *)

(* A step of t moves no other thread. *)
LEMMA OthersStay ==
  ASSUME TypeOK, NEW t \in Threads, Step(t) \/ DbError(t)
  PROVE  \A u \in Threads \ {t} : frame'[u] = frame[u]
  <1> USE DEF Goto, Raise
  <1>1. frame \in [Threads -> Frame]
    BY DEF TypeOK
  <1>2. CASE DbError(t)
    BY <1>1, <1>2 DEF DbError
  <1>3. CASE Handle(t) \/ Snapshot(t)
    BY <1>1, <1>3 DEF Handle, Enqueue, Accepted, Poll, Snapshot
  <1>4. CASE Execute(t)
    BY <1>1, <1>4 DEF Execute, TryLock, Inspect, Recover, Drop, Mark, Start,
                      Refresh, Report, Commit, Release, EndJob
  <1>. QED
    BY <1>2, <1>3, <1>4 DEF Step

(* Inside execute_refresh, past the lock, a thread stays with its key. *)
LEMMA KeyStays ==
  ASSUME TypeOK, NEW t \in Threads, frame[t].pc \in Locked \ {"release"},
         Step(t) \/ DbError(t)
  PROVE  frame'[t].pc \in Locked /\ frame'[t].key = frame[t].key
  <1> USE DEF Goto, Raise, At, Locked
  <1>1. frame \in [Threads -> Frame] /\ frame[t] \in Frame
    BY DEF TypeOK
  <1>2. CASE DbError(t)
    BY <1>1, <1>2 DEF DbError, Frame
  <1>3. ~(Handle(t) \/ Snapshot(t) \/ TryLock(t) \/ Release(t))
    BY DEF Handle, Enqueue, Accepted, Poll, Snapshot, TryLock, Release
  <1>4. CASE Inspect(t)
    BY <1>1, <1>4 DEF Inspect, Frame
  <1>5. CASE Recover(t) \/ Drop(t) \/ Mark(t) \/ Commit(t)
    <2>1. CASE Recover(t)
      BY <1>1, <2>1 DEF Recover, EndJob, Frame
    <2>2. CASE Commit(t)
      BY <1>1, <2>2 DEF Commit, EndJob, Frame
    <2>3. CASE Drop(t) \/ Mark(t)
      BY <1>1, <2>3 DEF Drop, Mark, Frame
    <2>. QED
      BY <1>5, <2>1, <2>2, <2>3
  <1>6. CASE Start(t) \/ Refresh(t) \/ Report(t)
    BY <1>1, <1>6 DEF Start, Refresh, Report, Frame
  <1>. QED
    BY <1>2, <1>3, <1>4, <1>5, <1>6 DEF Step, Execute

(* A thread outside the lock gets in by taking it, and in no other way.    *)
LEMMA Entering ==
  ASSUME TypeOK, NEW t \in Threads, frame[t].pc \notin Locked \ {"release"},
         Step(t), frame'[t].pc \in Locked
  PROVE  /\ At(t, "lock") /\ TryLock(t)
         /\ lock[frame[t].key] = Free
         /\ frame' = [frame EXCEPT ![t].pc = "inspect"]
         /\ lock' = [lock EXCEPT ![frame[t].key] = t]
  <1>1. frame \in [Threads -> Frame] /\ frame[t] \in Frame
    BY DEF TypeOK
  <1>2. Returned(t, FALSE).pc \notin Locked /\ Returned(t, TRUE).pc \notin Locked
    BY <1>1 DEF Returned, AtRest, Locked, Frame
  <1>3. ~(Handle(t) \/ Snapshot(t))
    <2>1. ~Enqueue(t)
      BY <1>1 DEF Enqueue, Goto, Locked, Frame
    <2>2. ~Accepted(t) /\ ~Poll(t)
      BY <1>1 DEF Accepted, Poll, AtRest, Locked, Frame
    <2>3. ~Snapshot(t)
      <3>1. Snapshot(t) => \E s : frame' = [frame EXCEPT ![t] =
              [frame[t] EXCEPT !.pc = "lock", !.key = Head(s), !.todo = Tail(s)]]
        BY DEF Snapshot
      <3>2. \A s : [frame[t] EXCEPT !.pc = "lock", !.key = Head(s),
                                    !.todo = Tail(s)].pc = "lock"
        BY <1>1 DEF Frame
      <3>. QED
        BY <1>1, <3>1, <3>2 DEF Locked
    <2>. QED
      BY <2>1, <2>2, <2>3 DEF Handle
  <1>4. ~Release(t)
    <2> DEFINE r == ~(lock[frame[t].key] = t) \/ frame[t].result = "raised"
    <2>1. Release(t) => frame'[t] = Returned(t, r)
      BY <1>1 DEF Release
    <2>2. r \in BOOLEAN
      OBVIOUS
    <2> HIDE DEF r
    <2>. QED
      BY <1>2, <2>1, <2>2
  <1>5. TryLock(t)
    BY <1>3, <1>4 DEF Step, Execute, Inspect, Recover, Drop, Mark, Start, Refresh,
                      Report, Commit, At, Locked
  <1>6. CASE lock[frame[t].key] = Free
    BY <1>5, <1>6 DEF TryLock, Goto
  <1>7. CASE lock[frame[t].key] # Free
    BY <1>1, <1>2, <1>5, <1>7 DEF TryLock
  <1>. QED
    BY <1>5, <1>6, <1>7 DEF TryLock

(* Only the thread that takes or releases a lock changes it. *)
LEMMA LocksStay ==
  ASSUME TypeOK, NEW t \in Threads, Step(t) \/ DbError(t)
  PROVE  \/ lock' = lock
         \/ At(t, "lock") /\ lock[frame[t].key] = Free
            /\ lock' = [lock EXCEPT ![frame[t].key] = t]
         \/ At(t, "release") /\ lock[frame[t].key] = t
            /\ lock' = [lock EXCEPT ![frame[t].key] = Free]
  BY DEF Step, Execute, TryLock, Inspect, Recover, Drop, Mark, Start, Refresh,
         Report, Commit, Release, Handle, Enqueue, Accepted, Poll, Snapshot, DbError

(* A thread's step keeps every thread inside under its own lock. *)
LEMMA LockThread ==
  ASSUME TypeOK, LockInv, NEW t \in Threads, Step(t) \/ DbError(t)
  PROVE  LockInv'
  <1> SUFFICES ASSUME NEW u \in Threads, Holding(u)' PROVE (lock[frame[u].key] = u)'
    BY DEF LockInv
  <1>1. \A v \in Threads : frame[v].key \in Keys /\ v # Free
    BY ConstantsOK DEF TypeOK, Frame
  <1>2. CASE u # t
    <2>1. frame'[u] = frame[u]
      BY <1>2, OthersStay
    <2>2. lock[frame[u].key] = u
      BY <2>1 DEF LockInv, Holding
    <2>3. lock'[frame[u].key] = u
      <3>1. lock \in [Keys -> Threads \cup {Free}]
        BY DEF TypeOK
      <3>2. frame[t].key = frame[u].key => lock[frame[t].key] \notin {Free, t}
        BY <1>1, <1>2, <2>2
      <3>. QED
        BY <1>1, <2>2, <3>1, <3>2, LocksStay
    <2>. QED
      BY <2>1, <2>3
  <1>3. CASE u = t /\ frame[t].pc \in Locked \ {"release"}
    <2>1. frame'[t].key = frame[t].key
      BY <1>3, KeyStays
    <2>2. lock' = lock
      BY <1>3, LocksStay DEF At, Locked
    <2>. QED
      BY <1>3, <2>1, <2>2 DEF LockInv, Holding
  <1>4. CASE u = t /\ frame[t].pc \notin Locked \ {"release"}
    <2>1. ~DbError(t)
      BY <1>4 DEF DbError
    <2>2. /\ frame' = [frame EXCEPT ![t].pc = "inspect"]
          /\ lock' = [lock EXCEPT ![frame[t].key] = t]
      BY <1>4, <2>1, Entering DEF Holding
    <2>. QED
      BY <1>1, <1>4, <2>2 DEF TypeOK, Frame
  <1>. QED
    BY <1>2, <1>3, <1>4

(* Every step keeps every thread inside under its own lock. *)
LEMMA LockStep == TypeOK /\ LockInv /\ [Next]_vars => LockInv'
  <1> SUFFICES ASSUME TypeOK, LockInv, [Next]_vars PROVE LockInv'
    OBVIOUS
  <1>1. CASE \E t \in Threads : Step(t) \/ DbError(t)
    BY <1>1, LockThread
  <1>2. CASE \E c \in SyncCalls \cup AsyncCalls, k \in Keys : Submit(c, k)
    BY <1>2 DEF Submit, TypeOK, LockInv, Holding, Locked, Threads, Frame
  <1>3. CASE \E p \in Procs : Crash(p)
    <2>1. PICK p \in Procs : Crash(p)
      BY <1>3
    <2> SUFFICES ASSUME NEW u \in Threads, Holding(u)' PROVE (lock[frame[u].key] = u)'
      BY DEF LockInv
    <2>2. ProcOf[u] # p /\ frame'[u] = frame[u]
      BY <2>1 DEF Crash, Holding, AtRest, Locked
    <2>3. lock[frame[u].key] = u /\ frame[u].key \in Keys
      BY <2>2 DEF LockInv, Holding, TypeOK, Frame
    <2>. QED
      BY <2>1, <2>2, <2>3 DEF Crash
  <1>4. CASE \E p \in Procs : Restart(p)
    BY <1>4 DEF Restart, LockInv, Holding
  <1>5. CASE \/ \E k \in Keys : Track(k) \/ Untrack(k) \/ EditVersion(k)
             \/ \E m \in Modsets : DeleteModset(m)
    BY <1>5 DEF Track, Untrack, EditVersion, DeleteModset, LockInv, Holding
  <1>6. CASE UNCHANGED vars
    BY <1>6 DEF vars, LockInv, Holding
  <1>. QED
    BY <1>1, <1>2, <1>3, <1>4, <1>5, <1>6 DEF Next
-----------------------------------------------------------------------------
(* Held locks. *)

(* Whoever holds a lock is inside execute_refresh with its key, and only a *)
(* thread of a running process is at work at all.                          *)
HeldInv == \A k \in Keys : lock[k] # Free => /\ Holding(lock[k])
                                             /\ frame[lock[k]].key = k
AliveInv == \A t \in Threads : ~At(t, "idle") => ProcOf[t] \in up

(* Every lock that is held has a live thread that goes on to release it.   *)
NoLockLeaks == \A k \in Keys : lock[k] # Free =>
    /\ ProcOf[lock[k]] \in up
    /\ frame[lock[k]].pc \in Locked
    /\ frame[lock[k]].key = k

(* A thread takes one lock at a time, and leaves with none. *)
LEMMA HeldThread ==
  ASSUME TypeOK, HeldInv, NEW t \in Threads, Step(t) \/ DbError(t)
  PROVE  HeldInv'
  <1>1. /\ frame \in [Threads -> Frame] /\ frame[t].key \in Keys
        /\ lock \in [Keys -> Threads \cup {Free}]
    BY DEF TypeOK, Frame
  <1>2. \A u \in Threads \ {t} : frame'[u] = frame[u]
    BY OthersStay
  <1>3. CASE frame[t].pc \in Locked \ {"release"}
    <2>1. frame'[t].pc \in Locked /\ frame'[t].key = frame[t].key /\ lock' = lock
      BY <1>3, KeyStays, LocksStay DEF At, Locked
    <2>. QED
      BY <1>1, <1>2, <1>3, <2>1 DEF HeldInv, Holding
  <1>4. CASE At(t, "release")
    <2>1. Release(t)
      BY <1>4 DEF Step, Execute, TryLock, Inspect, Recover, Drop, Mark, Start, Refresh,
                  Report, Commit, Handle, Enqueue, Accepted, Poll, Snapshot, DbError, At, Locked
    <2>2. \A k \in Keys : lock'[k] # t /\ (lock'[k] # Free => lock'[k] = lock[k])
      <3>1. t # Free /\ \A k \in Keys : lock[k] = t => k = frame[t].key
        BY ConstantsOK DEF HeldInv
      <3>2. lock' = IF lock[frame[t].key] = t THEN [lock EXCEPT ![frame[t].key] = Free] ELSE lock
        BY <2>1 DEF Release
      <3>. QED
        BY <1>1, <3>1, <3>2
    <2>. QED
      BY <1>1, <1>2, <2>2 DEF HeldInv, Holding
  <1>5. CASE frame[t].pc \notin Locked
    <2>1. \A k \in Keys : lock[k] # t
      BY <1>5, ConstantsOK DEF HeldInv, Holding
    <2>2. ~DbError(t)
      BY <1>5 DEF DbError
    <2>3. CASE lock' = lock
      BY <1>1, <1>2, <2>1, <2>3 DEF HeldInv, Holding
    <2>4. CASE lock' # lock
      <3>1. TryLock(t) /\ lock[frame[t].key] = Free
        BY <1>5, <2>2, <2>4 DEF Step, Execute, TryLock, Inspect, Recover, Drop, Mark, Start,
             Refresh, Report, Commit, Release, Handle, Enqueue, Accepted, Poll, Snapshot, At, Locked
      <3>2. /\ lock' = [lock EXCEPT ![frame[t].key] = t]
            /\ frame' = [frame EXCEPT ![t] = [frame[t] EXCEPT !.pc = "inspect"]]
        BY <3>1 DEF TryLock, Goto
      <3>3. frame'[t].pc \in Locked /\ frame'[t].key = frame[t].key
        BY <1>1, <3>2 DEF Frame, Locked
      <3>. QED
        BY <1>1, <1>2, <2>1, <3>2, <3>3 DEF HeldInv, Holding
    <2>. QED
      BY <2>3, <2>4
  <1>. QED
    BY <1>3, <1>4, <1>5 DEF At

(* Only Submit and Snapshot set a thread to work, in a running process.    *)
LEMMA AliveThread ==
  ASSUME TypeOK, AliveInv, NEW t \in Threads, Step(t) \/ DbError(t)
  PROVE  AliveInv'
  <1>1. \A u \in Threads \ {t} : frame'[u] = frame[u]
    BY OthersStay
  <1>2. up' = up
    BY DEF Step, Execute, TryLock, Inspect, Recover, Drop, Mark, Start, Refresh, Report,
           Commit, Release, Handle, Enqueue, Accepted, Poll, Snapshot, DbError
  <1>3. Snapshot(t) \/ ~At(t, "idle")
    BY DEF Step, Execute, TryLock, Inspect, Recover, Drop, Mark, Start, Refresh, Report,
           Commit, Release, Handle, Enqueue, Accepted, Poll, DbError, At, Locked
  <1>4. ProcOf[t] \in up
    BY <1>3 DEF Snapshot, AliveInv
  <1>. QED
    BY <1>1, <1>2, <1>4 DEF AliveInv, At

(* Cut connections included, no step leaves a lock with nobody to free it. *)
LEMMA HeldStep == TypeOK /\ HeldInv /\ AliveInv /\ [LossyNext]_vars => HeldInv' /\ AliveInv'
  <1> SUFFICES ASSUME TypeOK, HeldInv, AliveInv, [LossyNext]_vars
               PROVE  HeldInv' /\ AliveInv'
    OBVIOUS
  <1>0. /\ frame \in [Threads -> Frame] /\ lock \in [Keys -> Threads \cup {Free}]
        /\ Free \notin Threads
    BY ConstantsOK DEF TypeOK
  <1>1. CASE \E t \in Threads : Step(t) \/ DbError(t)
    BY <1>1, HeldThread, AliveThread
  <1>2. CASE \E c \in SyncCalls \cup AsyncCalls, k \in Keys : Submit(c, k)
    <2>1. PICK c \in SyncCalls \cup AsyncCalls, k \in Keys : Submit(c, k)
      BY <1>2
    <2>2. c \in Threads /\ \A u \in Threads \ {c} : frame'[u] = frame[u]
      BY <1>0, <2>1 DEF Submit, Threads
    <2>3. \A l \in Keys : lock[l] # c
      BY <1>0, <2>1, <2>2 DEF Submit, HeldInv, Holding, At, Locked
    <2>4. lock' = lock /\ up' = up /\ ProcOf[c] \in up
      BY <2>1 DEF Submit
    <2>. QED
      BY <1>0, <2>2, <2>3, <2>4 DEF HeldInv, AliveInv, Holding, At
  <1>3. CASE \E p \in Procs : Crash(p)
    <2>1. PICK p \in Procs : Crash(p)
      BY <1>3
    <2>2. /\ \A t \in Threads : ProcOf[t] = p => frame'[t].pc = "idle"
          /\ \A t \in Threads : ProcOf[t] # p => frame'[t] = frame[t]
          /\ \A k \in Keys : lock'[k] # Free => lock'[k] = lock[k] /\ ProcOf[lock[k]] # p
          /\ up' = up \ {p}
      BY <1>0, <2>1 DEF Crash, AtRest
    <2>. QED
      BY <1>0, <2>2 DEF HeldInv, AliveInv, Holding, At
  <1>4. CASE \E p \in Procs : Restart(p)
    BY <1>4 DEF Restart, HeldInv, AliveInv, Holding, At
  <1>5. CASE \/ \E k \in Keys : Track(k) \/ Untrack(k) \/ EditVersion(k)
             \/ \E m \in Modsets : DeleteModset(m)
    BY <1>5 DEF Track, Untrack, EditVersion, DeleteModset, HeldInv, AliveInv, Holding, At
  <1>6. CASE \E t \in Threads : LoseLock(t)
    BY <1>0, <1>6 DEF LoseLock, HeldInv, AliveInv, Holding, At
  <1>7. CASE UNCHANGED vars
    BY <1>7 DEF vars, HeldInv, AliveInv, Holding, At
  <1>. QED
    BY <1>1, <1>2, <1>3, <1>4, <1>5, <1>6, <1>7 DEF LossyNext, Next

(* No lock of a job is ever left behind: whatever is raised, crashes or is *)
(* disconnected, the holder of a lock is inside execute_refresh, in a      *)
(* process that runs, and on its way to the unlock of the finally clause   *)
(* (refresh_jobs.py:59-80).                                             *)
THEOREM LocksReleased == LossySpec => []NoLockLeaks
  <1>1. Init => HeldInv /\ AliveInv
    BY DEF Init, AtRest, HeldInv, AliveInv, At
  <1>2. TypeOK /\ HeldInv /\ AliveInv => NoLockLeaks
    BY DEF TypeOK, HeldInv, AliveInv, NoLockLeaks, Holding, At, Locked
  <1>. QED
    BY <1>1, <1>2, InitType, StepType, HeldStep, PTL DEF LossySpec
-----------------------------------------------------------------------------
(* Rows. *)

(* A row that is written at all is written by the thread that holds its    *)
(* lock, or opened by a request that finds no active attempt.              *)
LEMMA RowsStay ==
  ASSUME TypeOK, NEW t \in Threads, Step(t) \/ DbError(t), NEW k \in Keys
  PROVE  /\ modsets' = modsets
         /\ \/ job'[k] = job[k]
            \/ k = frame[t].key /\ frame[t].pc \in {"recover", "drop", "mark", "commit"}
            \/ /\ k = frame[t].key /\ Enqueue(t)
               /\ ~Active(k) /\ ~Gone(k)
               /\ job'[k] = [attempt |-> frame[t].seen, state |-> "queued",
                             error |-> "none"]
  <1>1. job \in [Keys -> Row] /\ frame[t].key \in Keys
    BY DEF TypeOK, Frame
  <1>2. CASE DbError(t)
    BY <1>2 DEF DbError, modVars
  <1>3. CASE Enqueue(t)
    BY <1>1, <1>3 DEF Enqueue, Gone, modVars
  <1>4. CASE Accepted(t) \/ Poll(t) \/ Snapshot(t)
    BY <1>4 DEF Accepted, Poll, Snapshot, modVars
  <1>5. CASE TryLock(t) \/ Inspect(t) \/ Start(t) \/ Refresh(t) \/ Report(t) \/ Release(t)
    BY <1>5 DEF TryLock, Inspect, Start, Refresh, Report, Release, modVars
  <1>6. CASE Recover(t) \/ Drop(t) \/ Mark(t) \/ Commit(t)
    BY <1>1, <1>6 DEF Recover, Drop, Mark, Commit, EndJob, At, modVars
  <1>. QED
    BY <1>2, <1>3, <1>4, <1>5, <1>6 DEF Step, Execute, Handle

(* What another thread has read stays true under a step of t. *)
LEMMA RowOfOthers ==
  ASSUME TypeOK, LockInv, RowInv, NEW t \in Threads, Step(t) \/ DbError(t),
         NEW u \in Threads \ {t}
  PROVE  RowOf(u)'
  <1> DEFINE k == frame[u].key
  <1>1. frame'[u] = frame[u] /\ k \in Keys
    BY OthersStay DEF TypeOK, Frame
  <1> SUFFICES ASSUME frame[u].pc \in Reading
               PROVE  \/ job'[k].state = Expected(frame[u].pc)
                         /\ job'[k].attempt = frame[u].seen
                      \/ job'[k] = NoJob /\ k[1] \notin modsets'
    BY <1>1 DEF RowOf, Gone
  <1>2. \/ job[k].state = Expected(frame[u].pc) /\ job[k].attempt = frame[u].seen
        \/ Gone(k)
    BY DEF RowInv, RowOf
  <1>3. Active(k) \/ Gone(k)
    BY <1>2 DEF Active, ActiveStates, Expected
  <1>4. lock[k] = u
    BY DEF LockInv, Holding, Reading, Locked
  <1>5. ~(k = frame[t].key /\ frame[t].pc \in {"recover", "drop", "mark", "commit"})
    BY <1>4 DEF LockInv, Holding, Locked
  <1>. QED
    BY <1>1, <1>2, <1>3, <1>5, RowsStay DEF Gone

(* What the thread itself has read stays true, too. *)
LEMMA RowOfSelf ==
  ASSUME TypeOK, LockInv, RowInv, NEW t \in Threads, Step(t) \/ DbError(t)
  PROVE  RowOf(t)'
  <1> DEFINE k == frame[t].key
  <1>1. /\ frame \in [Threads -> Frame] /\ frame[t] \in Frame
        /\ k \in Keys /\ job \in [Keys -> Row]
    BY DEF TypeOK, Frame
  <1>2. RowOf(t) /\ WellFormed(job[k])
    BY <1>1 DEF RowInv
  <1> USE DEF Reading, Expected
  <1>3. CASE DbError(t)
    BY <1>1, <1>3 DEF DbError, Raise, RowOf, Frame
  <1>4. CASE frame[t].pc \notin Locked \ {"release"}
    <2>1. ~DbError(t)
      BY <1>4 DEF DbError
    <2>2. frame'[t].pc \in Locked => frame'[t].pc = "inspect"
      BY <1>1, <1>4, <2>1, Entering DEF Frame
    <2>. QED
      BY <2>2 DEF RowOf, Locked
  <1>5. CASE Inspect(t)
    BY <1>1, <1>5 DEF Inspect, RowOf, Frame
  <1>6. CASE Recover(t) \/ Drop(t) \/ Commit(t)
    <2>1. Goto(t, "release") \/ Raise(t)
      BY <1>6 DEF Recover, Drop, Commit, EndJob
    <2>. QED
      BY <1>1, <2>1 DEF Goto, Raise, RowOf, Frame
  <1>7. CASE Mark(t)
    <2>1. CASE job[k] # NoJob
      <3>1. job[k].state = "queued" /\ job[k].attempt = frame[t].seen
        BY <1>2, <1>7, <2>1 DEF Mark, At, RowOf, Gone
      <3>2. /\ frame' = [frame EXCEPT ![t] = [frame[t] EXCEPT !.pc = "start"]]
            /\ job' = [job EXCEPT ![k] = [job[k] EXCEPT !.state = "running"]]
        BY <1>7, <2>1 DEF Mark, Goto
      <3>3. /\ frame'[t].seen = frame[t].seen /\ frame'[t].pc = "start"
            /\ frame'[t].key = k
        BY <1>1, <3>2 DEF Frame
      <3>4. job'[k].state = "running" /\ job'[k].attempt = job[k].attempt
        BY <1>1, <3>2 DEF Row
      <3>. QED
        BY <3>1, <3>3, <3>4 DEF RowOf
    <2>2. CASE job[k] = NoJob
      BY <1>1, <1>7, <2>2 DEF Mark, Raise, RowOf, Frame
    <2>. QED
      BY <2>1, <2>2
  <1>8. CASE Start(t)
    <2>1. CASE job[k].attempt # 0
      <3>1. job[k].state = "running"
        BY <1>2, <1>8, <2>1 DEF Start, At, RowOf, Gone, NoJob
      <3>2. /\ frame' = [frame EXCEPT ![t] =
                           [frame[t] EXCEPT !.pc = "refresh", !.seen = job[k].attempt]]
            /\ job' = job
        BY <1>8, <2>1 DEF Start
      <3>3. /\ frame'[t].seen = job[k].attempt /\ frame'[t].pc = "refresh"
            /\ frame'[t].key = k
        BY <1>1, <3>2 DEF Frame
      <3>. QED
        BY <3>1, <3>2, <3>3 DEF RowOf
    <2>2. CASE job[k].attempt = 0
      BY <1>1, <1>8, <2>2 DEF Start, Raise, RowOf, Frame
    <2>. QED
      BY <2>1, <2>2
  <1>9. CASE Refresh(t)
    BY <1>1, <1>2, <1>9 DEF Refresh, At, RowOf, Gone, Frame, modVars
  <1>10. CASE Report(t)
    BY <1>1, <1>2, <1>10 DEF Report, At, Goto, RowOf, Gone, Frame, modVars
  <1>11. frame[t].pc \in Locked \ {"release"} /\ ~DbError(t) =>
            ~(Handle(t) \/ Snapshot(t) \/ TryLock(t) \/ Release(t))
    BY DEF Handle, Enqueue, Accepted, Poll, Snapshot, TryLock, Release, At, Locked
  <1>. QED
    BY <1>3, <1>4, <1>5, <1>6, <1>7, <1>8, <1>9, <1>10, <1>11 DEF Step, Execute
-----------------------------------------------------------------------------
(* Attempt ids. *)

(* Only a new request gets to the point where it writes its own id. *)
LEMMA NoNewRequest ==
  ASSUME TypeOK, NEW t \in Threads, Step(t) \/ DbError(t)
  PROVE  frame'[t].pc # "enqueue"
  <1>1. frame \in [Threads -> Frame] /\ frame[t] \in Frame
    BY DEF TypeOK
  <1>2. CASE frame[t].pc \in Locked \ {"release"}
    BY <1>2, KeyStays DEF Locked
  <1>3. CASE frame[t].pc \notin Locked \ {"release"}
    <2>1. \A r \in BOOLEAN : Returned(t, r).pc # "enqueue"
      BY <1>1 DEF Returned, AtRest, Frame
    <2>2. ~DbError(t)
      BY <1>3 DEF DbError
    <2>3. CASE Enqueue(t)
      BY <1>1, <2>3 DEF Enqueue, Goto, Frame
    <2>4. CASE Accepted(t) \/ Poll(t)
      BY <1>1, <2>4 DEF Accepted, Poll, AtRest, Frame
    <2>5. CASE Snapshot(t)
      <3>1. \E s : frame' = [frame EXCEPT ![t] =
              [frame[t] EXCEPT !.pc = "lock", !.key = Head(s), !.todo = Tail(s)]]
        BY <2>5 DEF Snapshot
      <3>2. \A s : [frame[t] EXCEPT !.pc = "lock", !.key = Head(s),
                                    !.todo = Tail(s)].pc = "lock"
        BY <1>1 DEF Frame
      <3>. QED
        BY <1>1, <3>1, <3>2
    <2>6. CASE TryLock(t)
      <3>1. CASE lock[frame[t].key] = Free
        BY <1>1, <2>6, <3>1 DEF TryLock, Goto, Frame
      <3>2. CASE lock[frame[t].key] # Free
        BY <1>1, <2>1, <2>6, <3>2 DEF TryLock
      <3>. QED
        BY <3>1, <3>2
    <2>7. CASE Release(t)
      <3> DEFINE r == ~(lock[frame[t].key] = t) \/ frame[t].result = "raised"
      <3>1. frame'[t] = Returned(t, r)
        BY <1>1, <2>7 DEF Release
      <3>2. r \in BOOLEAN
        OBVIOUS
      <3> HIDE DEF r
      <3>. QED
        BY <2>1, <3>1, <3>2
    <2>. QED
      BY <1>3, <2>2, <2>3, <2>4, <2>5, <2>6, <2>7 DEF Step, Execute, Handle,
         Inspect, Recover, Drop, Mark, Start, Refresh, Report, Commit, At, Locked
  <1>. QED
    BY <1>2, <1>3

(* A step that draws no id, and writes none into a row, keeps ids unique. *)
LEMMA AttemptsKept ==
  ASSUME AttemptInv, issued \in Nat, issued' = issued,
         \A k \in Keys : job'[k].attempt \in {job[k].attempt, 0},
         \A c \in Threads : At(c, "enqueue")' => frame'[c] = frame[c]
  PROVE  AttemptInv'
  BY DEF AttemptInv, At

(* A thread's step keeps attempt ids unique and already drawn. *)
LEMMA AttemptThread ==
  ASSUME TypeOK, AttemptInv, NEW t \in Threads, Step(t) \/ DbError(t)
  PROVE  AttemptInv'
  <1>1. /\ issued' = issued /\ issued \in Nat
        /\ \A c \in Threads : At(c, "enqueue")' => c # t /\ frame'[c] = frame[c]
    <2>1. issued' = issued
      BY DEF Step, Execute, TryLock, Inspect, Recover, Drop, Mark, Start, Refresh,
             Report, Commit, Release, Handle, Enqueue, Accepted, Poll, Snapshot,
             DbError, counters
    <2>. QED
      BY <2>1, OthersStay, NoNewRequest, ConstantsOK DEF At, TypeOK
  <1>2. /\ job \in [Keys -> Row] /\ frame \in [Threads -> Frame]
        /\ frame[t].key \in Keys
    BY DEF TypeOK, Frame
  <1>3. CASE Enqueue(t)
    <2> DEFINE k == frame[t].key
    <2>1. CASE job' = job
      BY <1>1, <2>1, AttemptsKept
    <2>2. CASE job' # job
      <3>1. job' = [job EXCEPT ![k] = [attempt |-> frame[t].seen,
                                       state |-> "queued", error |-> "none"]]
        BY <1>3, <2>2 DEF Enqueue
      <3>2. job'[k].attempt = frame[t].seen /\ \A l \in Keys \ {k} : job'[l] = job[l]
        BY <1>2, <3>1
      <3>3. At(t, "enqueue")
        BY <1>3 DEF Enqueue
      <3>. QED
        BY <1>1, <3>2, <3>3 DEF AttemptInv, At
    <2>. QED
      BY <2>1, <2>2
  <1>4. CASE ~Enqueue(t)
    <2>1. ASSUME NEW k \in Keys PROVE job'[k].attempt \in {job[k].attempt, 0}
      <3>1. \/ job' = job
            \/ Recover(t) \/ Drop(t) \/ Mark(t) \/ Commit(t)
        BY <1>4 DEF Step, Execute, TryLock, Inspect, Start, Refresh, Report, Release,
                    Handle, Accepted, Poll, Snapshot, DbError
      <3>2. CASE Recover(t) \/ Commit(t) \/ Mark(t)
        <4>1. CASE Recover(t)
          BY <1>2, <4>1 DEF Recover, EndJob, Row
        <4>2. CASE Commit(t)
          BY <1>2, <4>2 DEF Commit, EndJob, Row
        <4>3. CASE Mark(t)
          BY <1>2, <4>3 DEF Mark, Row
        <4>. QED
          BY <3>2, <4>1, <4>2, <4>3
      <3>3. CASE Drop(t)
        BY <1>2, <3>3 DEF Drop, NoJob
      <3>. QED
        BY <3>1, <3>2, <3>3
    <2>. QED
      BY <1>1, <2>1, AttemptsKept
  <1>. QED
    BY <1>3, <1>4

(* Every step keeps attempt ids unique and already drawn. *)
LEMMA AttemptStep == TypeOK /\ AttemptInv /\ [Next]_vars => AttemptInv'
  <1> SUFFICES ASSUME TypeOK, AttemptInv, [Next]_vars PROVE AttemptInv'
    OBVIOUS
  <1>1. issued \in Nat /\ frame \in [Threads -> Frame]
    BY ConstantsOK DEF TypeOK
  <1>2. CASE \E t \in Threads : Step(t) \/ DbError(t)
    BY <1>2, AttemptThread
  <1>3. CASE \E c \in SyncCalls \cup AsyncCalls, k \in Keys : Submit(c, k)
    <2>1. PICK c \in SyncCalls \cup AsyncCalls, k \in Keys : Submit(c, k)
      BY <1>3
    <2>2. c \in Threads
      BY DEF Threads
    <2>3. frame' = [frame EXCEPT ![c] =
                     [frame[c] EXCEPT !.pc = "enqueue", !.key = k, !.seen = issued + 1]]
      BY <2>1 DEF Submit
    <2>4. /\ frame'[c].seen = issued + 1 /\ frame'[c].pc = "enqueue"
          /\ \A d \in Threads \ {c} : frame'[d] = frame[d]
      BY <1>1, <2>2, <2>3 DEF Frame
    <2>5. issued' = issued + 1 /\ job' = job
      BY <2>1 DEF Submit
    <2>6. \A k_1 \in Keys : job[k_1].attempt \in Nat
      BY ConstantsOK DEF TypeOK, Row
    <2>. QED
      BY <1>1, <2>4, <2>5, <2>6 DEF AttemptInv, At
  <1>4. CASE \E p \in Procs : Crash(p)
    <2>1. /\ issued' = issued /\ job' = job
          /\ \A c \in Threads : At(c, "enqueue")' => frame'[c] = frame[c]
      BY <1>1, <1>4 DEF Crash, At, AtRest
    <2>. QED
      BY <1>1, <2>1, AttemptsKept
  <1>5. CASE \E m \in Modsets : DeleteModset(m)
    <2>1. /\ issued' = issued /\ frame' = frame
          /\ \A k \in Keys : job'[k] \in {job[k], NoJob}
      BY <1>5 DEF DeleteModset, counters
    <2>. QED
      BY <1>1, <2>1, AttemptsKept DEF NoJob
  <1>6. CASE \/ \E k \in Keys : Track(k) \/ Untrack(k) \/ EditVersion(k)
             \/ \E p \in Procs : Restart(p)
             \/ UNCHANGED vars
    <2>1. issued' = issued /\ frame' = frame /\ job' = job
      BY <1>6 DEF Track, Untrack, EditVersion, Restart, counters, vars
    <2>. QED
      BY <1>1, <2>1, AttemptsKept
  <1>. QED
    BY <1>2, <1>3, <1>4, <1>5, <1>6 DEF Next
-----------------------------------------------------------------------------
(* The rows under every step, and what it means for executing threads. *)

(* A thread's step leaves every row well formed. *)
LEMMA WellFormedThread ==
  ASSUME TypeOK, RowInv, AttemptInv, NEW t \in Threads, Step(t) \/ DbError(t),
         NEW k \in Keys
  PROVE  WellFormed(job'[k])
  <1>1. WellFormed(job[k]) /\ job \in [Keys -> Row] /\ job[k] \in Row
    BY DEF RowInv, TypeOK
  <1>2. CASE job'[k] = job[k]
    BY <1>1, <1>2
  <1>3. CASE Enqueue(t) /\ job'[k] = [attempt |-> frame[t].seen, state |-> "queued",
                                     error |-> "none"]
    <2>1. frame[t].seen # 0
      BY <1>3, ConstantsOK DEF AttemptInv, Enqueue, At, TypeOK
    <2>. QED
      BY <1>3, <2>1 DEF WellFormed
  <1>4. CASE k = frame[t].key /\ frame[t].pc \in {"recover", "drop", "mark", "commit"}
    <2>1. CASE Recover(t) \/ Commit(t)
      <3>1. \E s \in TerminalStates, e \in Errors : EndJob(t, s, e)
        BY <2>1 DEF Recover, Commit, TerminalStates, Errors
      <3>2. \/ job'[k] = job[k]
            \/ \E s \in TerminalStates, e \in Errors :
                   job'[k] = [job[k] EXCEPT !.state = s, !.error = e] /\ job[k] # NoJob
        BY <1>1, <1>4, <3>1 DEF EndJob, Raise
      <3>. QED
        BY <1>1, <3>2 DEF WellFormed, Row, TerminalStates
    <2>2. CASE Mark(t)
      BY <1>1, <1>4, <2>2 DEF Mark, WellFormed, Row
    <2>3. CASE Drop(t)
      BY <1>1, <1>4, <2>3 DEF Drop, WellFormed, NoJob
    <2>4. CASE ~(Recover(t) \/ Commit(t) \/ Mark(t) \/ Drop(t))
      BY <1>2, <1>4, <2>4 DEF Step, Execute, TryLock, Inspect, Start, Refresh, Report,
         Release, Handle, Enqueue, Accepted, Poll, Snapshot, DbError, At
    <2>. QED
      BY <2>1, <2>2, <2>3, <2>4
  <1>. QED
    BY <1>2, <1>3, <1>4, RowsStay

(* Every step keeps what threads have read of their rows true. *)
LEMMA RowStep ==
  TypeOK /\ LockInv /\ RowInv /\ AttemptInv /\ [Next]_vars => RowInv'
  <1> SUFFICES ASSUME TypeOK, LockInv, RowInv, AttemptInv, [Next]_vars PROVE RowInv'
    OBVIOUS
  <1>1. frame \in [Threads -> Frame] /\ job \in [Keys -> Row]
    BY DEF TypeOK
  <1>2. CASE \E t \in Threads : Step(t) \/ DbError(t)
    BY <1>2, WellFormedThread, RowOfOthers, RowOfSelf DEF RowInv
  <1>3. CASE \E c \in SyncCalls \cup AsyncCalls, k \in Keys : Submit(c, k)
    <2>1. PICK c \in SyncCalls \cup AsyncCalls, k \in Keys : Submit(c, k)
      BY <1>3
    <2>2. c \in Threads /\ job' = job /\ modsets' = modsets
      BY <2>1 DEF Threads, Submit, modVars
    <2>3. frame' = [frame EXCEPT ![c] =
                     [frame[c] EXCEPT !.pc = "enqueue", !.key = k, !.seen = issued + 1]]
      BY <2>1 DEF Submit
    <2>4. /\ frame'[c].pc = "enqueue"
          /\ \A d \in Threads \ {c} : frame'[d] = frame[d]
      BY <1>1, <2>2, <2>3 DEF Frame
    <2>. QED
      BY <2>2, <2>4 DEF RowInv, RowOf, Gone, Reading
  <1>4. CASE \E p \in Procs : Crash(p)
    BY <1>1, <1>4 DEF Crash, RowInv, RowOf, Gone, Reading, AtRest, modVars
  <1>5. CASE \E m \in Modsets : DeleteModset(m)
    <2>1. PICK m \in Modsets : DeleteModset(m)
      BY <1>5
    <2>2. /\ frame' = frame /\ modsets' = modsets \ {m}
          /\ \A k \in Keys : job'[k] = IF k[1] = m THEN NoJob ELSE job[k]
      BY <2>1 DEF DeleteModset
    <2>3. WellFormed(NoJob)
      BY DEF WellFormed, NoJob
    <2>4. \A t \in Threads : frame[t].key \in Keys
      BY <1>1 DEF Frame
    <2>. QED
      BY <2>2, <2>3, <2>4 DEF RowInv, RowOf, Gone
  <1>6. CASE \/ \E k \in Keys : Track(k) \/ Untrack(k) \/ EditVersion(k)
             \/ \E p \in Procs : Restart(p)
             \/ UNCHANGED vars
    <2>1. frame' = frame /\ job' = job /\ modsets' = modsets
      BY <1>6 DEF Track, Untrack, EditVersion, Restart, vars, modVars
    <2>. QED
      BY <2>1 DEF RowInv, RowOf, Gone
  <1>. QED
    BY <1>2, <1>3, <1>4, <1>5, <1>6 DEF Next

(* Locks, rows and ids start out consistent. *)
LEMMA InitRows == Init => LockInv /\ RowInv /\ AttemptInv
  <1> SUFFICES ASSUME Init PROVE LockInv /\ RowInv /\ AttemptInv
    OBVIOUS
  <1>1. \A t \in Threads : frame[t].pc = "idle"
    BY DEF Init, AtRest
  <1>2. \A k \in Keys : job[k] = NoJob
    BY DEF Init
  <1>3. LockInv
    BY <1>1 DEF LockInv, Holding, Locked
  <1>4. RowInv
    BY <1>1, <1>2 DEF RowInv, RowOf, Reading, WellFormed, NoJob
  <1>5. AttemptInv
    BY <1>1, <1>2 DEF AttemptInv, At, NoJob, Init
  <1>. QED
    BY <1>3, <1>4, <1>5

(* Locks, rows and ids keep their invariants in every behaviour. *)
THEOREM RowsCorrect == Spec => [](TypeOK /\ LockInv /\ RowInv /\ AttemptInv)
  <1> DEFINE I == TypeOK /\ LockInv /\ RowInv /\ AttemptInv
  <1>1. Init => I
    BY InitType, InitRows
  <1>2. I /\ [Next]_vars => I'
    <2>1. [Next]_vars => [LossyNext]_vars
      BY DEF LossyNext
    <2>. QED
      BY <2>1, StepType, LockStep, RowStep, AttemptStep
  <1>. QED
    BY <1>1, <1>2, PTL DEF Spec

(* A check that is being executed is nobody else's: its row is running and *)
(* shows its attempt until it reports, or the modset is gone.              *)
THEOREM ChecksProtected == Spec => []ActiveCheckProtected
  <1>1. TypeOK /\ RowInv => ActiveCheckProtected
    BY DEF ActiveCheckProtected, Executing, RowInv, RowOf, Gone, Reading, Expected
  <1>. QED
    BY <1>1, RowsCorrect, PTL

(* No two threads execute a check of the same modset and mod. *)
THEOREM ChecksExclusive == Spec => []ExclusiveExecution
  <1>1. LockInv => ExclusiveExecution
    BY DEF ExclusiveExecution, Executing, LockInv, Holding, Locked
  <1>. QED
    BY <1>1, RowsCorrect, PTL
-----------------------------------------------------------------------------
(* Each attempt is checked once and audited once. *)

(* A check is about to begin only because its row has just been marked. *)
LEMMA NoNewStart ==
  ASSUME TypeOK, NEW t \in Threads, Step(t) \/ DbError(t), ~Mark(t)
  PROVE  frame'[t].pc # "start"
  <1>1. frame \in [Threads -> Frame] /\ frame[t] \in Frame
    BY DEF TypeOK
  <1>2. CASE DbError(t)
    BY <1>1, <1>2 DEF DbError, Raise, Frame
  <1>3. CASE frame[t].pc \notin Locked \ {"release"} /\ ~DbError(t)
    <2>1. frame'[t].pc \in Locked => frame'[t].pc = "inspect"
      BY <1>1, <1>3, Entering DEF Frame
    <2>. QED
      BY <2>1 DEF Locked
  <1>4. CASE Inspect(t)
    BY <1>1, <1>4 DEF Inspect, Frame
  <1>5. CASE Recover(t) \/ Drop(t) \/ Commit(t)
    <2>1. Goto(t, "release") \/ Raise(t)
      BY <1>5 DEF Recover, Drop, Commit, EndJob
    <2>. QED
      BY <1>1, <2>1 DEF Goto, Raise, Frame
  <1>6. CASE Start(t)
    BY <1>1, <1>6 DEF Start, Raise, Frame
  <1>7. CASE Refresh(t) \/ Report(t)
    BY <1>1, <1>7 DEF Refresh, Report, Goto, Frame
  <1>8. frame[t].pc \in Locked \ {"release"} /\ ~DbError(t) =>
            ~(Handle(t) \/ Snapshot(t) \/ TryLock(t) \/ Release(t))
    BY DEF Handle, Enqueue, Accepted, Poll, Snapshot, TryLock, Release, At, Locked
  <1>. QED
    BY <1>2, <1>3, <1>4, <1>5, <1>6, <1>7, <1>8 DEF Step, Execute

(* Rows that stay or vanish leave the history as it is. *)
LEMMA HistoryKept ==
  ASSUME HistoryInv, issued' = issued, audits' = audits, started' = started,
         \A k \in Keys : job'[k] \in {job[k], NoJob},
         \A t \in Threads : frame[t].key \in Keys,
         \A t \in Threads : At(t, "enqueue")' \/ At(t, "start")' => frame'[t] = frame[t]
  PROVE  HistoryInv'
  <1>1. NoJob.state = "none"
    BY DEF NoJob
  <1>2. \A a \in Attempts : Fresh(a)' <=> Fresh(a)
    BY DEF Fresh
  <1>3. /\ \A c \in Threads : RequestOf(c)'
        /\ \A t \in Threads : StartOf(t)'
    BY <1>1 DEF HistoryInv, RequestOf, StartOf, Fresh, At
  <1>4. \A k \in Keys : HistoryOf(k)'
    BY <1>1 DEF HistoryInv, HistoryOf, Fresh, TerminalStates
  <1>. QED
    BY <1>2, <1>3, <1>4 DEF HistoryInv

(* A request opens an attempt that has no history. *)
LEMMA HistoryEnqueue ==
  ASSUME TypeOK, HistoryInv, NEW t \in Threads, Enqueue(t)
  PROVE  HistoryInv'
  <1> DEFINE k == frame[t].key
             r == [attempt |-> frame[t].seen, state |-> "queued", error |-> "none"]
  <1>1. /\ job \in [Keys -> Row] /\ frame \in [Threads -> Frame]
        /\ \A u \in Threads : frame[u].key \in Keys
    BY DEF TypeOK, Frame
  <1>2. /\ issued' = issued /\ audits' = audits /\ started' = started
        /\ At(t, "enqueue") /\ Fresh(frame[t].seen)
    BY DEF Enqueue, counters, HistoryInv, RequestOf
  <1>3. \A u \in Threads : At(u, "enqueue")' \/ At(u, "start")' => frame'[u] = frame[u]
    BY <1>1 DEF Enqueue, Goto, At, Frame
  <1>4. CASE job' = job
    BY <1>1, <1>2, <1>3, <1>4, HistoryKept
  <1>5. CASE job' # job
    <2>1. job' = [job EXCEPT ![k] = r]
      BY <1>5 DEF Enqueue
    <2>2. /\ job'[k].state = "queued" /\ job'[k].attempt = frame[t].seen
          /\ \A l \in Keys \ {k} : job'[l] = job[l]
      BY <1>1, <2>1
    <2>3. \A l \in Keys : HistoryOf(l)'
      BY <1>1, <1>2, <2>2 DEF HistoryInv, HistoryOf, Fresh, TerminalStates
    <2>4. \A u \in Threads : StartOf(u)'
      BY <1>1, <1>2, <1>3, <2>2 DEF HistoryInv, StartOf, At
    <2>5. \A c \in Threads : RequestOf(c)'
      BY <1>2, <1>3 DEF HistoryInv, RequestOf, At, Fresh
    <2>. QED
      BY <1>2, <2>3, <2>4, <2>5 DEF HistoryInv, Fresh
  <1>. QED
    BY <1>4, <1>5

(* Marking a row running only takes place before any start of it. *)
LEMMA HistoryMark ==
  ASSUME TypeOK, LockInv, RowInv, HistoryInv, NEW t \in Threads, Mark(t)
  PROVE  HistoryInv'
  <1> DEFINE k == frame[t].key
  <1>1. /\ job \in [Keys -> Row] /\ frame \in [Threads -> Frame]
        /\ \A u \in Threads : frame[u].key \in Keys
    BY DEF TypeOK, Frame
  <1>2. issued' = issued /\ audits' = audits /\ started' = started /\ At(t, "mark")
    BY DEF Mark, counters
  <1>3. CASE job[k] = NoJob
    <2>1. frame'[t].pc = "release" /\ \A u \in Threads \ {t} : frame'[u] = frame[u]
      BY <1>1, <1>3 DEF Mark, Raise, Frame
    <2>. QED
      BY <1>1, <1>2, <1>3, <2>1, HistoryKept DEF At, Mark
  <1>4. CASE job[k] # NoJob
    <2>1. /\ frame' = [frame EXCEPT ![t] = [frame[t] EXCEPT !.pc = "start"]]
          /\ job' = [job EXCEPT ![k] = [job[k] EXCEPT !.state = "running"]]
      BY <1>4 DEF Mark, Goto
    <2>2. /\ frame'[t].pc = "start" /\ frame'[t].seen = frame[t].seen
          /\ frame'[t].key = k /\ \A u \in Threads \ {t} : frame'[u] = frame[u]
      BY <1>1, <2>1 DEF Frame
    <2>3. /\ job'[k].state = "running" /\ job'[k].attempt = job[k].attempt
          /\ \A l \in Keys \ {k} : job'[l] = job[l]
      BY <1>1, <2>1 DEF Row
    <2>4. job[k].state = "queued" /\ job[k].attempt = frame[t].seen
      BY <1>2, <1>4 DEF RowInv, RowOf, Gone, Reading, Expected, At
    <2>5. Fresh(frame[t].seen)
      BY <1>1, <2>4 DEF HistoryInv, HistoryOf
    <2>6. \A u \in Threads \ {t} : At(u, "start") => frame[u].key # k
      BY <1>2 DEF LockInv, Holding, Locked, At
    <2>7. \A l \in Keys : HistoryOf(l)'
      BY <1>2, <2>3, <2>4, <2>5 DEF HistoryInv, HistoryOf, Fresh, TerminalStates
    <2>8. \A u \in Threads : StartOf(u)'
      BY <1>1, <1>2, <2>2, <2>3, <2>5, <2>6 DEF HistoryInv, StartOf, Fresh, At
    <2>9. \A c \in Threads : RequestOf(c)'
      BY <1>2, <2>2 DEF HistoryInv, RequestOf, At, Fresh
    <2>. QED
      BY <1>2, <2>7, <2>8, <2>9 DEF HistoryInv, Fresh
  <1>. QED
    BY <1>3, <1>4

(* A check that begins had not begun before. *)
LEMMA HistoryStart ==
  ASSUME TypeOK, LockInv, RowInv, AttemptInv, HistoryInv, NEW t \in Threads, Start(t)
  PROVE  HistoryInv'
  <1> DEFINE k == frame[t].key
             a == job[k].attempt
  <1>1. /\ job \in [Keys -> Row] /\ frame \in [Threads -> Frame]
        /\ \A u \in Threads : frame[u].key \in Keys
    BY DEF TypeOK, Frame
  <1>2. issued' = issued /\ audits' = audits /\ job' = job /\ At(t, "start")
    BY DEF Start
  <1>3. CASE a = 0
    <2>1. frame'[t].pc = "release" /\ \A u \in Threads \ {t} : frame'[u] = frame[u]
      BY <1>1, <1>3 DEF Start, Raise, Frame
    <2>. QED
      BY <1>1, <1>2, <1>3, <2>1, HistoryKept DEF At, Start
  <1>4. CASE a # 0
    <2>1. /\ frame' = [frame EXCEPT ![t] = [frame[t] EXCEPT !.pc = "refresh", !.seen = a]]
          /\ started' = [started EXCEPT ![a] = @ + 1]
      BY <1>4 DEF Start
    <2>2. frame'[t].pc = "refresh" /\ \A u \in Threads \ {t} : frame'[u] = frame[u]
      BY <1>1, <2>1 DEF Frame
    <2>3. job[k].state = "running" /\ a = frame[t].seen
      BY <1>2, <1>4 DEF RowInv, RowOf, Gone, Reading, Expected, At, NoJob
    <2>4. a \in Attempts /\ a <= issued /\ started[a] = 0
      BY <1>1, <1>2, <1>4, <2>3, ConstantsOK DEF Row, Attempts, AttemptInv, HistoryInv, StartOf
    <2>5. started'[a] = 1 /\ \A b \in Attempts \ {a} : started'[b] = started[b]
      BY <2>1, <2>4 DEF TypeOK
    <2>6. \A l \in Keys \ {k} : job[l].attempt # a
      BY <1>1, <1>4 DEF AttemptInv
    <2>7. \A c \in Threads : At(c, "enqueue") => frame[c].seen # a
      BY <1>1 DEF AttemptInv
    <2>8. \A u \in Threads \ {t} : At(u, "start") /\ job[frame[u].key].state = "running" =>
             frame[u].seen # a
      <3> SUFFICES ASSUME NEW u \in Threads \ {t}, At(u, "start"),
                          job[frame[u].key].state = "running"
                   PROVE  frame[u].seen # a
        OBVIOUS
      <3>1. frame[u].key # k
        BY <1>2 DEF LockInv, Holding, Locked, At
      <3>2. job[frame[u].key].attempt = frame[u].seen
        BY DEF RowInv, RowOf, Gone, NoJob, Reading, At
      <3>. QED
        BY <1>1, <2>6, <3>1, <3>2
    <2>9. \A b \in Attempts : b # a => (Fresh(b)' <=> Fresh(b))
      BY <1>2, <2>5 DEF Fresh
    <2>10. \A b \in Attempts : b > issued => b # a
      BY <2>4, ConstantsOK DEF TypeOK, Attempts
    <2>11. \A c \in Threads : At(c, "enqueue") => frame[c].seen \in Attempts
      BY ConstantsOK DEF AttemptInv, TypeOK, Attempts
    <2>12. \A l \in Keys : job[l].state = "queued" => job[l].attempt \in Attempts /\ job[l].attempt # a
      BY <1>1, <2>3, <2>6, ConstantsOK DEF RowInv, WellFormed, Row, Attempts
    <2>13. \A u \in Threads : At(u, "start") /\ job[frame[u].key].state = "running" =>
              frame[u].seen \in Attempts
      BY <1>1, ConstantsOK DEF RowInv, RowOf, WellFormed, Gone, NoJob, Reading, At, Row, Attempts
    <2>14. \A b \in Attempts : started'[b] <= 1
      BY <2>5 DEF HistoryInv
    <2>15. \A l \in Keys : HistoryOf(l)'
      BY <1>2, <2>9, <2>12 DEF HistoryInv, HistoryOf
    <2>16. \A u \in Threads : StartOf(u)'
      BY <1>2, <2>2, <2>5, <2>8, <2>13 DEF HistoryInv, StartOf, At
    <2>17. \A c \in Threads : RequestOf(c)'
      BY <2>2, <2>7, <2>9, <2>11 DEF HistoryInv, RequestOf, At
    <2>. QED
      BY <1>2, <2>9, <2>10, <2>14, <2>15, <2>16, <2>17 DEF HistoryInv
  <1>. QED
    BY <1>3, <1>4

(* A result is recorded for a running attempt, which has none yet. *)
LEMMA HistoryEnd ==
  ASSUME TypeOK, LockInv, RowInv, AttemptInv, HistoryInv, NEW t \in Threads,
         Recover(t) \/ Commit(t)
  PROVE  HistoryInv'
  <1> DEFINE k == frame[t].key
             a == frame[t].seen
  <1>1. /\ job \in [Keys -> Row] /\ frame \in [Threads -> Frame]
        /\ \A u \in Threads : frame[u].key \in Keys
        /\ audits \in [Attempts -> Seq(TerminalStates)]
    BY DEF TypeOK, Frame
  <1>2. /\ issued' = issued /\ started' = started
        /\ At(t, "recover") \/ At(t, "commit")
    BY DEF Recover, Commit, counters
  <1>3. PICK s \in TerminalStates, e \in Errors : EndJob(t, s, e)
    BY DEF Recover, Commit, TerminalStates, Errors
  <1>4. frame'[t].pc = "release" /\ \A u \in Threads \ {t} : frame'[u] = frame[u]
    <2>1. Goto(t, "release") \/ Raise(t)
      BY <1>3 DEF EndJob
    <2>. QED
      BY <1>1, <2>1 DEF Goto, Raise, Frame
  <1>5. CASE ~(job[k] # NoJob /\ CanAudit(k))
    BY <1>1, <1>2, <1>3, <1>4, <1>5, HistoryKept DEF EndJob, At
  <1>6. CASE job[k] # NoJob /\ CanAudit(k)
    <2>1. /\ job' = [job EXCEPT ![k] = [job[k] EXCEPT !.state = s, !.error = e]]
          /\ audits' = [audits EXCEPT ![a] = Append(audits[a], s)]
      BY <1>3, <1>6 DEF EndJob
    <2>2. job[k].state = "running" /\ job[k].attempt = a
      BY <1>2, <1>6 DEF RowInv, RowOf, Gone, Reading, Expected, At
    <2>3. a \in Attempts /\ a <= issued /\ audits[a] = <<>>
      BY <1>1, <2>2, ConstantsOK
         DEF RowInv, WellFormed, Row, Attempts, AttemptInv, HistoryInv, HistoryOf
    <2>4. audits'[a] = <<s>> /\ \A b \in Attempts \ {a} : audits'[b] = audits[b]
      BY <1>1, <2>1, <2>3
    <2>5. /\ job'[k].state = s /\ job'[k].attempt = a
          /\ \A l \in Keys \ {k} : job'[l] = job[l] /\ job[l].attempt # a
      BY <1>1, <2>1, <2>2, <2>3 DEF Row, AttemptInv, Attempts
    <2>6. \A b \in Attempts : b # a => (Fresh(b)' <=> Fresh(b))
      BY <1>2, <2>4 DEF Fresh
    <2>7. \A l \in Keys \ {k} : job[l].state # "none" => job[l].attempt \in Attempts
      BY <1>1, ConstantsOK DEF RowInv, WellFormed, Row, Attempts
    <2>8. \A l \in Keys : HistoryOf(l)'
      <3> TAKE l \in Keys
      <3>1. CASE l = k
        BY <2>4, <2>5, <3>1 DEF HistoryOf, TerminalStates
      <3>2. CASE l # k
        BY <2>4, <2>5, <2>6, <2>7, <3>2 DEF HistoryInv, HistoryOf, TerminalStates
      <3>. QED
        BY <3>1, <3>2
    <2>9. \A u \in Threads : StartOf(u)'
      <3> SUFFICES ASSUME NEW u \in Threads \ {t}, At(u, "start") PROVE StartOf(u)'
        BY <1>4 DEF StartOf, At
      <3>1. frame[u].key # k /\ frame'[u] = frame[u]
        BY <1>2, <1>4 DEF LockInv, Holding, Locked, At
      <3>. QED
        BY <1>1, <1>2, <2>5, <3>1 DEF HistoryInv, StartOf, At
    <2>10. \A c \in Threads : RequestOf(c)'
      <3> SUFFICES ASSUME NEW c \in Threads \ {t}, At(c, "enqueue") PROVE RequestOf(c)'
        BY <1>4 DEF RequestOf, At
      <3>1. frame[c].seen # a /\ frame[c].seen \in Attempts
        BY <1>1, <2>2, ConstantsOK DEF AttemptInv, Attempts, TypeOK
      <3>. QED
        BY <1>4, <2>6, <3>1 DEF HistoryInv, RequestOf, At
    <2>11. \A b \in Attempts : Len(audits'[b]) <= 1
      <3>1. Len(<<s>>) = 1
        OBVIOUS
      <3> TAKE b \in Attempts
      <3>2. CASE b = a
        <4>1. audits'[b] = <<s>>
          BY <2>4, <3>2
        <4>2. Len(audits'[b]) = Len(<<s>>)
          BY <4>1, Zenon
        <4>. QED
          BY <3>1, <4>2
      <3>3. CASE b # a
        <4>1. audits'[b] = audits[b]
          BY <2>4, <3>3
        <4>. QED
          BY <4>1, Zenon DEF HistoryInv
      <3>. QED
        BY <3>2, <3>3
    <2>12. \A b \in Attempts : b > issued => b # a
      BY <2>3, ConstantsOK DEF TypeOK, Attempts
    <2>. QED
      BY <1>2, <2>6, <2>8, <2>9, <2>10, <2>11, <2>12 DEF HistoryInv
  <1>. QED
    BY <1>5, <1>6

(* A thread's step keeps starts and audit entries in line with rows. *)
LEMMA HistoryThread ==
  ASSUME TypeOK, LockInv, RowInv, AttemptInv, HistoryInv, NEW t \in Threads,
         Step(t) \/ DbError(t)
  PROVE  HistoryInv'
  <1>1. CASE Enqueue(t) \/ Mark(t) \/ Start(t) \/ Recover(t) \/ Commit(t)
    BY <1>1, HistoryEnqueue, HistoryMark, HistoryStart, HistoryEnd
  <1>2. CASE ~(Enqueue(t) \/ Mark(t) \/ Start(t) \/ Recover(t) \/ Commit(t))
    <2>1. /\ issued' = issued /\ audits' = audits /\ started' = started
          /\ job' = job \/ Drop(t)
      BY <1>2 DEF Step, Execute, TryLock, Inspect, Drop, Refresh, Report, Release,
                  Handle, Accepted, Poll, Snapshot, DbError, counters
    <2>2. \A k \in Keys : job'[k] \in {job[k], NoJob}
      BY <2>1 DEF Drop, TypeOK
    <2>3. \A u \in Threads : At(u, "enqueue")' \/ At(u, "start")' => frame'[u] = frame[u]
      BY <1>2, OthersStay, NoNewRequest, NoNewStart DEF At
    <2>4. \A u \in Threads : frame[u].key \in Keys
      BY DEF TypeOK, Frame
    <2>. QED
      BY <2>1, <2>2, <2>3, <2>4, HistoryKept
  <1>. QED
    BY <1>1, <1>2

(* Every step keeps starts and audit entries in line with rows. *)
LEMMA HistoryStep == IInv /\ [Next]_vars => HistoryInv'
  <1> SUFFICES ASSUME IInv, [Next]_vars PROVE HistoryInv'
    OBVIOUS
  <1> USE DEF IInv
  <1>1. /\ frame \in [Threads -> Frame] /\ issued \in Nat
        /\ \A t \in Threads : frame[t].key \in Keys
    BY ConstantsOK DEF TypeOK, Frame
  <1>2. CASE \E t \in Threads : Step(t) \/ DbError(t)
    BY <1>2, HistoryThread
  <1>3. CASE \E c \in SyncCalls \cup AsyncCalls, k \in Keys : Submit(c, k)
    <2>1. PICK c \in SyncCalls \cup AsyncCalls, k \in Keys : Submit(c, k)
      BY <1>3
    <2>2. c \in Threads /\ issued + 1 \in Attempts /\ Fresh(issued + 1)
      BY <1>1, <2>1, ConstantsOK DEF Threads, Submit, Attempts, HistoryInv, TypeOK
    <2>3. frame' = [frame EXCEPT ![c] =
                     [frame[c] EXCEPT !.pc = "enqueue", !.key = k, !.seen = issued + 1]]
      BY <2>1 DEF Submit
    <2>4. /\ frame'[c].seen = issued + 1 /\ frame'[c].pc = "enqueue"
          /\ \A d \in Threads \ {c} : frame'[d] = frame[d]
      BY <1>1, <2>2, <2>3 DEF Frame
    <2>5. issued' = issued + 1 /\ job' = job /\ audits' = audits /\ started' = started
      BY <2>1 DEF Submit
    <2>6. \A a \in Attempts : (Fresh(a)' <=> Fresh(a)) /\ (a > issued' => a > issued)
      BY <1>1, <2>5 DEF Fresh, Attempts
    <2>7. \A l \in Keys : HistoryOf(l)'
      BY <2>5 DEF HistoryInv, HistoryOf, Fresh
    <2>8. \A u \in Threads : StartOf(u)'
      BY <2>4, <2>5 DEF HistoryInv, StartOf, At
    <2>9. \A d \in Threads : RequestOf(d)'
      BY <2>2, <2>4, <2>5 DEF HistoryInv, RequestOf, Fresh, At
    <2>. QED
      BY <2>5, <2>6, <2>7, <2>8, <2>9 DEF HistoryInv
  <1>4. CASE \E p \in Procs : Crash(p)
    <2>1. /\ issued' = issued /\ job' = job /\ audits' = audits /\ started' = started
          /\ \A t \in Threads : At(t, "enqueue")' \/ At(t, "start")' => frame'[t] = frame[t]
      BY <1>1, <1>4 DEF Crash, At, AtRest
    <2>. QED
      BY <1>1, <2>1, HistoryKept
  <1>5. CASE \E m \in Modsets : DeleteModset(m)
    <2>1. /\ issued' = issued /\ audits' = audits /\ started' = started /\ frame' = frame
          /\ \A k \in Keys : job'[k] \in {job[k], NoJob}
      BY <1>5 DEF DeleteModset, counters
    <2>. QED
      BY <1>1, <2>1, HistoryKept
  <1>6. CASE \/ \E k \in Keys : Track(k) \/ Untrack(k) \/ EditVersion(k)
             \/ \E p \in Procs : Restart(p)
             \/ UNCHANGED vars
    <2>1. /\ issued' = issued /\ audits' = audits /\ started' = started
          /\ frame' = frame /\ job' = job
      BY <1>6 DEF Track, Untrack, EditVersion, Restart, counters, vars
    <2>. QED
      BY <1>1, <2>1, HistoryKept
  <1>. QED
    BY <1>2, <1>3, <1>4, <1>5, <1>6 DEF Next

(* The inductive invariant holds in every behaviour of the jobs. *)
THEOREM Correct == Spec => []IInv
  <1>1. Init => IInv
    <2>1. Init => HistoryInv
      BY DEF Init, HistoryInv, HistoryOf, RequestOf, StartOf, Fresh,
            At, AtRest, NoJob, TerminalStates
    <2>. QED
      BY <2>1, InitType, InitRows DEF IInv
  <1>2. IInv /\ [Next]_vars => IInv'
    <2>1. [Next]_vars => [LossyNext]_vars
      BY DEF LossyNext
    <2>. QED
      BY <2>1, StepType, LockStep, RowStep, AttemptStep, HistoryStep DEF IInv
  <1>. QED
    BY <1>1, <1>2, PTL DEF Spec

(* No check of an attempt is ever begun twice. *)
THEOREM NothingReplayed == Spec => []NoReplay
  <1>1. IInv => NoReplay
    BY DEF IInv, HistoryInv, NoReplay
  <1>. QED
    BY <1>1, Correct, PTL

(* The audit log holds the one result of every finished attempt. *)
THEOREM EndsAudited == Spec => []AuditTrail
  <1>1. IInv => AuditTrail
    BY DEF IInv, HistoryInv, HistoryOf, Fresh, AuditTrail, Active, ActiveStates
  <1>. QED
    BY <1>1, Correct, PTL
-----------------------------------------------------------------------------
(* The rows implement RefreshJobLifecycle.                                 *)

(* What the refinement has for the attempts used up, and being checked. *)
Opened == {a \in Attempts : a <= issued /\ ~\E c \in SyncCalls \cup AsyncCalls :
             At(c, "enqueue") /\ frame[c].seen = a}
Checking == {frame[t].seen : t \in {u \in Threads : Executing(u)}}

(* The attempt a thread has read belongs to its key, even when the row is  *)
(* gone: no other row shows it, and no request is about to write it.       *)
SeenOf(t) ==
    frame[t].pc \in Reading =>
       /\ frame[t].seen \in 1..issued
       /\ \A k \in Keys : job[k].attempt = frame[t].seen => k = frame[t].key
       /\ \A c \in Threads : At(c, "enqueue") => frame[c].seen # frame[t].seen
CallsAsk == \A c \in Threads : At(c, "enqueue") => c \in SyncCalls \cup AsyncCalls
SeenInv == CallsAsk /\ \A t \in Threads : SeenOf(t)

RInv == TypeOK /\ LockInv /\ RowInv /\ AttemptInv /\ SeenInv

(* Requests that are about to write their id stay, but for t's own. *)
LEMMA RequestsStay ==
  ASSUME TypeOK, NEW t \in Threads, Step(t) \/ DbError(t)
  PROVE  /\ issued' = issued
         /\ \A c \in Threads : At(c, "enqueue")' => c # t /\ frame'[c] = frame[c]
         /\ \A c \in Threads : At(c, "enqueue") /\ c # t => frame'[c] = frame[c]
  <1>1. issued' = issued
    BY DEF Step, Execute, TryLock, Inspect, Recover, Drop, Mark, Start, Refresh,
           Report, Commit, Release, Handle, Enqueue, Accepted, Poll, Snapshot,
           DbError, counters
  <1>. QED
    BY <1>1, OthersStay, NoNewRequest DEF At

(* Past its first reading a thread goes by the same attempt to the end. *)
LEMMA SeenStays ==
  ASSUME TypeOK, RowInv, NEW t \in Threads, Step(t) \/ DbError(t), ~Inspect(t),
         frame'[t].pc \in Reading
  PROVE  /\ frame[t].pc \in Reading
         /\ frame'[t].key = frame[t].key
         /\ frame'[t].seen = frame[t].seen
         /\ Executing(t)' => Executing(t) \/ Mark(t)
  <1> DEFINE k == frame[t].key
  <1>1. /\ frame \in [Threads -> Frame] /\ frame[t] \in Frame
        /\ k \in Keys /\ RowOf(t)
    BY DEF TypeOK, Frame, RowInv
  <1> USE DEF Reading, Executing
  <1>2. CASE DbError(t)
    BY <1>1, <1>2 DEF DbError, Raise, Frame
  <1>3. CASE frame[t].pc \notin Locked \ {"release"} /\ ~DbError(t)
    <2>1. frame'[t].pc \in Locked => frame'[t].pc = "inspect"
      BY <1>1, <1>3, Entering DEF Frame
    <2>. QED
      BY <2>1 DEF Locked
  <1>4. CASE Recover(t) \/ Drop(t) \/ Commit(t)
    <2>1. Goto(t, "release") \/ Raise(t)
      BY <1>4 DEF Recover, Drop, Commit, EndJob
    <2>. QED
      BY <1>1, <2>1 DEF Goto, Raise, Frame
  <1>5. CASE Mark(t)
    BY <1>1, <1>5 DEF Mark, Goto, Raise, At, Frame
  <1>6. CASE Start(t)
    <2>1. CASE job[k].attempt # 0
      <3>1. job[k].attempt = frame[t].seen /\ frame[t].pc = "start"
        BY <1>1, <1>6, <2>1 DEF Start, At, RowOf, Gone, NoJob
      <3>. QED
        BY <1>1, <1>6, <2>1, <3>1 DEF Start, Frame
    <2>2. CASE job[k].attempt = 0
      BY <1>1, <1>6, <2>2 DEF Start, Raise, Frame
    <2>. QED
      BY <2>1, <2>2
  <1>7. CASE Refresh(t)
    BY <1>1, <1>7 DEF Refresh, At, Frame
  <1>8. CASE Report(t)
    BY <1>1, <1>8 DEF Report, Goto, At, Frame
  <1>9. frame[t].pc \in Locked \ {"release"} /\ ~DbError(t) =>
            ~(Handle(t) \/ Snapshot(t) \/ TryLock(t) \/ Release(t))
    BY DEF Handle, Enqueue, Accepted, Poll, Snapshot, TryLock, Release, At, Locked
  <1>. QED
    BY <1>2, <1>3, <1>4, <1>5, <1>6, <1>7, <1>8, <1>9 DEF Step, Execute

(* A thread's step shows no attempt in another row, but the one it opens. *)
LEMMA AttemptsMove ==
  ASSUME TypeOK, NEW t \in Threads, Step(t) \/ DbError(t), NEW k \in Keys
  PROVE  \/ job'[k].attempt \in {job[k].attempt, 0}
         \/ k = frame[t].key /\ At(t, "enqueue") /\ job'[k].attempt = frame[t].seen
  <1>1. job \in [Keys -> Row] /\ job[k] \in Row /\ frame[t].key \in Keys
    BY DEF TypeOK, Frame
  <1>2. CASE Enqueue(t)
    BY <1>1, <1>2 DEF Enqueue
  <1>3. CASE Recover(t)
    BY <1>1, <1>3 DEF Recover, EndJob, Row
  <1>4. CASE Commit(t)
    BY <1>1, <1>4 DEF Commit, EndJob, Row
  <1>5. CASE Mark(t)
    BY <1>1, <1>5 DEF Mark, Row
  <1>6. CASE Drop(t)
    BY <1>1, <1>6 DEF Drop, NoJob
  <1>7. CASE ~(Enqueue(t) \/ Recover(t) \/ Drop(t) \/ Mark(t) \/ Commit(t))
    <2>1. job' = job
      BY <1>7 DEF Step, Execute, TryLock, Inspect, Start, Refresh, Report, Release,
                  Handle, Accepted, Poll, Snapshot, DbError
    <2>. QED
      BY <2>1
  <1>. QED
    BY <1>2, <1>3, <1>4, <1>5, <1>6, <1>7

(* What a thread has read stays its key's, whoever takes a step. *)
LEMMA SeenThread ==
  ASSUME TypeOK, RowInv, AttemptInv, SeenInv, NEW t \in Threads, Step(t) \/ DbError(t)
  PROVE  SeenInv'
  <1>1. /\ frame \in [Threads -> Frame] /\ frame[t] \in Frame /\ issued \in Nat
        /\ frame[t].key \in Keys /\ job[frame[t].key] \in Row
    BY ConstantsOK DEF TypeOK, Frame
  <1>2. /\ issued' = issued
        /\ \A c \in Threads : At(c, "enqueue")' => c # t /\ frame'[c] = frame[c]
    BY RequestsStay
  <1>3. CallsAsk'
    BY <1>2 DEF SeenInv, CallsAsk, At
  (* Who has read its attempt before. *)
  <1>4. ASSUME NEW u \in Threads, frame[u].pc \in Reading, frame'[u].pc \in Reading,
               frame'[u].key = frame[u].key, frame'[u].seen = frame[u].seen
        PROVE  SeenOf(u)'
    <2>1. /\ frame[u].seen \in 1..issued
          /\ \A k \in Keys : job[k].attempt = frame[u].seen => k = frame[u].key
          /\ \A c \in Threads : At(c, "enqueue") => frame[c].seen # frame[u].seen
      BY <1>4 DEF SeenInv, SeenOf
    <2>2. \A k \in Keys : job'[k].attempt = frame[u].seen => k = frame[u].key
      BY <1>1, <2>1, AttemptsMove
    <2>3. \A c \in Threads : At(c, "enqueue")' => frame'[c].seen # frame[u].seen
      BY <1>2, <2>1 DEF At
    <2>. QED
      BY <1>2, <1>4, <2>1, <2>2, <2>3 DEF SeenOf
  <1>5. ASSUME NEW u \in Threads, u # t, frame'[u].pc \in Reading PROVE SeenOf(u)'
    BY <1>4, <1>5, OthersStay
  <1>6. CASE Inspect(t)
    <2> DEFINE k == frame[t].key
    <2> SUFFICES ASSUME frame'[t].pc \in Reading PROVE SeenOf(t)'
      BY <1>3, <1>5 DEF SeenInv, SeenOf
    <2>1. /\ frame'[t].seen = job[k].attempt /\ frame'[t].key = k /\ job' = job
          /\ job[k].state \in {"running", "queued"}
      BY <1>1, <1>6 DEF Inspect, Reading, Frame
    <2>2. job[k].attempt # 0 /\ job[k].attempt \in Nat
      BY <1>1, <2>1, ConstantsOK DEF RowInv, WellFormed, Row
    <2>3. /\ job[k].attempt \in 1..issued
          /\ \A l \in Keys : job[l].attempt = job[k].attempt => l = k
          /\ \A c \in Threads : At(c, "enqueue") => frame[c].seen # job[k].attempt
      BY <1>1, <2>2 DEF AttemptInv
    <2>4. \A c \in Threads : At(c, "enqueue")' => frame'[c].seen # job[k].attempt
      BY <1>2, <2>3 DEF At
    <2>. QED
      BY <1>2, <2>1, <2>3, <2>4 DEF SeenOf
  <1>7. CASE ~Inspect(t)
    <2>1. frame'[t].pc \in Reading => SeenOf(t)'
      BY <1>4, <1>7, SeenStays
    <2>. QED
      BY <1>3, <1>5, <2>1 DEF SeenInv, SeenOf
  <1>. QED
    BY <1>6, <1>7

(* Requests, failures and other users do not touch what threads have read. *)
LEMMA SeenStep ==
  TypeOK /\ RowInv /\ AttemptInv /\ SeenInv /\ [Next]_vars => SeenInv'
  <1> SUFFICES ASSUME TypeOK, RowInv, AttemptInv, SeenInv, [Next]_vars PROVE SeenInv'
    OBVIOUS
  <1>1. frame \in [Threads -> Frame] /\ issued \in Nat
    BY ConstantsOK DEF TypeOK
  <1>2. CASE \E t \in Threads : Step(t) \/ DbError(t)
    BY <1>2, SeenThread
  <1>3. CASE \E c \in SyncCalls \cup AsyncCalls, k \in Keys : Submit(c, k)
    <2>1. PICK c \in SyncCalls \cup AsyncCalls, k \in Keys : Submit(c, k)
      BY <1>3
    <2>2. c \in Threads /\ job' = job /\ issued' = issued + 1
      BY <2>1 DEF Threads, Submit
    <2>3. frame' = [frame EXCEPT ![c] =
                     [frame[c] EXCEPT !.pc = "enqueue", !.key = k, !.seen = issued + 1]]
      BY <2>1 DEF Submit
    <2>4. /\ frame'[c].pc = "enqueue" /\ frame'[c].seen = issued + 1
          /\ \A d \in Threads \ {c} : frame'[d] = frame[d]
      BY <1>1, <2>2, <2>3 DEF Frame
    <2>5. CallsAsk'
      BY <2>1, <2>4 DEF SeenInv, CallsAsk, At
    <2>6. ASSUME NEW u \in Threads, frame'[u].pc \in Reading PROVE SeenOf(u)'
      <3>1. u # c /\ frame'[u] = frame[u]
        BY <2>4, <2>6 DEF Reading
      <3>2. /\ frame[u].seen \in 1..issued
            /\ \A l \in Keys : job[l].attempt = frame[u].seen => l = frame[u].key
            /\ \A d \in Threads : At(d, "enqueue") => frame[d].seen # frame[u].seen
        BY <2>6, <3>1 DEF SeenInv, SeenOf
      <3>3. \A d \in Threads : At(d, "enqueue")' => frame'[d].seen # frame[u].seen
        BY <1>1, <2>4, <3>2 DEF At
      <3>4. frame[u].seen \in 1..issued'
        BY <1>1, <2>2, <3>2
      <3>. QED
        BY <2>2, <3>1, <3>2, <3>3, <3>4 DEF SeenOf
    <2>. QED
      BY <2>5, <2>6 DEF SeenInv, SeenOf
  <1>4. CASE \E p \in Procs : Crash(p)
    <2>1. /\ issued' = issued /\ job' = job
          /\ \A c \in Threads : frame'[c] = frame[c] \/ frame'[c].pc = "idle"
      BY <1>1, <1>4 DEF Crash, AtRest
    <2>. QED
      BY <2>1 DEF SeenInv, SeenOf, CallsAsk, At, Reading
  <1>5. CASE \E m \in Modsets : DeleteModset(m)
    <2>1. /\ issued' = issued /\ frame' = frame
          /\ \A k \in Keys : job'[k] = job[k] \/ job'[k].attempt = 0
      BY <1>5 DEF DeleteModset, NoJob, counters
    <2>. QED
      BY <2>1 DEF SeenInv, SeenOf, CallsAsk, At
  <1>6. CASE \/ \E k \in Keys : Track(k) \/ Untrack(k) \/ EditVersion(k)
             \/ \E p \in Procs : Restart(p)
             \/ UNCHANGED vars
    <2>1. issued' = issued /\ frame' = frame /\ job' = job
      BY <1>6 DEF Track, Untrack, EditVersion, Restart, counters, vars
    <2>. QED
      BY <2>1 DEF SeenInv, SeenOf, CallsAsk, At
  <1>. QED
    BY <1>2, <1>3, <1>4, <1>5, <1>6 DEF Next

(* Whatever leaves rows and audit entries alone only draws ids or stops    *)
(* checks.                                                                 *)
LEMMA Abandons ==
  ASSUME job' = job, audits' = audits, Opened \subseteq Opened', Checking' \subseteq Checking
  PROVE  Lifecycle!Next
  <1>1. Checking' = Checking \ (Checking \ Checking')
    OBVIOUS
  <1>2. Opened' = Opened \cup Opened' /\ Opened' \subseteq Attempts
    BY DEF Opened, Attempts
  <1>3. Lifecycle!Abandon
    BY <1>1, <1>2 DEF Lifecycle!Abandon, Opened, Checking
  <1>. QED
    BY <1>3 DEF Lifecycle!Next

(* Of the ids used up and the checks a thread's step changes only its own. *)
LEMMA ViewsMove ==
  ASSUME TypeOK, RowInv, NEW t \in Threads, Step(t) \/ DbError(t)
  PROVE  /\ Opened \subseteq Opened'
         /\ ~At(t, "enqueue") => Opened' = Opened
         /\ ~Mark(t) => Checking' \subseteq Checking
         /\ ~Executing(t) /\ ~Executing(t)' => Checking' = Checking
  <1>1. /\ issued' = issued
        /\ \A c \in Threads : At(c, "enqueue")' => c # t /\ frame'[c] = frame[c]
        /\ \A c \in Threads : At(c, "enqueue") /\ c # t => frame'[c] = frame[c]
    BY RequestsStay
  <1>2. \A u \in Threads \ {t} : frame'[u] = frame[u]
    BY OthersStay
  <1>3. Opened \subseteq Opened' /\ (~At(t, "enqueue") => Opened' = Opened)
    BY <1>1 DEF Opened, At, Threads
  <1>4. ~Mark(t) /\ Executing(t)' => Executing(t) /\ frame'[t].seen = frame[t].seen
    <2>1. ~Mark(t) /\ Executing(t)' => ~Inspect(t)
      BY DEF Inspect, Executing, TypeOK, Frame
    <2>. QED
      BY <2>1, SeenStays DEF Executing, Reading
  <1>5. ~Mark(t) => Checking' \subseteq Checking
    BY <1>2, <1>4 DEF Checking, Executing
  <1>6. ~Executing(t) /\ ~Executing(t)' => Checking' = Checking
    BY <1>2 DEF Checking, Executing
  <1>. QED
    BY <1>3, <1>5, <1>6

(* No other thread executes the check of the attempt of a row whose lock a *)
(* thread holds.                                                           *)
LEMMA OneCheck ==
  ASSUME TypeOK, LockInv, SeenInv, NEW t \in Threads, Holding(t),
         NEW u \in Threads, Executing(u), frame[u].seen = job[frame[t].key].attempt
  PROVE  u = t
  <1>1. frame[t].key \in Keys
    BY DEF TypeOK, Frame
  <1>2. frame[t].key = frame[u].key
    BY <1>1 DEF SeenInv, SeenOf, Executing, Reading
  <1>. QED
    BY <1>2 DEF LockInv, Holding, Executing, Locked

(* The row and the audit entry of an attempt end together. *)
LEMMA Ends ==
  ASSUME TypeOK, RowInv, NEW t \in Threads, frame[t].pc \in {"recover", "commit"},
         NEW st, NEW e, EndJob(t, st, e), job[frame[t].key] # NoJob,
         CanAudit(frame[t].key)
  PROVE  /\ Lifecycle!End(frame[t].key, st, e)
         /\ job[frame[t].key].state = "running"
         /\ job[frame[t].key].attempt = frame[t].seen
         /\ frame'[t].pc = "release"
  <1>1. frame \in [Threads -> Frame] /\ frame[t] \in Frame
    BY DEF TypeOK
  <1>2. /\ job[frame[t].key].state = "running"
        /\ job[frame[t].key].attempt = frame[t].seen
    BY DEF RowInv, RowOf, Reading, Expected, Gone
  <1>3. Lifecycle!End(frame[t].key, st, e)
    BY <1>2 DEF EndJob, Lifecycle!End
  <1>. QED
    BY <1>1, <1>2, <1>3 DEF EndJob, Goto, Frame

(* What happens to one row is a step of the lifecycle. *)
LEMMA RowMoves ==
  ASSUME NEW k \in Keys,
         \/ \E a \in Attempts : Lifecycle!Open(k, a)
         \/ Lifecycle!Begin(k) \/ Lifecycle!Complete(k)
         \/ Lifecycle!Interrupt(k) \/ Lifecycle!Drop(k)
  PROVE  Lifecycle!Next
  BY DEF Lifecycle!Next

(* A thread's step is a step of the lifecycle. *)
LEMMA ThreadRefines ==
  ASSUME RInv, NEW t \in Threads, Step(t) \/ DbError(t)
  PROVE  Lifecycle!Next
  <1> DEFINE k == frame[t].key
  <1>0. k \in Keys
    BY DEF RInv, TypeOK, Frame
  <1>1. /\ TypeOK /\ LockInv /\ RowInv /\ AttemptInv /\ SeenInv
        /\ frame \in [Threads -> Frame] /\ frame[t] \in Frame
        /\ k \in Keys /\ job \in [Keys -> Row] /\ RowOf(t)
    BY DEF RInv, TypeOK, Frame, RowInv
  <1>2. /\ Opened \subseteq Opened'
        /\ ~At(t, "enqueue") => Opened' = Opened
        /\ ~Mark(t) => Checking' \subseteq Checking
        /\ ~Executing(t) /\ ~Executing(t)' => Checking' = Checking
    BY <1>1, ViewsMove
  <1>3. CASE job' = job /\ audits' = audits /\ ~Mark(t)
    BY <1>2, <1>3, Abandons
  <1>4. CASE Enqueue(t) /\ job' # job
    <2> DEFINE a == frame[t].seen
    <2>1. /\ ~Active(k) /\ audits' = audits
          /\ job' = [job EXCEPT ![k] = [attempt |-> a, state |-> "queued", error |-> "none"]]
          /\ At(t, "enqueue") /\ frame' = [frame EXCEPT ![t].pc = "accepted"]
      BY <1>4 DEF Enqueue, Goto
    <2>2. frame'[t].pc = "accepted" /\ \A c \in Threads \ {t} : frame'[c] = frame[c]
      BY <1>1, <2>1 DEF Frame
    <2>3. Checking' = Checking
      BY <1>2, <2>1, <2>2 DEF Executing, At
    <2>4. /\ a \in 1..issued /\ t \in SyncCalls \cup AsyncCalls /\ a \in Attempts
          /\ \A c \in Threads : At(c, "enqueue") /\ frame[c].seen = a => c = t
      BY <1>1, <2>1, ConstantsOK DEF AttemptInv, SeenInv, CallsAsk, At, TypeOK, Attempts
    <2>5. a \notin Opened
      BY <2>1, <2>4 DEF Opened
    <2>6. Opened' = Opened \cup {a}
      <3>1. issued' = issued
        BY <1>4 DEF Enqueue, counters
      <3>. QED
        BY <2>1, <2>2, <2>4, <3>1 DEF Opened, At, Threads
    <2>7. ASSUME NEW l \in Keys, NEW b \in Attempts, l = k, b = a PROVE Lifecycle!Open(l, b)
      BY <2>7, <2>1, <2>3, <2>5, <2>6 DEF Lifecycle!Open, Lifecycle!Active, Lifecycle!Queued,
         Lifecycle!ActiveStates, Active, ActiveStates, Opened, Checking
    <2>. QED
      BY <1>0, <2>4, <2>7, RowMoves
  <1>5. CASE Mark(t) /\ job[k] # NoJob
    <2>1. job[k].state = "queued" /\ job[k].attempt = frame[t].seen
      BY <1>1, <1>5 DEF Mark, At, RowOf, Reading, Expected, Gone
    <2>2. /\ job' = [job EXCEPT ![k].state = "running"] /\ audits' = audits
          /\ frame' = [frame EXCEPT ![t].pc = "start"] /\ At(t, "mark")
      BY <1>5 DEF Mark, Goto
    <2>3. /\ frame'[t].pc = "start" /\ frame'[t].seen = frame[t].seen
          /\ \A c \in Threads \ {t} : frame'[c] = frame[c]
      BY <1>1, <2>2 DEF Frame
    <2>4. Opened' = Opened
      BY <1>2, <2>2 DEF At
    <2>5. Checking' = Checking \cup {job[k].attempt}
      BY <2>1, <2>2, <2>3 DEF Checking, Executing, At
    <2>6. ASSUME NEW l \in Keys, l = k PROVE Lifecycle!Begin(l)
      BY <2>6, <2>1, <2>2, <2>4, <2>5 DEF Lifecycle!Begin, Opened, Checking
    <2>. QED
      BY <1>0, <2>6, RowMoves
  <1>6. CASE Mark(t) /\ job[k] = NoJob
    <2>1. /\ job' = job /\ audits' = audits /\ frame'[t].pc = "release" /\ At(t, "mark")
      BY <1>1, <1>6 DEF Mark, Raise, Frame
    <2>2. Checking' = Checking
      BY <1>2, <2>1 DEF Executing, At
    <2>. QED
      BY <1>2, <2>1, <2>2, Abandons
  <1>7. CASE Drop(t)
    <2>1. /\ job' = [job EXCEPT ![k] = NoJob] /\ audits' = audits
          /\ At(t, "drop") /\ frame'[t].pc = "release"
      BY <1>1, <1>7 DEF Drop, Goto, Frame
    <2>2. Opened' = Opened /\ Checking' = Checking
      BY <1>2, <2>1 DEF At, Executing
    <2>3. CASE job[k] = NoJob
      <3>1. job' = job
        BY <1>1, <2>1, <2>3
      <3>. QED
        BY <2>1, <2>2, <3>1, Abandons
    <2>4. CASE job[k] # NoJob
      <3>1. job[k].state = "queued"
        BY <1>1, <2>1, <2>4 DEF At, RowOf, Reading, Expected, Gone
      <3>2. ASSUME NEW l \in Keys, l = k PROVE Lifecycle!Drop(l)
        BY <3>2, <2>1, <2>2, <3>1 DEF Lifecycle!Drop, Lifecycle!NoJob, NoJob, Opened, Checking
      <3>. QED
        BY <1>0, <3>2, RowMoves
    <2>. QED
      BY <2>3, <2>4
  <1>8. CASE Recover(t) /\ ~(job' = job /\ audits' = audits)
    <2>1. /\ EndJob(t, "failed", "interrupted") /\ At(t, "recover")
          /\ job[k] # NoJob /\ CanAudit(k)
      BY <1>8 DEF Recover, EndJob
    <2>2. /\ Lifecycle!End(k, "failed", "interrupted") /\ frame'[t].pc = "release"
          /\ job[k].state = "running" /\ job[k].attempt = frame[t].seen
      BY <1>1, <2>1, Ends DEF At
    <2>3. Opened' = Opened /\ Checking' = Checking
      BY <1>2, <2>1, <2>2 DEF At, Executing
    <2>4. job[k].attempt \notin Checking
      BY <1>1, <2>1, OneCheck DEF Checking, Holding, Locked, At, Executing
    <2>5. ASSUME NEW l \in Keys, l = k PROVE Lifecycle!Interrupt(l)
      BY <2>5, <2>2, <2>3, <2>4 DEF Lifecycle!Interrupt, Opened, Checking
    <2>. QED
      BY <1>0, <2>5, RowMoves
  <1>9. CASE Commit(t) /\ ~(job' = job /\ audits' = audits)
    <2>1. /\ EndJob(t, "succeeded", "none") \/ EndJob(t, "failed", "check")
          /\ At(t, "commit") /\ job[k] # NoJob /\ CanAudit(k)
      BY <1>9 DEF Commit, EndJob
    <2>2. /\ Lifecycle!End(k, "succeeded", "none") \/ Lifecycle!End(k, "failed", "check")
          /\ frame'[t].pc = "release"
          /\ job[k].state = "running" /\ job[k].attempt = frame[t].seen
      BY <1>1, <2>1, Ends DEF At
    <2>3. Opened' = Opened
      BY <1>2, <2>1 DEF At
    <2>4. \A u \in Threads \ {t} : frame'[u] = frame[u]
      BY <1>1, OthersStay
    <2>5. \A u \in Threads : Executing(u) /\ frame[u].seen = job[k].attempt => u = t
      BY <1>1, <2>1, OneCheck DEF Holding, Locked, At
    <2>6. job[k].attempt \in Checking /\ Checking' = Checking \ {job[k].attempt}
      BY <2>1, <2>2, <2>4, <2>5 DEF Checking, Executing, At
    <2>7. ASSUME NEW l \in Keys, l = k PROVE Lifecycle!Complete(l)
      BY <2>7, <2>2, <2>3, <2>6 DEF Lifecycle!Complete, Opened, Checking
    <2>. QED
      BY <1>0, <2>7, RowMoves
  <1>10. \/ job' = job /\ audits' = audits
         \/ Enqueue(t) \/ Recover(t) \/ Drop(t) \/ Mark(t) \/ Commit(t)
    BY DEF Step, Execute, TryLock, Inspect, Start, Refresh, Report, Release,
           Handle, Accepted, Poll, Snapshot, DbError
  <1>11. Enqueue(t) => audits' = audits
    BY DEF Enqueue
  <1>12. ~(Mark(t) /\ (Enqueue(t) \/ Recover(t) \/ Commit(t)))
    BY DEF Mark, Enqueue, Recover, Commit, At
  <1>. QED
    BY <1>3, <1>4, <1>5, <1>6, <1>7, <1>8, <1>9, <1>10, <1>11, <1>12

(* Every step of the jobs is one of the lifecycle. *)
LEMMA NextRefines == RInv /\ [Next]_vars => Lifecycle!Next
  <1> SUFFICES ASSUME RInv, [Next]_vars PROVE Lifecycle!Next
    OBVIOUS
  <1>1. frame \in [Threads -> Frame] /\ issued \in Nat /\ job \in [Keys -> Row]
    BY ConstantsOK DEF RInv, TypeOK
  <1>2. CASE \E t \in Threads : Step(t) \/ DbError(t)
    BY <1>2, ThreadRefines
  <1>3. CASE \E c \in SyncCalls \cup AsyncCalls, k \in Keys : Submit(c, k)
    <2>1. PICK c \in SyncCalls \cup AsyncCalls, k \in Keys : Submit(c, k)
      BY <1>3
    <2>2. /\ c \in Threads /\ job' = job /\ audits' = audits /\ issued' = issued + 1
          /\ At(c, "idle")
          /\ frame' = [frame EXCEPT ![c] =
                     [frame[c] EXCEPT !.pc = "enqueue", !.key = k, !.seen = issued + 1]]
      BY <2>1 DEF Threads, Submit
    <2>3. /\ frame'[c].pc = "enqueue" /\ frame'[c].seen = issued + 1
          /\ \A d \in Threads \ {c} : frame'[d] = frame[d]
      BY <1>1, <2>2 DEF Frame
    <2>4. Opened \subseteq Opened'
      BY <1>1, <2>2, <2>3 DEF Opened, At, Threads, Attempts
    <2>5. Checking' \subseteq Checking
      BY <2>3 DEF Checking, Executing
    <2>. QED
      BY <2>2, <2>4, <2>5, Abandons
  <1>4. CASE \E p \in Procs : Crash(p)
    <2>1. /\ issued' = issued /\ job' = job /\ audits' = audits
          /\ \A c \in Threads : frame'[c] = frame[c] \/ frame'[c].pc = "idle"
      BY <1>1, <1>4 DEF Crash, AtRest
    <2>2. Opened \subseteq Opened'
      BY <2>1 DEF Opened, At, Threads
    <2>3. Checking' \subseteq Checking
      BY <2>1 DEF Checking, Executing
    <2>. QED
      BY <2>1, <2>2, <2>3, Abandons
  <1>5. CASE \E m \in Modsets : DeleteModset(m)
    <2>1. PICK m \in Modsets : DeleteModset(m)
      BY <1>5
    <2>2. /\ job' = [k \in Keys |-> IF k[1] = m THEN NoJob ELSE job[k]]
          /\ audits' = audits /\ issued' = issued /\ frame' = frame
      BY <2>1 DEF DeleteModset, counters
    <2>3. Opened' = Opened /\ Checking' = Checking
      BY <2>2 DEF Opened, Checking, At, Executing
    <2>4. Lifecycle!DropModset(m)
      BY <2>2, <2>3 DEF Lifecycle!DropModset, Lifecycle!NoJob, NoJob, Opened, Checking
    <2>5. PICK n \in Mods : <<m, n>> \in Keys
      BY ConstantsOK DEF Keys
    <2>6. m \in {k[1] : k \in Keys}
      <3>1. <<m, n>>[1] = m
        OBVIOUS
      <3>. QED
        BY <2>5, <3>1
    <2>. QED
      BY <2>4, <2>6 DEF Lifecycle!Next
  <1>6. CASE \/ \E k \in Keys : Track(k) \/ Untrack(k) \/ EditVersion(k)
             \/ \E p \in Procs : Restart(p)
             \/ UNCHANGED vars
    <2>1. issued' = issued /\ frame' = frame /\ job' = job /\ audits' = audits
      BY <1>6 DEF Track, Untrack, EditVersion, Restart, counters, vars
    <2>2. Opened' = Opened /\ Checking' = Checking
      BY <2>1 DEF Opened, Checking, At, Executing
    <2>. QED
      BY <2>1, <2>2, Abandons
  <1>. QED
    BY <1>2, <1>3, <1>4, <1>5, <1>6 DEF Next

(* The rows of the jobs behave as RefreshJobLifecycle promises: an attempt *)
(* is checked once and ends once, its end is audited in the same step, and *)
(* nobody but its own check ends it while that is being executed.          *)
THEOREM ImplementsLifecycle == Spec => LifecycleSpec
  <1>1. Init => Lifecycle!Init
    <2> SUFFICES ASSUME Init PROVE Lifecycle!Init
      OBVIOUS
    <2>1. Opened = {} /\ Checking = {}
      BY DEF Init, AtRest, Opened, Checking, Executing, Attempts
    <2>. QED
      BY <2>1 DEF Init, Lifecycle!Init, Lifecycle!NoJob, NoJob, Opened, Checking
  <1>2. Init => SeenInv
    BY DEF Init, AtRest, SeenInv, SeenOf, CallsAsk, At, Reading
  <1>3. Spec => [](TypeOK /\ LockInv /\ RowInv /\ AttemptInv)
    BY RowsCorrect
  <1>4. Spec => []RInv
    BY <1>2, <1>3, SeenStep, PTL DEF Spec, RInv
  <1>. QED
    BY <1>1, <1>4, NextRefines, PTL DEF Spec, LifecycleSpec, Lifecycle!Spec
=============================================================================
