---------------------------- MODULE MetadataQueue ----------------------------
(***************************************************************************)
(* The in-process queue of metadata refreshes (services.py): requests      *)
(* schedule the mod they have changed, two daemon threads work the queue   *)
(* off, and a set of pending jobs keeps a mod from being queued twice.     *)
(*                                                                         *)
(* What a lock protects is one action; the queue itself is only touched    *)
(* outside the lock.  What a refresh does is in ModTracking.               *)
(***************************************************************************)
EXTENDS Naturals, Sequences, Functions

CONSTANTS Ids,        \* mod ids as requests spell them
          Upper,      \* Upper[id]: the id in upper case
          Modsets,
          Callers,    \* threads that schedule a refresh
          Workers,    \* the worker threads (two in the code)
          MaxFaults   \* bound: exits, and sessions that cannot be closed

Keys == Ids \X Modsets

ASSUME QueueOK ==
    /\ Upper \in [Ids -> Ids]
    /\ Keys # {}
    /\ MaxFaults \in Nat

VARIABLES started, \* _metadata_refresh_workers_started
          pending, \* _metadata_refresh_pending
          queue,   \* _metadata_refresh_queue
          caller,  \* caller[c]: the job c is about to put, and whether it is
          worker,  \* worker[w]: where w is, and its job
          faults

vars == <<started, pending, queue, caller, worker, faults>>

Stages == {"none", "waiting", "refreshing", "ending", "raising", "dead"}
NoKey == CHOOSE k \in Keys : TRUE
Idle == [puts |-> FALSE, key |-> NoKey]
Off == [pc |-> "none", key |-> NoKey]

(* The three places a job can be at. *)
Puts(c) == caller[c].puts
Busy(w) == worker[w].pc \in {"refreshing", "ending", "raising"}
Handed == {caller[c].key : c \in {d \in Callers : Puts(d)}}
Queued == Range(queue)
Taken == {worker[w].key : w \in {v \in Workers : Busy(v)}}

TypeOK == /\ started \in BOOLEAN
          /\ pending \subseteq Keys
          /\ queue \in Seq(Keys)
          /\ caller \in [Callers -> [puts : BOOLEAN, key : Keys]]
          /\ worker \in [Workers -> [pc : Stages, key : Keys]]
          /\ faults \in 0..MaxFaults

Init == /\ started = FALSE
        /\ pending = {} /\ queue = <<>>
        /\ caller = [c \in Callers |-> Idle]
        /\ worker = [w \in Workers |-> Off]
        /\ faults = 0
-----------------------------------------------------------------------------
(* The first call starts the workers. *)
StartWorkers ==
    /\ started' = TRUE
    /\ worker' = IF started THEN worker
                 ELSE [w \in Workers |-> [Off EXCEPT !.pc = "waiting"]]

(* schedule_mod_metadata_refresh under its lock ... *)
Schedule(c, id, s) ==
    LET k == <<Upper[id], s>>
    IN /\ ~Puts(c)
       /\ StartWorkers
       /\ IF k \in pending THEN UNCHANGED <<pending, caller>>
          ELSE /\ pending' = pending \cup {k}
               /\ caller' = [caller EXCEPT ![c] = [puts |-> TRUE, key |-> k]]
       /\ UNCHANGED <<queue, faults>>

(* ... and the put that follows it. *)
Put(c) == /\ Puts(c)
          /\ queue' = Append(queue, caller[c].key)
          /\ caller' = [caller EXCEPT ![c] = Idle]
          /\ UNCHANGED <<started, pending, worker, faults>>

Moves(w, pc) == worker' = [worker EXCEPT ![w].pc = pc]

(* Mutant: the job leaves the pending set when it is taken up. *)
GetEarly(w) == /\ worker[w].pc = "waiting" /\ queue # <<>>
               /\ worker' = [worker EXCEPT ![w] = [pc |-> "refreshing", key |-> Head(queue)]]
               /\ queue' = Tail(queue)
               /\ pending' = pending \ {Head(queue)}
               /\ UNCHANGED <<started, caller, faults>>

(* A worker takes the oldest job. *)
Get(w) == /\ worker[w].pc = "waiting" /\ queue # <<>>
          /\ worker' = [worker EXCEPT ![w] = [pc |-> "refreshing", key |-> Head(queue)]]
          /\ queue' = Tail(queue)
          /\ UNCHANGED <<started, pending, caller, faults>>

(* refresh_mod_background returns: it catches what the refresh raises.     *)
Refreshed(w) == /\ worker[w].pc = "refreshing"
                /\ Moves(w, "ending")
                /\ UNCHANGED <<started, pending, queue, caller, faults>>

(* Closing the session, or reporting the failure, raises in its turn.      *)
Escapes(w) == /\ worker[w].pc = "refreshing"
              /\ faults < MaxFaults /\ faults' = faults + 1
              /\ Moves(w, "raising")
              /\ UNCHANGED <<started, pending, queue, caller>>

(* Mutant: the job is only discarded when the refresh did not raise. *)
DiscardUnlessRaised(w) ==
    /\ worker[w].pc \in {"ending", "raising"}
    /\ pending' = IF worker[w].pc = "ending" THEN pending \ {worker[w].key} ELSE pending
    /\ Moves(w, IF worker[w].pc = "ending" THEN "waiting" ELSE "dead")
    /\ UNCHANGED <<started, queue, caller, faults>>

(* The job is discarded either way, but an exception ends the thread; no   *)
(* other is started for it.                                                *)
Discard(w) == /\ worker[w].pc \in {"ending", "raising"}
              /\ pending' = pending \ {worker[w].key}
              /\ Moves(w, IF worker[w].pc = "ending" THEN "waiting" ELSE "dead")
              /\ UNCHANGED <<started, queue, caller, faults>>

(* The process exits and starts again: all of this is memory. *)
Exit == /\ faults < MaxFaults /\ faults' = faults + 1
        /\ started' = FALSE
        /\ pending' = {} /\ queue' = <<>>
        /\ caller' = [c \in Callers |-> Idle]
        /\ worker' = [w \in Workers |-> Off]
-----------------------------------------------------------------------------
Work(w) == Get(w) \/ Refreshed(w) \/ Escapes(w) \/ Discard(w)
Next == \/ \E c \in Callers : Put(c) \/ \E id \in Ids, s \in Modsets : Schedule(c, id, s)
        \/ \E w \in Workers : Work(w)
        \/ Exit

Spec == Init /\ [][Next]_vars

(* Threads run, and a refresh ends: its requests have time limits.  Nobody *)
(* has to ask for a refresh.                                               *)
FairSpec == /\ Spec
            /\ \A c \in Callers : WF_vars(Put(c))
            /\ \A w \in Workers : WF_vars(Work(w))
-----------------------------------------------------------------------------
(* Every pending job is at exactly one place, and nothing else is: a mod   *)
(* is never queued twice, refreshed by two workers, or kept from being     *)
(* queued by a job that is gone (README.md, "a small deduplicated backend  *)
(* queue").                                                                *)
Deduplicated ==
    /\ pending = Handed \cup Queued \cup Taken
    /\ Handed \cap Queued = {} /\ Handed \cap Taken = {} /\ Queued \cap Taken = {}
    /\ \A i, j \in DOMAIN queue : queue[i] = queue[j] => i = j
    /\ \A c, d \in Callers : Puts(c) /\ Puts(d) /\ caller[c].key = caller[d].key => c = d
    /\ \A v, w \in Workers : Busy(v) /\ Busy(w) /\ worker[v].key = worker[w].key => v = w

(* While a worker is left, every job that is pending comes to its end; a   *)
(* refresh that fails does not keep its mod from being refreshed again.    *)
JobsEnd == \A k \in Keys :
    k \in pending ~> k \notin pending \/ \A w \in Workers : worker[w].pc = "dead"

(* Seen from outside, the queue is a set of mods: the one that ModTracking *)
(* works with.                                                             *)
RefreshSet == INSTANCE RefreshSet WITH scheduled <- pending, busy <- Taken
SetSpec == RefreshSet!Spec
=============================================================================
