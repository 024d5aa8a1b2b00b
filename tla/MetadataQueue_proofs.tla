----------------------- MODULE MetadataQueue_proofs -----------------------
(***************************************************************************)
(* Proofs about MetadataQueue for every set of ids, spellings, modsets,    *)
(* callers and workers, and any number of faults.                          *)
(***************************************************************************)
EXTENDS MetadataQueue, TLAPS

(* Before the first call no worker runs. *)
StartInv == started \/ \A w \in Workers : worker[w].pc = "none"

IInv == TypeOK /\ StartInv /\ Deduplicated
-----------------------------------------------------------------------------
(* Sequences without duplicates. *)

(* A new element at the end. *)
LEMMA AppendInjective ==
  ASSUME NEW S, NEW q \in Seq(S), NEW e \in S, e \notin Range(q),
         \A i, j \in DOMAIN q : q[i] = q[j] => i = j
  PROVE  /\ Append(q, e) \in Seq(S)
         /\ Range(Append(q, e)) = Range(q) \cup {e}
         /\ \A i, j \in DOMAIN Append(q, e) :
               Append(q, e)[i] = Append(q, e)[j] => i = j
  <1> DEFINE a == Append(q, e)
  <1>1. /\ a \in Seq(S) /\ Len(a) = Len(q) + 1 /\ Len(q) \in Nat
        /\ DOMAIN a = 1..(Len(q) + 1) /\ DOMAIN q = 1..Len(q)
    OBVIOUS
  <1>2. \A i \in 1..Len(q) : a[i] = q[i]
    OBVIOUS
  <1>3. a[Len(q) + 1] = e
    OBVIOUS
  <1> HIDE DEF a
  <1>4. \A i \in DOMAIN q : q[i] # e
    BY DEF Range
  <1>5. \A i \in DOMAIN a : i \in DOMAIN q \/ i = Len(q) + 1
    BY <1>1
  <1>6. \A i, j \in DOMAIN a : a[i] = a[j] => i = j
    BY <1>1, <1>2, <1>3, <1>4, <1>5
  <1>7. Range(a) = Range(q) \cup {e}
    BY <1>1, <1>2, <1>3, <1>5 DEF Range
  <1>. QED
    BY <1>1, <1>6, <1>7 DEF a

(* The first element taken off. *)
LEMMA TailInjective ==
  ASSUME NEW S, NEW q \in Seq(S), q # <<>>,
         \A i, j \in DOMAIN q : q[i] = q[j] => i = j
  PROVE  /\ Tail(q) \in Seq(S) /\ Head(q) \in S
         /\ Head(q) \in Range(q) /\ Head(q) \notin Range(Tail(q))
         /\ Range(q) = Range(Tail(q)) \cup {Head(q)}
         /\ \A i, j \in DOMAIN Tail(q) : Tail(q)[i] = Tail(q)[j] => i = j
  <1> DEFINE r == Tail(q)
  <1>1. /\ r \in Seq(S) /\ Len(q) \in Nat /\ Len(q) > 0
        /\ DOMAIN r = 1..(Len(q) - 1) /\ DOMAIN q = 1..Len(q)
    OBVIOUS
  <1>2. \A i \in 1..(Len(q) - 1) : r[i] = q[i + 1]
    OBVIOUS
  <1>3. Head(q) = q[1] /\ q[1] \in S
    OBVIOUS
  <1> HIDE DEF r
  <1>4. Range(q) = Range(r) \cup {q[1]}
    <2>1. \A i \in DOMAIN r : i + 1 \in DOMAIN q /\ i + 1 # 1
      BY <1>1
    <2>2. \A i \in DOMAIN q : i = 1 \/ (i - 1 \in DOMAIN r /\ (i - 1) + 1 = i)
      BY <1>1
    <2>3. 1 \in DOMAIN q
      BY <1>1
    <2>4. Range(r) \cup {q[1]} \subseteq Range(q)
      BY <1>1, <1>2, <2>1, <2>3 DEF Range
    <2>5. Range(q) \subseteq Range(r) \cup {q[1]}
      BY <1>1, <1>2, <2>2 DEF Range
    <2>. QED
      BY <2>4, <2>5
  <1>5. q[1] \notin Range(r)
    <2>1. \A i \in DOMAIN r : q[i + 1] # q[1]
      BY <1>1
    <2>. QED
      BY <1>1, <1>2, <2>1 DEF Range
  <1>6. ASSUME NEW i \in DOMAIN r, NEW j \in DOMAIN r, r[i] = r[j] PROVE i = j
    <2>1. i \in Nat /\ j \in Nat /\ i + 1 \in DOMAIN q /\ j + 1 \in DOMAIN q
      BY <1>1
    <2>2. q[i + 1] = q[j + 1]
      BY <1>1, <1>2, <1>6
    <2>3. i + 1 = j + 1
      BY <2>1, <2>2
    <2>. QED
      BY <2>1, <2>3
  <1>. QED
    BY <1>1, <1>3, <1>4, <1>5, <1>6 DEF r
-----------------------------------------------------------------------------
(* Types. *)

(* A job at rest. *)
LEMMA KeyExists == /\ NoKey \in Keys
                   /\ Idle.puts = FALSE /\ Idle.key = NoKey
                   /\ Off.pc = "none" /\ Off.key = NoKey
  <1>1. \E k \in Keys : TRUE
    BY QueueOK
  <1>. QED
    BY <1>1 DEF NoKey, Idle, Off

(* The type invariant is kept by every step. *)
LEMMA NextTyped == TypeOK /\ [Next]_vars => TypeOK'
  <1> SUFFICES ASSUME TypeOK, [Next]_vars PROVE TypeOK'
    OBVIOUS
  <1> USE DEF TypeOK
  <1>1. Idle \in [puts : BOOLEAN, key : Keys] /\ Off \in [pc : Stages, key : Keys]
    BY KeyExists DEF Idle, Off, Stages
  <1>2. ASSUME NEW c \in Callers, NEW id \in Ids, NEW s \in Modsets, Schedule(c, id, s)
        PROVE  TypeOK'
    <2> DEFINE k == <<Upper[id], s>>
    <2>1. k \in Keys
      BY QueueOK DEF Keys
    <2>2. [Off EXCEPT !.pc = "waiting"] \in [pc : Stages, key : Keys]
      BY <1>1 DEF Stages
    <2>3. worker' \in [Workers -> [pc : Stages, key : Keys]] /\ started' \in BOOLEAN
      BY <1>2, <2>2 DEF Schedule, StartWorkers
    <2>4. \/ UNCHANGED <<pending, caller>>
          \/ /\ pending' = pending \cup {k}
             /\ caller' = [caller EXCEPT ![c] = [puts |-> TRUE, key |-> k]]
      BY <1>2 DEF Schedule
    <2>5. queue' = queue /\ faults' = faults
      BY <1>2 DEF Schedule
    <2> HIDE DEF k
    <2>6. [puts |-> TRUE, key |-> k] \in [puts : BOOLEAN, key : Keys]
      BY <2>1
    <2>7. pending' \subseteq Keys
      BY <2>1, <2>4
    <2>8. caller' \in [Callers -> [puts : BOOLEAN, key : Keys]]
      BY <2>4, <2>6
    <2>. QED
      BY <2>3, <2>5, <2>7, <2>8
  <1>3. ASSUME NEW c \in Callers, Put(c) PROVE TypeOK'
    BY <1>1, <1>3 DEF Put
  <1>4. ASSUME NEW w \in Workers, Work(w) PROVE TypeOK'
    <2>1. CASE Get(w)
      <3>1. Head(queue) \in Keys /\ Tail(queue) \in Seq(Keys)
        BY <2>1 DEF Get
      <3>. QED
        BY <2>1, <3>1 DEF Get, Stages
    <2>2. CASE Refreshed(w)
      BY <2>2 DEF Refreshed, Moves, Stages
    <2>3. CASE Escapes(w)
      BY <2>3, QueueOK DEF Escapes, Moves, Stages
    <2>4. CASE Discard(w)
      BY <2>4 DEF Discard, Moves, Stages
    <2>. QED
      BY <1>4, <2>1, <2>2, <2>3, <2>4 DEF Work
  <1>5. CASE Exit
    <2>1. faults' \in 0..MaxFaults
      BY <1>5, QueueOK DEF Exit
    <2>2. queue' = <<>> /\ <<>> \in Seq(Keys) /\ pending' = {} /\ started' = FALSE
      BY <1>5 DEF Exit
    <2>3. caller' = [c \in Callers |-> Idle] /\ worker' = [w \in Workers |-> Off]
      BY <1>5 DEF Exit
    <2>. QED
      BY <1>1, <2>1, <2>2, <2>3
  <1>6. CASE UNCHANGED vars
    BY <1>6 DEF vars
  <1>. QED
    BY <1>2, <1>3, <1>4, <1>5, <1>6 DEF Next
-----------------------------------------------------------------------------
(* One place for every job. *)

(* Where the jobs in callers and workers are after one of them moves. *)
LEMMA CallerMoves ==
  ASSUME TypeOK, NEW c \in Callers, NEW r,
         caller' = [caller EXCEPT ![c] = r]
  PROVE  /\ caller'[c] = r /\ \A d \in Callers \ {c} : caller'[d] = caller[d]
         /\ Handed' = {caller[d].key : d \in {e \in Callers \ {c} : Puts(e)}}
                          \cup (IF r.puts THEN {r.key} ELSE {})
  <1>1. caller'[c] = r /\ \A d \in Callers \ {c} : caller'[d] = caller[d]
    BY DEF TypeOK
  <1>. QED
    BY <1>1 DEF Handed, Puts

(* The same for workers. *)
LEMMA WorkerMoves ==
  ASSUME TypeOK, NEW w \in Workers, NEW r,
         worker' = [worker EXCEPT ![w] = r]
  PROVE  /\ worker'[w] = r /\ \A v \in Workers \ {w} : worker'[v] = worker[v]
         /\ Taken' = {worker[v].key : v \in {u \in Workers \ {w} : Busy(u)}}
                         \cup (IF r.pc \in {"refreshing", "ending", "raising"}
                               THEN {r.key} ELSE {})
  <1>1. worker'[w] = r /\ \A v \in Workers \ {w} : worker'[v] = worker[v]
    BY DEF TypeOK
  <1>. QED
    BY <1>1 DEF Taken, Busy

(* A call adds its job to those pending and handed over, or nothing.       *)
LEMMA ScheduleMoves ==
  ASSUME IInv, NEW c \in Callers, NEW id \in Ids, NEW s \in Modsets,
         Schedule(c, id, s), NEW k, k = <<Upper[id], s>>
  PROVE  /\ Taken' = Taken /\ Queued' = Queued /\ queue' = queue
         /\ \A w \in Workers : Busy(w)' <=> Busy(w)
         /\ \A w \in Workers : Busy(w) => worker'[w] = worker[w]
         /\ \/ k \in pending /\ UNCHANGED <<pending, caller>>
            \/ /\ k \notin pending /\ pending' = pending \cup {k}
               /\ Handed' = Handed \cup {k}
               /\ ~Puts(c) /\ caller'[c].key = k
               /\ \A d \in Callers \ {c} : caller'[d] = caller[d]
  <1>1. \A w \in Workers : \/ worker'[w] = worker[w]
                           \/ worker[w].pc = "none" /\ worker'[w].pc = "waiting"
    BY KeyExists DEF Schedule, StartWorkers, IInv, StartInv, TypeOK, Off
  <1>2. \A w \in Workers : (Busy(w)' <=> Busy(w)) /\ (Busy(w) => worker'[w] = worker[w])
    BY <1>1 DEF Busy
  <1>3. Taken' = Taken
    BY <1>2 DEF Taken
  <1>4. queue' = queue /\ Queued' = Queued
    BY DEF Schedule, Queued
  <1>5. CASE k \in pending
    BY <1>2, <1>3, <1>4, <1>5 DEF Schedule
  <1>6. CASE k \notin pending
    <2> DEFINE r == [puts |-> TRUE, key |-> k]
    <2>1. pending' = pending \cup {k} /\ caller' = [caller EXCEPT ![c] = r] /\ ~Puts(c)
      BY <1>6 DEF Schedule
    <2>2. r.puts = TRUE /\ r.key = k
      OBVIOUS
    <2> HIDE DEF r
    <2>3. caller'[c] = r /\ \A d \in Callers \ {c} : caller'[d] = caller[d]
      BY <2>1, CallerMoves DEF IInv
    <2>4. Handed' = {caller[d].key : d \in {e \in Callers \ {c} : Puts(e)}} \cup {k}
      <3>1. TypeOK
        BY DEF IInv
      <3>2. Handed' = {caller[d].key : d \in {e \in Callers \ {c} : Puts(e)}}
                        \cup (IF r.puts THEN {r.key} ELSE {})
        BY <2>1, <3>1, CallerMoves
      <3>. QED
        BY <2>2, <3>2
    <2>5. Handed = {caller[d].key : d \in {e \in Callers \ {c} : Puts(e)}}
      BY <2>1 DEF Handed
    <2>. QED
      BY <1>2, <1>3, <1>4, <1>6, <2>1, <2>2, <2>3, <2>4, <2>5
  <1>. QED
    BY <1>5, <1>6

(* A put takes the job from its caller to the end of the queue.            *)
LEMMA PutMoves ==
  ASSUME IInv, NEW c \in Callers, Put(c)
  PROVE  LET k == caller[c].key
         IN /\ k \in Handed /\ k \in Keys /\ Handed' = Handed \ {k}
            /\ Queued' = Queued \cup {k} /\ queue' = Append(queue, k)
            /\ ~Puts(c)' /\ \A d \in Callers \ {c} : caller'[d] = caller[d]
  <1> DEFINE k == caller[c].key
  <1>1. k \in Handed /\ k \in Keys
    BY DEF Put, Handed, IInv, TypeOK
  <1>2. caller' = [caller EXCEPT ![c] = Idle] /\ queue' = Append(queue, k)
    BY DEF Put
  <1>3. caller'[c] = Idle /\ \A d \in Callers \ {c} : caller'[d] = caller[d]
    BY <1>2, CallerMoves DEF IInv
  <1>4. ~Puts(c)'
    BY <1>3, KeyExists DEF Puts
  <1>5. Handed' = {caller[d].key : d \in {e \in Callers \ {c} : Puts(e)}}
    BY <1>2, KeyExists, CallerMoves DEF IInv
  <1>6. \A d \in Callers \ {c} : Puts(d) => caller[d].key # k
    BY DEF IInv, Deduplicated, Put
  <1>7. Handed' = Handed \ {k}
    BY <1>5, <1>6 DEF Handed, Put
  <1>8. k \notin Range(queue)
    BY <1>1 DEF IInv, Deduplicated, Queued
  <1>9. Queued' = Queued \cup {k}
    BY <1>1, <1>2, <1>8, AppendInjective DEF IInv, TypeOK, Deduplicated, Queued
  <1>. QED
    BY <1>1, <1>2, <1>3, <1>4, <1>7, <1>9

(* A worker takes the job at the head of the queue.                        *)
LEMMA GetMoves ==
  ASSUME IInv, NEW w \in Workers, Get(w)
  PROVE  LET k == Head(queue)
         IN /\ k \in Queued /\ k \in Keys
            /\ Queued' = Queued \ {k} /\ queue' = Tail(queue)
            /\ Taken' = Taken \cup {k}
            /\ ~Busy(w) /\ worker'[w].key = k
            /\ \A v \in Workers \ {w} : worker'[v] = worker[v]
  <1> DEFINE k == Head(queue)
             r == [pc |-> "refreshing", key |-> k]
  <1>1. worker' = [worker EXCEPT ![w] = r] /\ queue' = Tail(queue) /\ ~Busy(w)
        /\ queue # <<>>
    BY DEF Get, Busy
  <1>2. r.pc = "refreshing" /\ r.key = k
    OBVIOUS
  <1>3. /\ k \in Keys /\ k \in Range(queue) /\ k \notin Range(Tail(queue))
        /\ Range(queue) = Range(Tail(queue)) \cup {k}
    BY <1>1, TailInjective DEF IInv, TypeOK, Deduplicated
  <1> HIDE DEF r, k
  <1>4. /\ worker'[w] = r /\ \A v \in Workers \ {w} : worker'[v] = worker[v]
        /\ Taken' = {worker[v].key : v \in {u \in Workers \ {w} : Busy(u)}} \cup {k}
    BY <1>1, <1>2, WorkerMoves DEF IInv
  <1>5. Taken = {worker[v].key : v \in {u \in Workers \ {w} : Busy(u)}}
    BY <1>1 DEF Taken
  <1>6. Queued' = Queued \ {k}
    BY <1>1, <1>3 DEF Queued
  <1>. QED
    BY <1>1, <1>2, <1>3, <1>4, <1>5, <1>6 DEF Queued, k

(* The end of a refresh moves no job.                                      *)
LEMMA EndMoves ==
  ASSUME IInv, NEW w \in Workers, Refreshed(w) \/ Escapes(w)
  PROVE  /\ Taken' = Taken
         /\ \A v \in Workers : (Busy(v)' <=> Busy(v)) /\ worker'[v].key = worker[v].key
  <1>1. PICK p \in {"ending", "raising"} : worker' = [worker EXCEPT ![w].pc = p]
    BY DEF Refreshed, Escapes, Moves
  <1>2. worker[w].pc = "refreshing"
    BY DEF Refreshed, Escapes
  <1>3. \A v \in Workers : (Busy(v)' <=> Busy(v)) /\ worker'[v].key = worker[v].key
    BY <1>1, <1>2 DEF Busy, IInv, TypeOK
  <1>. QED
    BY <1>3 DEF Taken

(* A job discarded is gone from its worker, and from nowhere else.         *)
LEMMA DiscardMoves ==
  ASSUME IInv, NEW w \in Workers, Discard(w)
  PROVE  LET k == worker[w].key
         IN /\ k \in Taken /\ k \in Keys /\ Taken' = Taken \ {k}
            /\ pending' = pending \ {k}
            /\ ~Busy(w)' /\ \A v \in Workers \ {w} : worker'[v] = worker[v]
  <1> DEFINE k == worker[w].key
             p == IF worker[w].pc = "ending" THEN "waiting" ELSE "dead"
             r == [worker[w] EXCEPT !.pc = p]
  <1>1. worker' = [worker EXCEPT ![w] = r] /\ pending' = pending \ {k} /\ Busy(w)
    BY DEF Discard, Moves, Busy
  <1>2. k \in Taken /\ k \in Keys
    BY <1>1 DEF Taken, IInv, TypeOK
  <1>3. r.pc = p /\ p \notin {"refreshing", "ending", "raising"}
    BY DEF IInv, TypeOK
  <1> HIDE DEF r
  <1>4. /\ worker'[w] = r /\ \A v \in Workers \ {w} : worker'[v] = worker[v]
        /\ Taken' = {worker[v].key : v \in {u \in Workers \ {w} : Busy(u)}}
    BY <1>1, <1>3, WorkerMoves DEF IInv
  <1>5. ~Busy(w)'
    BY <1>3, <1>4 DEF Busy
  <1>6. \A v \in Workers \ {w} : Busy(v) => worker[v].key # k
    BY <1>1 DEF IInv, Deduplicated
  <1>7. Taken' = Taken \ {k}
    BY <1>4, <1>6 DEF Taken
  <1>. QED
    BY <1>1, <1>2, <1>4, <1>5, <1>7

(* After an exit nothing is left.                                          *)
LEMMA ExitMoves ==
  ASSUME Exit
  PROVE  /\ pending' = {} /\ Handed' = {} /\ Queued' = {} /\ Taken' = {}
         /\ \A c \in Callers : ~Puts(c)'
         /\ \A w \in Workers : ~Busy(w)' /\ worker'[w].pc = "none"
         /\ queue' = <<>>
  <1>. QED
    BY KeyExists DEF Exit, Handed, Queued, Taken, Puts, Busy, Range
-----------------------------------------------------------------------------
(* The invariant. *)

(* Workers run only once they have been started. *)
LEMMA NextStarted == IInv /\ [Next]_vars => StartInv'
  <1> SUFFICES ASSUME IInv, [Next]_vars PROVE StartInv'
    OBVIOUS
  <1>1. ASSUME NEW c \in Callers, NEW id \in Ids, NEW s \in Modsets, Schedule(c, id, s)
        PROVE  StartInv'
    BY <1>1 DEF Schedule, StartWorkers, StartInv
  <1>2. ASSUME NEW c \in Callers, Put(c) PROVE StartInv'
    BY <1>2 DEF Put, StartInv, IInv
  <1>3. ASSUME NEW w \in Workers, Work(w) PROVE StartInv'
    <2>1. worker[w].pc # "none" /\ started' = started
      BY <1>3 DEF Work, Get, Refreshed, Escapes, Discard
    <2>. QED
      BY <2>1 DEF StartInv, IInv
  <1>4. CASE Exit
    BY <1>4, ExitMoves DEF StartInv
  <1>5. CASE UNCHANGED vars
    BY <1>5 DEF vars, StartInv, IInv
  <1>. QED
    BY <1>1, <1>2, <1>3, <1>4, <1>5 DEF Next

(* Every job stays at exactly one place. *)
LEMMA NextDeduplicated == IInv /\ [Next]_vars => Deduplicated'
  <1> SUFFICES ASSUME IInv, [Next]_vars PROVE Deduplicated'
    OBVIOUS
  <1>0. /\ pending = Handed \cup Queued \cup Taken
        /\ Handed \cap Queued = {} /\ Handed \cap Taken = {} /\ Queued \cap Taken = {}
        /\ queue \in Seq(Keys)
        /\ \A i, j \in DOMAIN queue : queue[i] = queue[j] => i = j
        /\ \A c, d \in Callers : Puts(c) /\ Puts(d) /\ caller[c].key = caller[d].key => c = d
        /\ \A v, w \in Workers : Busy(v) /\ Busy(w) /\ worker[v].key = worker[w].key => v = w
    BY DEF IInv, Deduplicated, TypeOK
  <1>1. ASSUME NEW c \in Callers, NEW id \in Ids, NEW s \in Modsets, Schedule(c, id, s)
        PROVE  Deduplicated'
    <2>1. PICK k : k = <<Upper[id], s>>
      OBVIOUS
    <2>2. /\ Taken' = Taken /\ Queued' = Queued /\ queue' = queue
          /\ \A w \in Workers : Busy(w)' <=> Busy(w)
          /\ \A w \in Workers : Busy(w) => worker'[w] = worker[w]
      BY <1>1, <2>1, ScheduleMoves
    <2>3. \A v, w \in Workers : Busy(v)' /\ Busy(w)' /\ worker'[v].key = worker'[w].key => v = w
      BY <1>0, <2>2
    <2>4. CASE UNCHANGED <<pending, caller>>
      BY <1>0, <2>2, <2>3, <2>4 DEF Deduplicated, Handed, Puts
    <2>5. CASE /\ k \notin pending /\ pending' = pending \cup {k}
               /\ Handed' = Handed \cup {k}
               /\ ~Puts(c) /\ caller'[c].key = k
               /\ \A d \in Callers \ {c} : caller'[d] = caller[d]
      <3>1. \A d \in Callers \ {c} : Puts(d)' => Puts(d) /\ caller'[d].key # k
        BY <1>0, <2>5 DEF Puts, Handed
      <3>2. \A d, e \in Callers : Puts(d)' /\ Puts(e)' /\ caller'[d].key = caller'[e].key
                                   => d = e
        BY <1>0, <2>5, <3>1
      <3>. QED
        BY <1>0, <2>2, <2>3, <2>5, <3>2 DEF Deduplicated
    <2>. QED
      BY <1>1, <2>1, <2>4, <2>5, ScheduleMoves
  <1>2. ASSUME NEW c \in Callers, Put(c) PROVE Deduplicated'
    <2> DEFINE k == caller[c].key
    <2>1. /\ k \in Handed /\ k \in Keys /\ Handed' = Handed \ {k}
          /\ Queued' = Queued \cup {k} /\ queue' = Append(queue, k)
          /\ ~Puts(c)' /\ \A d \in Callers \ {c} : caller'[d] = caller[d]
      BY <1>2, PutMoves
    <2>2. pending' = pending /\ Taken' = Taken
          /\ \A v, w \in Workers : Busy(v)' /\ Busy(w)' /\ worker'[v].key = worker'[w].key
                                    => v = w
      BY <1>0, <1>2 DEF Put, Taken, Busy
    <2>3. \A d, e \in Callers : Puts(d)' /\ Puts(e)' /\ caller'[d].key = caller'[e].key
                                 => d = e
      <3>1. \A d \in Callers : Puts(d)' => d # c /\ Puts(d) /\ caller'[d] = caller[d]
        BY <2>1 DEF Puts
      <3>. QED
        BY <1>0, <3>1
    <2>4. \A i, j \in DOMAIN queue' : queue'[i] = queue'[j] => i = j
      BY <1>0, <2>1, AppendInjective DEF Queued
    <2> HIDE DEF k
    <2>. QED
      BY <1>0, <2>1, <2>2, <2>3, <2>4 DEF Deduplicated
  <1>3. ASSUME NEW w \in Workers, Get(w) PROVE Deduplicated'
    <2> DEFINE k == Head(queue)
    <2>1. /\ k \in Queued /\ Queued' = Queued \ {k} /\ queue' = Tail(queue)
          /\ Taken' = Taken \cup {k} /\ ~Busy(w) /\ worker'[w].key = k
          /\ \A v \in Workers \ {w} : worker'[v] = worker[v]
      BY <1>3, GetMoves
    <2>2. pending' = pending /\ Handed' = Handed
          /\ \A d, e \in Callers : Puts(d)' /\ Puts(e)' /\ caller'[d].key = caller'[e].key
                                    => d = e
      BY <1>0, <1>3 DEF Get, Handed, Puts
    <2>3. \A v \in Workers \ {w} : Busy(v)' => Busy(v) /\ worker'[v].key # k
      BY <1>0, <2>1 DEF Busy, Taken
    <2>4. \A i, j \in DOMAIN queue' : queue'[i] = queue'[j] => i = j
      BY <1>0, <1>3, <2>1, TailInjective DEF Get
    <2> HIDE DEF k
    <2>5. \A u, v \in Workers : Busy(u)' /\ Busy(v)' /\ worker'[u].key = worker'[v].key
                                 => u = v
      BY <1>0, <2>1, <2>3
    <2>. QED
      BY <1>0, <2>1, <2>2, <2>4, <2>5 DEF Deduplicated
  <1>4. ASSUME NEW w \in Workers, Refreshed(w) \/ Escapes(w) PROVE Deduplicated'
    <2>1. UNCHANGED <<pending, queue, caller>>
      BY <1>4 DEF Refreshed, Escapes
    <2>. QED
      BY <1>0, <1>4, <2>1, EndMoves DEF Deduplicated, Handed, Queued, Puts
  <1>5. ASSUME NEW w \in Workers, Discard(w) PROVE Deduplicated'
    <2> DEFINE k == worker[w].key
    <2>1. /\ k \in Taken /\ Taken' = Taken \ {k} /\ pending' = pending \ {k}
          /\ ~Busy(w)' /\ \A v \in Workers \ {w} : worker'[v] = worker[v]
      BY <1>5, DiscardMoves
    <2>2. queue' = queue /\ Queued' = Queued /\ Handed' = Handed
          /\ \A d, e \in Callers : Puts(d)' /\ Puts(e)' /\ caller'[d].key = caller'[e].key
                                    => d = e
      BY <1>0, <1>5 DEF Discard, Queued, Handed, Puts
    <2>3. \A u, v \in Workers : Busy(u)' /\ Busy(v)' /\ worker'[u].key = worker'[v].key
                                 => u = v
      <3>1. \A v \in Workers : Busy(v)' => v # w /\ Busy(v) /\ worker'[v] = worker[v]
        BY <2>1 DEF Busy
      <3>. QED
        BY <1>0, <3>1
    <2> HIDE DEF k
    <2>. QED
      BY <1>0, <2>1, <2>2, <2>3 DEF Deduplicated
  <1>6. CASE Exit
    BY <1>6, ExitMoves DEF Deduplicated
  <1>7. CASE UNCHANGED vars
    <2>1. UNCHANGED <<pending, queue, caller, worker>>
      BY <1>7 DEF vars
    <2>2. Handed' = Handed /\ Queued' = Queued /\ Taken' = Taken
      BY <2>1 DEF Handed, Queued, Taken, Puts, Busy
    <2>3. (\A c \in Callers : Puts(c)' <=> Puts(c)) /\ (\A w \in Workers : Busy(w)' <=> Busy(w))
      BY <2>1 DEF Puts, Busy
    <2>. QED
      BY <1>0, <2>1, <2>2, <2>3 DEF Deduplicated
  <1>. QED
    BY <1>1, <1>2, <1>3, <1>4, <1>5, <1>6, <1>7 DEF Next, Work

(* The invariant holds at first. *)
LEMMA InitInv == Init => IInv
  <1> SUFFICES ASSUME Init PROVE IInv
    OBVIOUS
  <1>1. TypeOK
    <2>1. <<>> \in Seq(Keys) /\ 0 \in 0..MaxFaults
      BY QueueOK
    <2>2. Idle \in [puts : BOOLEAN, key : Keys] /\ Off \in [pc : Stages, key : Keys]
      BY KeyExists DEF Idle, Off, Stages
    <2>. QED
      BY <2>1, <2>2 DEF Init, TypeOK
  <1>2. StartInv
    BY KeyExists DEF Init, StartInv
  <1>3. Handed = {} /\ Queued = {} /\ Taken = {} /\ pending = {}
    BY KeyExists DEF Init, Handed, Queued, Taken, Puts, Busy, Range
  <1>4. Deduplicated
    BY <1>3, KeyExists DEF Init, Deduplicated, Puts, Busy
  <1>. QED
    BY <1>1, <1>2, <1>4 DEF IInv

(* Every step keeps it. *)
LEMMA NextInv == IInv /\ [Next]_vars => IInv'
  <1>1. IInv => TypeOK
    BY DEF IInv
  <1>2. TypeOK' /\ StartInv' /\ Deduplicated' => IInv'
    BY DEF IInv
  <1>. QED
    BY <1>1, <1>2, NextTyped, NextStarted, NextDeduplicated

(* The queue, the pending set and the threads are well typed.              *)
THEOREM TypeCorrect == Spec => []TypeOK
  <1>1. IInv => TypeOK
    BY DEF IInv
  <1>. QED
    BY <1>1, InitInv, NextInv, PTL DEF Spec

(* A pending job is at one place only, and every job at some place is      *)
(* pending: no mod is queued twice or refreshed by two workers at once, and *)
(* no mod is kept out of the queue by a job that is gone.                  *)
THEOREM QueueDeduplicates == Spec => []Deduplicated
  <1>1. IInv => Deduplicated
    BY DEF IInv
  <1>. QED
    BY <1>1, InitInv, NextInv, PTL DEF Spec
-----------------------------------------------------------------------------
(* Every step of the queue is a step of the set of mods to refresh, or     *)
(* changes nothing of it.                                                  *)
LEMMA NextRefines == IInv /\ [Next]_vars => [RefreshSet!Next]_<<pending, Taken>>
  <1> SUFFICES ASSUME IInv, [Next]_vars
               PROVE  RefreshSet!Next \/ (pending' = pending /\ Taken' = Taken)
    OBVIOUS
  <1>1. ASSUME NEW c \in Callers, NEW id \in Ids, NEW s \in Modsets, Schedule(c, id, s)
        PROVE  RefreshSet!Next \/ (pending' = pending /\ Taken' = Taken)
    <2>1. PICK k : k = <<Upper[id], s>>
      OBVIOUS
    <2>2. k \in Keys
      BY <2>1, QueueOK DEF Keys
    <2>3. Taken' = Taken /\ (pending' = pending \/ pending' = pending \cup {k})
      BY <1>1, <2>1, ScheduleMoves
    <2>. QED
      BY <2>2, <2>3 DEF RefreshSet!Next, RefreshSet!Ask
  <1>2. ASSUME NEW c \in Callers, Put(c) PROVE pending' = pending /\ Taken' = Taken
    BY <1>2 DEF Put, Taken, Busy
  <1>3. ASSUME NEW w \in Workers, Get(w) PROVE RefreshSet!Next
    <2> DEFINE k == Head(queue)
    <2>1. k \in Queued /\ k \in Keys /\ Taken' = Taken \cup {k}
      BY <1>3, GetMoves
    <2>2. k \in pending \ Taken
      BY <2>1 DEF IInv, Deduplicated
    <2>3. pending' = pending
      BY <1>3 DEF Get
    <2>4. RefreshSet!Take(k)
      BY <2>1, <2>2, <2>3 DEF RefreshSet!Take
    <2>. QED
      BY <2>1, <2>4 DEF RefreshSet!Next
  <1>4. ASSUME NEW w \in Workers, Refreshed(w) \/ Escapes(w)
        PROVE  pending' = pending /\ Taken' = Taken
    BY <1>4, EndMoves DEF Refreshed, Escapes
  <1>5. ASSUME NEW w \in Workers, Discard(w) PROVE RefreshSet!Next
    <2> DEFINE k == worker[w].key
    <2>1. k \in Taken /\ k \in Keys /\ Taken' = Taken \ {k} /\ pending' = pending \ {k}
      BY <1>5, DiscardMoves
    <2>2. RefreshSet!Finish(k)
      BY <2>1 DEF RefreshSet!Finish
    <2>. QED
      BY <2>1, <2>2 DEF RefreshSet!Next
  <1>6. CASE Exit
    BY <1>6, ExitMoves DEF RefreshSet!Next, RefreshSet!Exit
  <1>7. CASE UNCHANGED vars
    BY <1>7 DEF vars, Taken, Busy
  <1>. QED
    BY <1>1, <1>2, <1>3, <1>4, <1>5, <1>6, <1>7 DEF Next, Work

(* What ModTracking supposes of the queue is what the queue does: a step   *)
(* of the queue adds a mod to the set, takes one nobody is busy with,      *)
(* removes a finished one, loses all, or shows nothing.                    *)
THEOREM ImplementsRefreshSet == Spec => SetSpec
  <1>1. Init => RefreshSet!Init
    BY KeyExists DEF Init, RefreshSet!Init, Taken, Busy
  <1>. QED
    BY <1>1, InitInv, NextInv, NextRefines, PTL DEF Spec, SetSpec, RefreshSet!Spec
=============================================================================
