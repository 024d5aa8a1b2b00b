------------------------ MODULE RefreshJobLifecycle ------------------------
(***************************************************************************)
(* What the durable manual refresh jobs promise, without locks, threads or *)
(* polling (docs/architecture.md and docs/manual-refresh-upgrade.md; the   *)
(* table is ModRefreshJob in models.py).                                   *)
(*                                                                         *)
(* Each modset/mod key has at most one row, holding its latest attempt.    *)
(* A request joins an active attempt or opens a fresh one; an attempt is   *)
(* checked at most once; a row ends in a terminal state exactly once, and  *)
(* that end is audited in the same step.  An attempt whose check is still  *)
(* being executed can be ended only by its own check: it can be called     *)
(* interrupted only when nobody executes it any more.                      *)
(***************************************************************************)
EXTENDS Naturals, Sequences

CONSTANTS Keys,     \* the <<modset, mod>> pairs that can have a job row
          Attempts  \* attempt identities (positive numbers)

VARIABLES job,      \* job[k]: the row of key k, or NoJob
          opened,   \* attempt ids used up
          checking, \* attempts whose check a live thread is executing
          audits    \* audits[a]: results the audit log holds for attempt a

vars == <<job, opened, checking, audits>>

NoJob == [attempt |-> 0, state |-> "none", error |-> "none"]
ActiveStates == {"queued", "running"}
TerminalStates == {"succeeded", "failed"}
Errors == {"none", "check", "interrupted"}

Queued(a) == [attempt |-> a, state |-> "queued", error |-> "none"]
Active(k) == job[k].state \in ActiveStates

Init == /\ job = [k \in Keys |-> NoJob]
        /\ opened = {}
        /\ checking = {}
        /\ audits = [a \in Attempts |-> <<>>]

(* A request finds no active attempt of k and opens the fresh attempt a. *)
Open(k, a) == /\ ~Active(k)
              /\ a \notin opened
              /\ job' = [job EXCEPT ![k] = Queued(a)]
              /\ opened' = opened \cup {a}
              /\ UNCHANGED <<checking, audits>>

(* The check of a queued attempt begins; it is the attempt's only check. *)
Begin(k) == /\ job[k].state = "queued"
            /\ job' = [job EXCEPT ![k].state = "running"]
            /\ checking' = checking \cup {job[k].attempt}
            /\ UNCHANGED <<opened, audits>>

(* Row k ends in state s: the row and its one audit entry, together. *)
End(k, s, e) ==
    /\ job' = [job EXCEPT ![k].state = s, ![k].error = e]
    /\ audits' = [audits EXCEPT ![job[k].attempt] = Append(@, s)]

(* The check of k's attempt reports what it found. *)
Complete(k) == /\ job[k].state = "running"
               /\ job[k].attempt \in checking
               /\ \/ End(k, "succeeded", "none")
                  \/ End(k, "failed", "check")
               /\ checking' = checking \ {job[k].attempt}
               /\ UNCHANGED opened

(* Checks stop without reporting (process exit, database error, a row that *)
(* disappeared), and ids are drawn that open nothing (a request joins an   *)
(* active attempt, or dies before it is enqueued).                         *)
Abandon == /\ \E lost \in SUBSET checking : checking' = checking \ lost
           /\ \E drawn \in SUBSET Attempts : opened' = opened \cup drawn
           /\ UNCHANGED <<job, audits>>

(* A running attempt nobody checks any more is failed, not replayed. *)
Interrupt(k) == /\ job[k].state = "running"
                /\ job[k].attempt \notin checking
                /\ End(k, "failed", "interrupted")
                /\ UNCHANGED <<opened, checking>>

(* The queued attempt of a mod that is no longer tracked is dropped. *)
Drop(k) == /\ job[k].state = "queued"
           /\ job' = [job EXCEPT ![k] = NoJob]
           /\ UNCHANGED <<opened, checking, audits>>

(* A modset disappears with all its rows (ON DELETE CASCADE). *)
DropModset(m) ==
    /\ job' = [k \in Keys |-> IF k[1] = m THEN NoJob ELSE job[k]]
    /\ UNCHANGED <<opened, checking, audits>>

Next == \/ \E k \in Keys, a \in Attempts : Open(k, a)
        \/ \E k \in Keys : Begin(k) \/ Complete(k) \/ Interrupt(k) \/ Drop(k)
        \/ \E m \in {k[1] : k \in Keys} : DropModset(m)
        \/ Abandon

Spec == Init /\ [][Next]_vars
=============================================================================
