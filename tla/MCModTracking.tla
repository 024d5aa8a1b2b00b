--------------------------- MODULE MCModTracking ---------------------------
(* Instances of ModTracking for TLC: the graphs of the Workshop. *)
EXTENDS ModTracking, TLC

CONSTANTS a, b, c, r1, r2, w1, cron

\* a needs b, b needs c.
Chain == a :> {b} @@ b :> {c} @@ c :> {}
\* a needs c only.
Short == a :> {c} @@ b :> {} @@ c :> {}
Releases == {Chain, Short}
\* For two mods: a gains or loses its dependency on b.
Growing == {a :> {} @@ b :> {}, a :> {b} @@ b :> {}}

\* At first every version in the other modsets can be compared; and the
\* liveness run starts with no mod known that is not tracked.
FirstInit == spoiled = {} /\ Init
SafeSpec == FirstInit /\ [][Next]_vars
LiveInit == FirstInit /\ known = tracked
LiveSpec == LiveInit /\ [][Next]_vars /\ Fairness
=============================================================================
