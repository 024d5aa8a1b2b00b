----------------------------- MODULE RefreshSet -----------------------------
(* What the metadata queue promises its users: a set of mods to refresh,   *)
(* each of which at most one worker is busy with.  ModTracking relies on   *)
(* no more than this.                                                      *)
CONSTANT Keys

VARIABLES scheduled, \* waiting for a refresh, or being refreshed
          busy       \* being refreshed

Init == scheduled = {} /\ busy = {}

Ask(k) == scheduled' = scheduled \cup {k} /\ UNCHANGED busy
Take(k) == /\ k \in scheduled \ busy
           /\ busy' = busy \cup {k}
           /\ UNCHANGED scheduled
Finish(k) == /\ k \in busy
             /\ busy' = busy \ {k}
             /\ scheduled' = scheduled \ {k}
(* The process exits: nothing of this is stored. *)
Exit == scheduled' = {} /\ busy' = {}

Next == (\E k \in Keys : Ask(k) \/ Take(k) \/ Finish(k)) \/ Exit
Spec == Init /\ [][Next]_<<scheduled, busy>>
=============================================================================
