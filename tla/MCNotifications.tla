---------------------------- MODULE MCNotifications ----------------------------
(* Instances of Notifications for TLC. *)
EXTENDS Notifications, TLC

CONSTANTS p1, p2, e1, e2, w1, s1, s2, m1

Change(active, replace, selection) ==
    [active |-> active, replace |-> replace, selection |-> selection]

\* Switch off and on; select no modset or one.
FourChanges == {Change("off", FALSE, {}), Change("on", FALSE, {}),
                Change(Omitted, TRUE, {}), Change(Omitted, TRUE, {s1})}

Symmetry == Permutations(Processes) \cup Permutations(Editors)
            \cup Permutations(Hooks) \cup Permutations(Modsets)
=============================================================================
