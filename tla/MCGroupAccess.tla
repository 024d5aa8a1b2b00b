--------------------------- MODULE MCGroupAccess ---------------------------
(* An instance of GroupAccess for TLC. *)
EXTENDS GroupAccess, TLC

CONSTANTS u1, u2, u3, g1, g2, s1, r1, r2

\* u1 is the administrator, u2 owns the modset.
OwnedBy == [s \in Modsets |-> u2]

Entry(g, p) == [group |-> g, permission |-> p]

\* Nothing, write access for one group, and another kind for both.
SomeShares == {{}, {Entry(g1, "write")}, {Entry(g1, "read"), Entry(g2, "write")}}

Symmetry == Permutations(Requests)
=============================================================================
