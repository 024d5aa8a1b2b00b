----------------------------- MODULE MCModsets -----------------------------
(* An instance of Modsets for TLC. *)
EXTENDS Modsets, TLC

CONSTANTS u1, u2, s1, s2, r1, r2

\* Texts that differ in case only: "sharp" stands for one with a sharp s,
\* which the lower form keeps and the folded form spells out.
LowerName == [n \in Names |-> CASE n = "Strasse" -> "strasse"
                                 [] n = "Sharp" -> "sharp"
                                 [] OTHER -> n]
FoldedName == [n \in Names |-> IF n = "Default" THEN n ELSE "strasse"]

\* Groups give the other user access, or do not.
Sharing == {{}, {u2}}

\* Bound: behaviours go on with one text or the other only; with a sharp s
\* users create and rename modsets, and nothing else.
NamesInUse == {modset[s].name : s \in Live}
              \cup {req[r].name : r \in {o \in Requests : req[o].op \in Naming}}
Namings == (\A r \in Requests : req[r].op \in Naming \cup {"none"})
           /\ \A u \in Users : active[u] = None
OneText == \/ NamesInUse \subseteq {"strasse", "Strasse", Default}
           \/ NamesInUse \subseteq {"sharp", "Sharp", Default} /\ Namings

Symmetry == Permutations(Modsets) \cup Permutations(Requests)
=============================================================================
