-------------------------- MODULE MCMetadataQueue --------------------------
(* An instance of MetadataQueue for TLC. *)
EXTENDS MetadataQueue, TLC

CONSTANTS lower, upper, other, s1, s2, c1, c2, w1, w2

\* One mod in two spellings, and another one.
Spelling == lower :> upper @@ upper :> upper @@ other :> other
=============================================================================
