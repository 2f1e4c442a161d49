--------------------------- MODULE MC_DirtyCache ----------------------------
(* Instances of DirtyCache for TLC. *)
EXTENDS DirtyCache, TLC

CONSTANTS a1, a2, a3

\* Three lines compete for two ways of Low and one of High.
MCAddr == {a1, a2, a3}
MCMaxVer == [free \in BOOLEAN |-> IF free THEN 2 ELSE 1]
Symm == Permutations(MCAddr)
=============================================================================
