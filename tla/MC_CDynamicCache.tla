-------------------------- MODULE MC_CDynamicCache --------------------------
(* Instances of CDynamicCache for TLC. *)
EXTENDS CDynamicCacheRefinement, TLC

CONSTANTS lo1, lo2, hi1, hi2, w1, w2, w3

MCWay == {w1, w2, w3}
MCLow == {lo1, lo2}
MCHigh == {hi1, hi2}

\* One set: two lines of Low compete, with one of High, and the other way round.
MCAddrLow == {lo1, lo2, hi1}
MCAddrHigh == {lo1, hi1, hi2}
MCLow1 == {lo1}

\* Only lines of High.
None == {}

OneSet == {0}
InOneSet == [a \in Addr |-> 0]
SymmLow == Permutations(MCLow) \union Permutations(MCWay)
SymmHigh == Permutations(MCHigh) \union Permutations(MCWay)
=============================================================================
