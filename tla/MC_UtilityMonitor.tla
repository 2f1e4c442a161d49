------------------------- MODULE MC_UtilityMonitor --------------------------
(* Instances of UtilityMonitor for TLC. *)
EXTENDS UtilityMonitor, TLC

CONSTANTS t1, t2, t3, t4, t5

MCTag == {t1, t2, t3, t4, t5}
SymmTag == Permutations(MCTag)
OneSet == {0}
TwoSets == {0, 1}

\* A curve with a steep start and a flat end: High gains from its second way.
MCCurve == [h \in 0..assoc |-> CASE h = 0 -> 6 [] h = 1 -> 4 [] OTHER -> 3]
MCPastTheEnd == {0, 7}
=============================================================================
