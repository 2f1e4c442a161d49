--------------------------- MODULE MC_RRBusLayer ----------------------------
(* Instances of RRBusLayer for TLC. *)
EXTENDS RRBusLayer, TLC

CONSTANTS p0, q0, p1

\* Two ports of compartment 0 compete with each other, one of compartment 1.
MCPort == {p0, q0, p1}
MCTid == [p \in MCPort |-> IF p = p1 THEN 1 ELSE 0]

\* A packet without data and one with a line.
MCData == {0, 2, 3}
=============================================================================
