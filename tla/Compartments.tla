---------------------------- MODULE Compartments ----------------------------
(***************************************************************************)
(* The compartments 0..num_pids-1, the processes among which the bus and   *)
(* the memory controller divide time.                                      *)
(***************************************************************************)
EXTENDS Integers

CONSTANT num_pids

Pid == 0..(num_pids - 1)
=============================================================================
