------------------------------ MODULE TurnTime ------------------------------
(***************************************************************************)
(* The time arithmetic of the round-robin bus (src/mem/rr_bus.cc): time is *)
(* divided into turns of `tl' cycles that the compartments 0..num_pids-1   *)
(* get in order.  `now' is the current clock edge in cycles, counted from  *)
(* the offset of the layer.  The functions of the code return an absolute  *)
(* tick, the operators here the number of cycles from now to it.           *)
(***************************************************************************)
EXTENDS Compartments

CONSTANT tl   \* turn length in cycles

ASSUME TurnAssumption == num_pids \in Nat \ {0} /\ tl \in Nat \ {0}

Period == num_pids * tl

\* The compartment whose turn it is.
active_id(now) == (now % Period) \div tl

\* tryTiming: from now to the next turn_begin of a compartment.
retryDelay(now, tid) ==
    LET begin == (tid * tl) - (now % Period)
    IN  IF begin < 0 THEN begin + Period ELSE begin

\* Mutant of calcFinishTime: the time of a bus without turns.
finishWithoutTurns(now, tid, size) == size

\* calcFinishTime: from now, in tid's turn, until `size' cycles of tid passed.
calcFinishTime(now, tid, size) ==
    LET remaining_cycles == (tl - 1) - (now % Period) + (tid * tl)
        num_turns == (size - remaining_cycles) \div tl
        remaining_data == (size - remaining_cycles) % tl
    IN  IF remaining_cycles >= size THEN size
        ELSE IF remaining_data = 0
             THEN remaining_cycles + (Period * num_turns)
             ELSE remaining_cycles + (Period * num_turns) + ((num_pids - 1) * tl)
                    + remaining_data
=============================================================================
