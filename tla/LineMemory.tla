----------------------------- MODULE LineMemory -----------------------------
(***************************************************************************)
(* What a cache promises to the caches above it: it is a memory.  The      *)
(* value of a line is the number of writes it has seen; a cache above      *)
(* holds a copy of a line or none.  Partitions, blocks, write buffers and  *)
(* misses do not show, except that an answer may come later than the       *)
(* request.                                                                *)
(***************************************************************************)
EXTENDS Naturals, Sequences

CONSTANT Data                \* lines

VARIABLES value,             \* value[a]: writes to a
          copy,              \* copy[a]: <<>>, or <<v>> if a is held above
          pending            \* pending[a]: a request for a is not answered yet

vars == <<value, copy, pending>>

Init ==
    /\ value = [a \in Data |-> 0]
    /\ copy = [a \in Data |-> <<>>]
    /\ pending = [a \in Data |-> FALSE]

\* A request that cannot be answered at once.
Request(a) ==
    /\ ~pending[a]
    /\ pending' = [pending EXCEPT ![a] = TRUE]
    /\ UNCHANGED <<value, copy>>

\* The answer to a read is the value of the line at that moment.
Load(a) ==
    /\ copy[a] = <<>>
    /\ copy' = [copy EXCEPT ![a] = <<value[a]>>]
    /\ pending' = [pending EXCEPT ![a] = FALSE]
    /\ UNCHANGED value

\* Only who holds the current value writes, and holds the new one then.
Store(a) ==
    /\ copy[a] = <<value[a]>>
    /\ value' = [value EXCEPT ![a] = @ + 1]
    /\ copy' = [copy EXCEPT ![a] = <<value[a] + 1>>]
    /\ pending' = [pending EXCEPT ![a] = FALSE]

\* A copy is evicted; its value is not lost.
Evict(a) ==
    /\ copy[a] # <<>> /\ ~pending[a]
    /\ copy' = [copy EXCEPT ![a] = <<>>]
    /\ UNCHANGED <<value, pending>>

Next == \E a \in Data : Request(a) \/ Load(a) \/ Store(a) \/ Evict(a)

Spec == Init /\ [][Next]_vars
=============================================================================
