----------------------------- MODULE EventQueue -----------------------------
(***************************************************************************)
(* class EventQueue (src/sim/eventq.cc), reduced to events of one          *)
(* priority.  A queue is a sequence of scheduled events in the order they  *)
(* are served; `when' counts the ticks from now.  Of two events on one     *)
(* tick the one that was scheduled later is served first.                  *)
(***************************************************************************)
EXTENDS Integers, Sequences

\* A sequence with x as its i-th element, and without its i-th element.
InsertAt(q, i, x) == SubSeq(q, 1, i - 1) \o <<x>> \o SubSeq(q, i, Len(q))
RemoveAt(q, i) == SubSeq(q, 1, i - 1) \o SubSeq(q, i + 1, Len(q))

\* Event::scheduled, Event::when.
scheduled(q, e) == \E i \in 1..Len(q) : q[i].ev = e
placeOf(q, e) == CHOOSE i \in 1..Len(q) : q[i].ev = e
whenOf(q, e) == q[placeOf(q, e)].when

\* EventQueue::insert: in front of the first event that is not earlier.
place(q, when) ==
    CHOOSE i \in 1..(Len(q) + 1) :
        /\ \A j \in 1..(i - 1) : q[j].when < when
        /\ i <= Len(q) => q[i].when >= when
schedule(q, e, when) == InsertAt(q, place(q, when), [ev |-> e, when |-> when])

\* EventQueue::remove and insert.
reschedule(q, e, when) == schedule(RemoveAt(q, placeOf(q, e)), e, when)

\* An event of this tick is at the head of the queue.
Due(q) == q # <<>> /\ Head(q).when = 0

\* One tick later.
Advance(q) == [i \in 1..Len(q) |-> [q[i] EXCEPT !.when = @ - 1]]
=============================================================================
