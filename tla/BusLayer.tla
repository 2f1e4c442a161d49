------------------------------ MODULE BusLayer ------------------------------
(***************************************************************************)
(* class BaseBus::Layer (src/mem/bus.cc): the arbitration of the request   *)
(* or of the response side of a bus without turns.  A layer is a record of *)
(* its state and of the ports that wait for a retry; its releaseEvent is   *)
(* kept in the event queue of the composition.                             *)
(***************************************************************************)
EXTENDS Naturals, Sequences

Layer(Port) == [state : {"IDLE", "BUSY", "RETRY"}, retryList : Seq(Port)]
IdleLayer == [state |-> "IDLE", retryList |-> <<>>]

\* The condition under which tryTiming turns port p away.
Occupied(layer, p) ==
    \/ layer.state = "BUSY"
    \/ layer.state = "RETRY" /\ p # Head(layer.retryList)

\* tryTiming for a port that is turned away.
Enqueued(layer, p) == [layer EXCEPT !.retryList = Append(@, p)]

\* succeededTiming without occupyLayer.
succeededTiming(layer) ==
    [state     |-> "BUSY",
     retryList |-> IF layer.state = "RETRY" THEN Tail(layer.retryList)
                   ELSE layer.retryList]

\* Mutant of failedTiming: a port whose retry fails is queued again.
failedTimingTwice(layer, p) ==
    [state |-> "BUSY", retryList |-> Append(layer.retryList, p)]

\* failedTiming without occupyLayer.
failedTiming(layer, p) ==
    [state     |-> "BUSY",
     retryList |-> IF layer.state = "RETRY" /\ p = Head(layer.retryList)
                   THEN layer.retryList
                   ELSE Append(layer.retryList, p)]

\* releaseLayer before, and retryWaiting after, the retry of the first port.
Released(layer) == [layer EXCEPT !.state = "IDLE"]
Retrying(layer) == [layer EXCEPT !.state = "RETRY"]
MissedGrant(layer) == [state |-> "BUSY", retryList |-> Tail(layer.retryList)]
=============================================================================
