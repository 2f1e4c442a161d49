----------------------------- MODULE RRBusLayer -----------------------------
(***************************************************************************)
(* One layer of the round-robin bus: RRBus::Layer (src/mem/rr_bus.cc), as  *)
(* the request or the response layer of RR_NoncoherentBus uses it          *)
(* (src/mem/rr_noncoherent_bus.cc).                                        *)
(*                                                                         *)
(* Time is the clock edge modulo the period, and an event is the number of *)
(* cycles until it fires, Off if it is not scheduled.  A call between two  *)
(* edges sees the next edge (nextCycle), as a call at that edge does       *)
(* before the events of the edge.  Of two events at one edge the queue     *)
(* (src/sim/eventq.cc) serves the one scheduled last, which is always the  *)
(* retry event: it is scheduled while another compartment has its turn and *)
(* fires at the next turn, a release event is scheduled in an own turn.    *)
(*                                                                         *)
(* A port that was told to retry may send again within sendRetry, with     *)
(* success or not, or have nothing to send any more.                       *)
(***************************************************************************)
EXTENDS TurnTime, Sequences, Functions

CONSTANTS Port, tidOf,       \* source ports, and the compartment they serve
          headerCycles,
          DataCycles,        \* data cycles a packet may take
          Layers             \* layers looked at: "request", "response"

ASSUME LayerAssumption ==
    /\ tidOf \in [Port -> Pid]
    /\ headerCycles \in Nat \ {0} /\ DataCycles \subseteq Nat /\ DataCycles # {}
    /\ Layers \subseteq {"request", "response"}

VARIABLES which,       \* the layer this is; never changes
          now,         \* current clock edge, modulo the period
          layer,       \* state, retryList and releaseEvent per compartment
          retryEvent,  \* retryEvent per compartment
          owesRetry,   \* the destination rejected a packet and must retry
          drainEvent,  \* "no", "waiting" for the layer to drain, or "drained"
          abort        \* the assertion that stopped the simulator, or "no"

vars == <<which, now, layer, retryEvent, owesRetry, drainEvent, abort>>

Off == -1

Init ==
    /\ which \in Layers
    /\ now \in 0..(Period - 1)
    /\ layer = [state |-> [t \in Pid |-> "IDLE"],
                retryList |-> [t \in Pid |-> <<>>],
                release |-> [t \in Pid |-> Off]]
    /\ retryEvent = [t \in Pid |-> Off]
    /\ owesRetry = FALSE
    /\ drainEvent = "no"
    /\ abort = "no"

----------------------------------------------------------------------------
(* The steps of the code, as sets of outcomes: a layer, whether the          *)
(* destination owes a retry, and the assertion that failed.                  *)

Outcome(ly, owes, assertion) == [layer |-> ly, owes |-> owes, abort |-> assertion]

Waiting(ly, t, p) == [ly EXCEPT !.retryList[t] = Append(@, p)]
PopFront(ly, t) == [ly EXCEPT !.retryList[t] = Tail(@)]

\* Mutant of occupyLayer: a retrying layer does not become busy.
occupyRetrying(ly, t, size, owes) ==
    Outcome([ly EXCEPT !.state[t] = IF ly.retryList[t] = <<>> THEN "BUSY" ELSE "RETRY",
                       !.release[t] = calcFinishTime(now, t, size)],
            owes, IF ly.release[t] = Off THEN "no" ELSE "schedule")

\* occupyLayer: busy for `size' cycles of the compartment.  Scheduling an event
\* that is scheduled already fails an assertion.
occupyLayer(ly, t, size, owes) ==
    Outcome([ly EXCEPT !.state[t] = "BUSY",
                       !.release[t] = calcFinishTime(now, t, size)],
            owes, IF ly.release[t] = Off THEN "no" ELSE "schedule")

\* calcPacketTiming and what follows when the destination is tried: accepted
\* (succeededTiming) or, in the request layer, rejected (failedTiming).
Attempt(accepted, rejected, t, owes) ==
    {occupyLayer(accepted, t, headerCycles + d, owes) : d \in DataCycles}
    \union (IF which = "request" THEN {occupyLayer(rejected, t, headerCycles, TRUE)}
            ELSE {})

\* Mutant of retryWaiting: a port that does not send keeps its place.
retryKeepsPlace(ly, owes) ==
    LET t == active_id(now)
    IN  IF ly.retryList[t] = <<>> THEN {Outcome(ly, owes, "retryWaiting")}
        ELSE IF ly.state[t] # "IDLE" THEN {Outcome(ly, owes, "no")}
        ELSE Attempt(PopFront(ly, t), ly, t, owes)
             \union {occupyLayer(ly, t, 1, owes)}

\* retryWaiting: the first port on the list of the active compartment retries.
\* It goes on holding its place when it is rejected, and loses it when it does
\* not send ("burn a cycle for the missed grant").
retryWaiting(ly, owes) ==
    LET t == active_id(now)
    IN  IF ly.retryList[t] = <<>> THEN {Outcome(ly, owes, "retryWaiting")}
        ELSE IF ly.state[t] # "IDLE" THEN {Outcome(ly, owes, "no")}
        ELSE Attempt(PopFront(ly, t), ly, t, owes)
             \union {occupyLayer(PopFront(ly, t), t, 1, owes)}

\* RR_NoncoherentBus::recvRetry calls Layer::recvRetry for the compartments in
\* order, which calls retryWaiting for those that are idle and have a port that
\* waits.  All calls work on the active compartment: the first one may occupy it,
\* and the others, however many they are, do the same as the second.
RetryOutcomes ==
    LET callers == {t \in Pid : layer.retryList[t] # <<>> /\ layer.state[t] = "IDLE"}
        Calls(o, t) == o.abort = "no" /\ o.layer.retryList[t] # <<>>
                                      /\ o.layer.state[t] = "IDLE"
        Others(o) == IF \E t, u \in callers : t < u /\ Calls(o, u)
                     THEN retryWaiting(o.layer, o.owes) ELSE {o}
    IN  IF callers = {} THEN {Outcome(layer, FALSE, "no")}
        ELSE UNION {Others(o) : o \in retryWaiting(layer, FALSE)}

----------------------------------------------------------------------------
(* Actions *)

Take(o) ==
    /\ layer' = o.layer
    /\ owesRetry' = o.owes
    /\ abort' = o.abort

\* recvTimingReq or recvTimingResp with a packet from port p, which is not on a
\* retry list: tryTiming, and if the layer is free the destination is tried.
recvTiming(p) ==
    LET t == tidOf[p]
    IN  /\ abort = "no" /\ p \notin Range(layer.retryList[t])
        /\ \/ /\ active_id(now) # t
              /\ Take(Outcome(Waiting(layer, t, p), owesRetry, "no"))
              /\ retryEvent' = [retryEvent EXCEPT ![t] =
                                   IF @ = Off THEN retryDelay(now, t) ELSE @]
           \/ /\ active_id(now) = t /\ layer.state[t] = "BUSY"
              /\ Take(Outcome(Waiting(layer, t, p), owesRetry, "no"))
              /\ UNCHANGED retryEvent
           \/ /\ active_id(now) = t /\ layer.state[t] = "IDLE"
              /\ \E o \in Attempt(layer, Waiting(layer, t, p), t, owesRetry) : Take(o)
              /\ UNCHANGED retryEvent
        /\ UNCHANGED <<now, drainEvent>>

\* The retry event of t fires.
RetryFires(t) ==
    /\ abort = "no" /\ retryEvent[t] = 0
    /\ retryEvent' = [retryEvent EXCEPT ![t] = Off]
    /\ \E o \in retryWaiting(layer, owesRetry) : Take(o)
    /\ UNCHANGED <<now, drainEvent>>

\* Mutants of releaseLayer: the ports that wait are not told to retry; someone is
\* assumed to wait.
releaseSilently(t) ==
    /\ abort = "no" /\ layer.release[t] = 0
    /\ \A u \in Pid : retryEvent[u] # 0
    /\ layer' = [layer EXCEPT !.release[t] = Off, !.state[active_id(now)] = "IDLE"]
    /\ UNCHANGED <<now, retryEvent, owesRetry, drainEvent, abort>>
releaseAndRetry(t) ==
    /\ abort = "no" /\ layer.release[t] = 0
    /\ \A u \in Pid : retryEvent[u] # 0
    /\ \E o \in retryWaiting([layer EXCEPT !.release[t] = Off,
                                           !.state[active_id(now)] = "IDLE"], owesRetry) :
          Take(o)
    /\ UNCHANGED <<now, retryEvent, drainEvent>>

\* The release event of t fires: releaseLayer works on the active compartment.
releaseLayer(t) ==
    LET a == active_id(now)
        fired == [layer EXCEPT !.release[t] = Off]
        idle == [fired EXCEPT !.state[a] = "IDLE"]
    IN  /\ abort = "no" /\ layer.release[t] = 0
        /\ \A u \in Pid : retryEvent[u] # 0
        /\ IF fired.state[a] # "BUSY" \/ fired.release[a] # Off
           THEN Take(Outcome(fired, owesRetry, "releaseLayer")) /\ UNCHANGED drainEvent
           ELSE IF idle.retryList[a] # <<>>
           THEN /\ \E o \in retryWaiting(idle, owesRetry) : Take(o)
                /\ UNCHANGED drainEvent
           ELSE /\ Take(Outcome(idle, owesRetry, "no"))
                /\ drainEvent' = IF drainEvent = "waiting" THEN "drained"
                                 ELSE drainEvent
        /\ UNCHANGED <<now, retryEvent>>

\* The destination that rejected a packet has room again.
PeerRetry ==
    /\ abort = "no" /\ owesRetry
    /\ \E o \in RetryOutcomes : Take(o)
    /\ UNCHANGED <<now, retryEvent, drainEvent>>

\* Layer::drain looks at compartment 0.
drain ==
    /\ abort = "no" /\ drainEvent = "no"
    /\ drainEvent' = IF layer.retryList[0] # <<>> \/ layer.state[0] # "IDLE"
                     THEN "waiting" ELSE "drained"
    /\ UNCHANGED <<now, layer, retryEvent, owesRetry, abort>>

\* Time passes when no event is due.
Tick ==
    LET Sooner(e) == IF e = Off THEN Off ELSE e - 1
    IN  /\ abort = "no"
        /\ \A t \in Pid : retryEvent[t] # 0 /\ layer.release[t] # 0
        /\ now' = (now + 1) % Period
        /\ retryEvent' = [t \in Pid |-> Sooner(retryEvent[t])]
        /\ layer' = [layer EXCEPT !.release = [t \in Pid |-> Sooner(@[t])]]
        /\ UNCHANGED <<owesRetry, drainEvent, abort>>

Next ==
    /\ \/ \E p \in Port : recvTiming(p)
       \/ \E t \in Pid : RetryFires(t) \/ releaseLayer(t)
       \/ PeerRetry \/ drain \/ Tick
    /\ UNCHANGED which

Spec == Init /\ [][Next]_vars

\* The event queue serves every event that is due and time goes on.
Clock ==
    /\ Tick \/ \E t \in Pid : RetryFires(t) \/ releaseLayer(t)
    /\ UNCHANGED which
FairSpec == Spec /\ WF_vars(Clock)

----------------------------------------------------------------------------
(* Properties *)

\* Type invariant.
TypeOK ==
    /\ which \in Layers
    /\ now \in 0..(Period - 1)
    /\ layer \in [state : [Pid -> {"IDLE", "BUSY"}], retryList : [Pid -> Seq(Port)],
                  release : [Pid -> Nat \union {Off}]]
    /\ retryEvent \in [Pid -> Nat \union {Off}]
    /\ owesRetry \in BOOLEAN
    /\ drainEvent \in {"no", "waiting", "drained"}
    /\ abort \in {"no", "schedule", "retryWaiting", "releaseLayer"}

\* releaseLayer finds the compartment that was occupied: a layer is released in
\* a turn of the compartment that occupied it, and busy until then.
ReleasedByOwner ==
    /\ abort \notin {"schedule", "releaseLayer"}
    /\ \A t \in Pid :
         /\ layer.state[t] = "BUSY" <=> layer.release[t] # Off
         /\ layer.release[t] # Off => active_id(now + layer.release[t]) = t

\* A port that waits is never forgotten: the layer is busy for its compartment
\* and will retry when released, or the retry event of its turn is scheduled.
WaitingIsRemembered ==
    abort = "no" =>
        \A t \in Pid : layer.retryList[t] # <<>> =>
            layer.state[t] = "BUSY" \/ retryEvent[t] # Off

\* "this should never be called with an empty retry list" (retryWaiting).
RetryListNotEmpty == abort # "retryWaiting"

\* The response layer, where nothing is rejected, keeps that promise whatever
\* order the releases and retry events of the compartments come in.
ResponsesRetrySomeone == which = "response" => RetryListNotEmpty

\* Every port of the response layer that waits is told to retry, or has its
\* packet forwarded, in the end: no compartment and no port of one is starved.
EveryoneGetsATurn ==
    \A p \in Port : which = "response" /\ p \in Range(layer.retryList[tidOf[p]])
                        ~> p \notin Range(layer.retryList[tidOf[p]])

\* The inductive invariant behind ReleasedByOwner and WaitingIsRemembered: a
\* retry event, too, fires in a turn of its compartment.
IInv ==
    /\ TypeOK /\ ReleasedByOwner /\ WaitingIsRemembered
    /\ \A t \in Pid : retryEvent[t] # Off => active_id(now + retryEvent[t]) = t
=============================================================================
