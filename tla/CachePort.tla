----------------------------- MODULE CachePort ------------------------------
(***************************************************************************)
(* The CPU side of a cache: the ports of the caches above it, the          *)
(* non-coherent bus between them and the cache (both layers), the blocking *)
(* of the cache when a queue is full, the targets of its MSHRs, and the    *)
(* packet queue through which it answers.                                  *)
(*                                                                         *)
(*   request:  Issue -> NoncoherentBus::recvTimingReq                      *)
(*                   -> CpuSidePort::recvTimingReq -> timingAccess         *)
(*   memory :  SendMiss, SendWriteback, Response (handleResponse)          *)
(*   answer :  schedSendTiming ... processSendEvent                        *)
(*                   -> NoncoherentBus::recvTimingResp                     *)
(*                                                                         *)
(* With SplitRPort the cache is a SplitRPortCache: one MSHR queue, write   *)
(* buffer and response queue per compartment behind one port.              *)
(*                                                                         *)
(* A call chain runs in one event, so it is one action; handlers are       *)
(* functions from states to states.  `c' holds what the handlers find      *)
(* elsewhere: whether the tags hit, which line has to be written back and  *)
(* how long a packet occupies the bus.                                     *)
(***************************************************************************)
EXTENDS EventQueue, BusLayer, MSHR

CONSTANTS Source,        \* ports of the caches above
          Line,          \* lines that are requested or evicted
          Sends,         \* Sends[s]: packets the cache behind port s sends
          Tc,            \* compartments that have queues of their own
          tc,            \* compartment of each source and line
          SplitRPort,    \* TRUE: SplitRPortCache, FALSE: Cache
          MSHRs,         \* param mshrs
          WriteBuffers,  \* param write_buffers
          numTarget,     \* param tgts_per_mshr
          Busy,          \* ticks a packet may occupy a layer
          hitLatency,    \* param latency
          fillLatency,   \* ticks from a fill to its answer, the transfer included
          NoLine

ASSUME SizesAssumption == MSHRs \in Nat \ {0} /\ WriteBuffers \in Nat \ {0}
                          /\ numTarget \in Nat \ {0, 1}
ASSUME TimesAssumption == Busy \subseteq Nat \ {0} /\ hitLatency \in Nat \ {0}
                          /\ fillLatency \in Nat /\ fillLatency > hitLatency
ASSUME PortAssumption == Tc \in {{0}, {0, 1}} /\ (SplitRPort \/ Tc = {0})
                         /\ tc \in [Source \union Line -> Tc]
                         /\ NoLine \notin Line
                         /\ Sends \in [Source -> SUBSET [cmd : {"Read", "ReadEx", "Writeback"},
                                                         line : Line]]

VARIABLES req, resp,   \* layers of the bus
          queue,       \* queue[t]: transmitList and waitingOnRetry
          events,      \* the event queue
          mshr,        \* mshr[l]
          ready,       \* ready[t]: ready list of the MSHR queue
          wbuf,        \* wbuf[t]: entries of the write buffer
          answered,    \* a response came in this tick
          gate,        \* blocked causes; blocked and mustSendRetry of the port
          noTarget,    \* noTargetMSHR
          source,      \* source[s]: packet the cache above has to send again,
                       \* and whether it waits for an answer
          arrived,     \* arrived[l]: requesters of l in the order of acceptance
          abort        \* assertion that stopped the simulator

vars == <<req, resp, queue, events, mshr, ready, wbuf, answered, gate, noTarget,
          source, arrived, abort>>

State == [req |-> req, resp |-> resp, queue |-> queue, events |-> events,
          mshr |-> mshr, ready |-> ready, wbuf |-> wbuf,
          answered |-> answered, gate |-> gate, noTarget |-> noTarget,
          source |-> source, arrived |-> arrived, abort |-> abort]

Becomes(S) ==
    /\ req' = S.req /\ resp' = S.resp /\ queue' = S.queue
    /\ events' = S.events /\ mshr' = S.mshr /\ ready' = S.ready
    /\ wbuf' = S.wbuf /\ answered' = S.answered /\ gate' = S.gate
    /\ noTarget' = S.noTarget
    /\ source' = S.source /\ arrived' = S.arrived /\ abort' = S.abort

Port == "cpuSidePort"
Cause == {"NoMSHRs", "NoWBBuffers", "NoTargets"}
Cmd == {"Read", "ReadEx", "Writeback"}
Packet == [cmd : Cmd, line : Line]
NoPacket == [cmd |-> "Read", line |-> NoLine]

\* The sendEvent of each response queue.
sendEvent(t) == IF t = 0 THEN "send0" ELSE "send1"

Init ==
    /\ req = IdleLayer /\ resp = IdleLayer
    /\ queue = [t \in Tc |-> [list |-> <<>>, waiting |-> FALSE]]
    /\ events = <<>>
    /\ mshr = [l \in Line |-> FreeMSHR]
    /\ ready = [t \in Tc |-> <<>>]
    /\ wbuf = [t \in Tc |-> <<>>]
    /\ answered = FALSE
    /\ gate = [causes |-> {}, blocked |-> FALSE, mustSendRetry |-> FALSE]
    /\ noTarget = NoLine
    /\ source = [s \in Source |-> [held |-> NoPacket, waiting |-> FALSE]]
    /\ arrived = [l \in Line |-> <<>>]
    /\ abort = "no"

Choice == [hit : BOOLEAN, victim : Line \union {NoLine}, busy : Busy]

\* A failing assertion ends the run, the rest of the handler included.
Fail(S, assertion) == [S EXCEPT !.abort = assertion]

----------------------------------------------------------------------------
(* The response queue: packet_queue.cc *)

\* Mutant of schedSendEvent: a scheduled event is scheduled again.
schedSendEventTwice(S, t, when) ==
    IF S.queue[t].waiting THEN S
    ELSE [S EXCEPT !.events = schedule(@, sendEvent(t), when)]

schedSendEvent(S, t, when) ==
    LET e == sendEvent(t)
    IN  IF S.queue[t].waiting
        THEN IF scheduled(S.events, e) THEN Fail(S, "schedSendEvent") ELSE S
        ELSE IF ~scheduled(S.events, e)
        THEN [S EXCEPT !.events = schedule(@, e, when)]
        ELSE IF whenOf(S.events, e) > when
        THEN [S EXCEPT !.events = reschedule(@, e, when)]
        ELSE S

\* schedSendTiming: an insertion sort by time; equal times keep their order.
schedSendTiming(S, t, s, when) ==
    LET list == S.queue[t].list
        first == list = <<>> \/ when < Head(list).tick
        p == CHOOSE i \in 1..(Len(list) + 1) :
               /\ \A j \in 1..(i - 1) : list[j].tick <= when
               /\ i <= Len(list) => list[i].tick > when
        S1 == [S EXCEPT !.queue[t].list =
                 InsertAt(list, p, [pkt |-> s, tick |-> when])]
    IN  IF first THEN schedSendEvent(S1, t, when) ELSE S1

\* NoncoherentBus::recvTimingResp for a packet that is let through: the cache
\* above takes every response.
Delivered(S, t, c) ==
    [S EXCEPT !.queue[t] = [list |-> Tail(@.list), waiting |-> FALSE],
              !.source[Head(S.queue[t].list).pkt].waiting = FALSE,
              !.resp = succeededTiming(@),
              !.events = schedule(@, "respRelease", c.busy)]

trySendTiming(S, t, c) ==
    IF ~Occupied(S.resp, Port) THEN Delivered(S, t, c)
    ELSE IF scheduled(S.events, sendEvent(t)) THEN Fail(S, "trySendTiming")
    ELSE [S EXCEPT !.queue[t].waiting = TRUE, !.resp = Enqueued(@, Port)]

\* scheduleSend with no other source of packets.
scheduleSend(S, t) ==
    LET list == S.queue[t].list
    IN  IF list # <<>> /\ ~scheduled(S.events, sendEvent(t))
        THEN [S EXCEPT !.events = schedule(@, sendEvent(t),
                 IF Head(list).tick > 1 THEN Head(list).tick ELSE 1)]
        ELSE S

deferredPacketReady(S, t) ==
    S.queue[t].list # <<>> /\ Head(S.queue[t].list).tick = 0

\* Mutant of sendDeferredPacket: the next send is not scheduled.
sendDeferredPacketOnce(S, t, c) ==
    IF deferredPacketReady(S, t) THEN trySendTiming(S, t, c) ELSE S

sendDeferredPacket(S, t, c) ==
    IF ~deferredPacketReady(S, t) THEN S
    ELSE LET S1 == trySendTiming(S, t, c)
         IN  IF S1.abort = "no" /\ ~S1.queue[t].waiting
             THEN scheduleSend(S1, t) ELSE S1

processSendEvent(S, t, c) ==
    IF S.queue[t].waiting THEN Fail(S, "processSendEvent")
    ELSE sendDeferredPacket(S, t, c)

\* recvRetry of the port: SRCpuSidePort retries the queue of every compartment.
recvRetry(S, c) ==
    LET S1 == sendDeferredPacket(S, 0, c)
    IN  IF Tc = {0} \/ S1.abort # "no" THEN S1 ELSE sendDeferredPacket(S1, 1, c)

respRetryWaiting(S, c) ==
    LET S1 == recvRetry([S EXCEPT !.resp = Retrying(@)], c)
    IN  IF S1.abort = "no" /\ S1.resp.state = "RETRY"
        THEN [S1 EXCEPT !.resp = MissedGrant(@),
                        !.events = schedule(@, "respRelease", c.busy)]
        ELSE S1

----------------------------------------------------------------------------
(* Blocking: base.hh, base.cc, split_rport_cache.hh *)

\* setBlocked.  The constructor of SplitRPortCache leaves a null pointer in
\* blocked_array, which its setBlocked dereferences.
setBlocked(S, cause) ==
    IF SplitRPort THEN Fail(S, "blocked_array")
    ELSE [S EXCEPT !.gate = [causes |-> @.causes \union {cause}, blocked |-> TRUE,
                             mustSendRetry |-> @.mustSendRetry]]

\* clearBlocked of the cache and, when no cause is left, of the port, whose
\* retry event must not be scheduled already.
clearBlocked(S, cause) ==
    LET S1 == [S EXCEPT !.gate.causes = @ \ {cause}]
    IN  IF S1.gate.causes # {} THEN S1
        ELSE IF ~S1.gate.blocked THEN Fail(S1, "clearBlocked")
        ELSE IF ~S1.gate.mustSendRetry
        THEN [S1 EXCEPT !.gate.blocked = FALSE]
        ELSE IF scheduled(S1.events, "sendRetry") THEN Fail(S1, "schedule")
        ELSE [S1 EXCEPT !.gate = [causes |-> {}, blocked |-> FALSE,
                                  mustSendRetry |-> FALSE],
                        !.events = schedule(@, "sendRetry", 1)]

\* MSHRQueue::isFull of the MSHR queue and the write buffer.
missFull(S, t) ==
    AtLeast(MSHRs, {l \in Line : tc[l] = t /\ Allocated(S.mshr[l])})
writeFull(S, t) == Len(S.wbuf[t]) >= WriteBuffers

\* allocateMissBuffer, allocateWriteBuffer: allocateBufferInternal.
allocateMissBuffer(S, l, t) ==
    LET S1 == [S EXCEPT !.mshr[l] = allocate(t),
                        !.ready[tc[l]] = Append(@, l)]
    IN  IF missFull(S1, tc[l]) THEN setBlocked(S1, "NoMSHRs") ELSE S1
allocateWriteBuffer(S, l) ==
    LET S1 == [S EXCEPT !.wbuf[tc[l]] =
                 Append(@, [line |-> l, tick |-> hitLatency])]
    IN  IF writeFull(S1, tc[l]) THEN setBlocked(S1, "NoWBBuffers") ELSE S1

\* A writeback of line l is pending.
Written(S, l) == \E i \in 1..Len(S.wbuf[tc[l]]) : S.wbuf[tc[l]][i].line = l

\* allocateBlock for line l: the block it replaces may hold any dirty line
\* without an MSHR, even one with a writeback pending, because a writeback from
\* above may have put it back.  It finds no block to replace only when it meets
\* one that waits for an exclusive copy.
Evictable(S, l) == {v \in Line : v # l /\ tc[v] = tc[l] /\ ~Allocated(S.mshr[v])}
NoneReplaceable(S, l) ==
    \E v \in Line : v # l /\ tc[v] = tc[l] /\ needsExclusive(S.mshr[v].targets)

\* The line that a handler leaves to be written back, if any.
Evict(S, v) == IF v = NoLine THEN S ELSE allocateWriteBuffer(S, v)

----------------------------------------------------------------------------
(* Requests: timingAccess and the bus in front of it *)

\* timingAccess after allocateTarget.
WithTarget(S, l, t) ==
    LET S1 == [S EXCEPT !.mshr[l] = allocateTarget(@, t)]
    IN  IF getNumTargets(S1.mshr[l]) = numTarget
        THEN setBlocked([S1 EXCEPT !.noTarget = l], "NoTargets") ELSE S1

\* A writeback goes into the cache, and the line it replaces into the write
\* buffer, or into the write buffer itself if nothing is replaceable.
timingAccess(S, s, pkt, c) ==
    LET l == pkt.line
        t == [src |-> s, ex |-> pkt.cmd = "ReadEx"]
        S1 == [S EXCEPT !.source[s] = [held |-> NoPacket, waiting |-> TRUE]]
        S2 == [S1 EXCEPT !.arrived[l] = Append(@, s)]
    IN  IF pkt.cmd = "Writeback"
        THEN Evict([S EXCEPT !.source[s].held = NoPacket], c.victim)
        ELSE IF c.hit THEN schedSendTiming(S1, tc[s], s, hitLatency)
        ELSE IF Allocated(S.mshr[l]) THEN WithTarget(S2, l, t)
        ELSE allocateMissBuffer(S2, l, t)

\* CpuSidePort::recvTimingReq within NoncoherentBus::recvTimingReq.
recvTimingReq(S, s, pkt, c) ==
    LET S1 == timingAccess(S, s, pkt, c)
    IN  IF Occupied(S.req, s)
        THEN [S EXCEPT !.req = Enqueued(@, s), !.source[s].held = pkt]
        ELSE IF S.gate.blocked
        THEN [S EXCEPT !.gate.mustSendRetry = TRUE, !.source[s].held = pkt,
                       !.req = failedTiming(@, s),
                       !.events = schedule(@, "reqRelease", c.busy)]
        ELSE IF S1.abort # "no" THEN S1
        ELSE [S1 EXCEPT !.req = succeededTiming(@),
                        !.events = schedule(@, "reqRelease", c.busy)]

\* retryWaiting of the request layer: the first port sends again, or the grant is
\* missed because it has nothing to send.
reqRetryWaiting(S, c) ==
    LET s == Head(S.req.retryList)
        S1 == [S EXCEPT !.req = Retrying(@)]
    IN  IF S.source[s].held # NoPacket
        THEN recvTimingReq(S1, s, S.source[s].held, c)
        ELSE [S1 EXCEPT !.req = MissedGrant(@),
                        !.events = schedule(@, "reqRelease", c.busy)]

\* What the tags can find for a request.  Any read may hit: even while the line
\* has an MSHR or is written back, a writeback from above may have put it into
\* the cache.  A writeback that finds no block to replace has no MSHR, whose
\* target it would become: no cache above fetches what another one modified.
Possible(S, pkt, c) ==
    LET l == pkt.line
    IN  /\ c.hit => pkt.cmd # "Writeback"
        /\ c.victim # NoLine =>
             /\ pkt.cmd = "Writeback"
             /\ \/ c.victim \in Evictable(S, l)
                \/ c.victim = l /\ NoneReplaceable(S, l) /\ ~Allocated(S.mshr[l])

\* The cache above sends a packet: a request if it has none outstanding, or a
\* writeback.
Issue(s, pkt) ==
    /\ abort = "no" /\ source[s].held = NoPacket
    /\ pkt.cmd # "Writeback" => ~source[s].waiting
    /\ \E c \in Choice :
         Possible(State, pkt, c) /\ Becomes(recvTimingReq(State, s, pkt, c))

----------------------------------------------------------------------------
(* Events *)

\* The event at the head of the queue is e; it is taken off.
Fires(e) == abort = "no" /\ Due(events) /\ Head(events).ev = e
Served == [State EXCEPT !.events = Tail(@)]

\* releaseLayer of the request layer.
ReleaseReq ==
    /\ Fires("reqRelease")
    /\ LET S == [Served EXCEPT !.req = Released(@)]
       IN  IF req.retryList = <<>> THEN Becomes(S)
           ELSE \E c \in Choice :
                  /\ Possible(S, source[Head(req.retryList)].held, c)
                  /\ Becomes(reqRetryWaiting(S, c))

\* The sendRetryEvent of the cache: Layer::recvRetry.
SendRetry ==
    /\ Fires("sendRetry")
    /\ IF req.retryList = <<>> \/ req.state # "IDLE" THEN Becomes(Served)
       ELSE \E c \in Choice :
              /\ Possible(Served, source[Head(req.retryList)].held, c)
              /\ Becomes(reqRetryWaiting(Served, c))

\* releaseLayer of the response layer.
ReleaseResp ==
    /\ Fires("respRelease")
    /\ LET S == [Served EXCEPT !.resp = Released(@)]
       IN  IF resp.retryList = <<>> THEN Becomes(S)
           ELSE \E c \in Choice : Becomes(respRetryWaiting(S, c))

SendEvent(t) ==
    /\ Fires(sendEvent(t))
    /\ \E c \in Choice : Becomes(processSendEvent(Served, t, c))

\* Time passes when no event is due.
Elapsed(n) == IF n = 0 THEN 0 ELSE n - 1
Running == events # <<>> \/ answered \/ \E t \in Tc : wbuf[t] # <<>>
Tick ==
    /\ abort = "no" /\ ~Due(events) /\ Running
    /\ events' = Advance(events)
    /\ queue' = [t \in Tc |->
          [list    |-> [i \in 1..Len(queue[t].list) |->
                          [queue[t].list[i] EXCEPT !.tick = Elapsed(@)]],
           waiting |-> queue[t].waiting]]
    /\ wbuf' = [t \in Tc |->
          [i \in 1..Len(wbuf[t]) |-> [wbuf[t][i] EXCEPT !.tick = Elapsed(@)]]]
    /\ answered' = FALSE
    /\ UNCHANGED <<req, resp, mshr, ready, gate, noTarget, source, arrived,
                   abort>>

----------------------------------------------------------------------------
(* The memory side: getNextMSHR, markInService, handleResponse *)

\* The entry of the write buffer that is sent before the first miss, or 0.
writeFirst(t) ==
    IF ready[t] # <<>> /\ ~writeFull(State, t)
    THEN IF Written(State, Head(ready[t]))
         THEN CHOOSE i \in 1..Len(wbuf[t]) :
                /\ wbuf[t][i].line = Head(ready[t])
                /\ \A j \in 1..(i - 1) : wbuf[t][j].line # Head(ready[t])
         ELSE 0
    ELSE IF wbuf[t] # <<>> /\ Head(wbuf[t]).tick = 0 THEN 1 ELSE 0

\* A writeback is sent; its entry is freed at once.
CanSendWriteback(t) == abort = "no" /\ writeFirst(t) # 0
SendWriteback(t) ==
    /\ CanSendWriteback(t)
    /\ LET i == writeFirst(t)
           S == [State EXCEPT !.wbuf[t] = RemoveAt(@, i)]
       IN  Becomes(IF writeFull(State, t) /\ ~writeFull(S, t)
                   THEN clearBlocked(S, "NoWBBuffers") ELSE S)

\* A miss is sent and waits for its response.
CanSendMiss(t) == abort = "no" /\ ready[t] # <<>> /\ writeFirst(t) = 0
SendMiss(t) ==
    /\ CanSendMiss(t)
    /\ \E owned \in BOOLEAN :
         Becomes([State EXCEPT !.mshr[Head(ready[t])] = markInService(@, owned),
                               !.ready[t] = Tail(@)])

\* satisfyCpuSideRequest and schedTimingResp for the targets, in order.
Answer(S, list) ==
    LET Answered[n \in 0..Len(list)] ==
          IF n = 0 THEN S
          ELSE IF Answered[n - 1].abort # "no" THEN Answered[n - 1]
          ELSE schedSendTiming(Answered[n - 1], tc[list[n].src], list[n].src,
                               fillLatency)
    IN  Answered[Len(list)]

\* Mutants of Retire: the cache is not unblocked; the promoted targets are not
\* put back in the ready list; the cache is unblocked whether or not the
\* queue was full.
RetireBlocked(S, l, wasFull, i) ==
    LET r == S.ready[tc[l]]
    IN  [S EXCEPT !.mshr[l] = promoteDeferredTargets(@),
                  !.ready[tc[l]] = IF S.mshr[l].deferred = <<>> THEN r
                                   ELSE InsertAt(r, i + 1, l)]
RetireForgets(S, l, wasFull, i) ==
    LET S1 == [S EXCEPT !.mshr[l] = promoteDeferredTargets(@)]
    IN  IF wasFull /\ ~missFull(S1, tc[l])
        THEN clearBlocked(S1, "NoMSHRs") ELSE S1
RetireUnblocks(S, l, wasFull, i) ==
    LET S1 == RetireBlocked(S, l, wasFull, i)
    IN  IF Allocated(S1.mshr[l]) THEN S1 ELSE clearBlocked(S1, "NoMSHRs")

\* The end of handleResponse: the MSHR waits again, somewhere in the ready list,
\* or is freed.
Retire(S, l, wasFull, i) ==
    LET S1 == [S EXCEPT !.mshr[l] = promoteDeferredTargets(@)]
        r == S.ready[tc[l]]
    IN  IF S.mshr[l].deferred # <<>>
        THEN [S1 EXCEPT !.ready[tc[l]] = InsertAt(r, i + 1, l)]
        ELSE IF wasFull /\ ~missFull(S1, tc[l])
        THEN clearBlocked(S1, "NoMSHRs") ELSE S1

handleResponse(S, l, shared, i, c) ==
    LET m == handleFill(S.mshr[l], shared)
        S1 == IF S.noTarget = l
              THEN clearBlocked([S EXCEPT !.noTarget = NoLine], "NoTargets")
              ELSE S
        S2 == Answer(S1, m.targets)
        S3 == [S2 EXCEPT !.mshr[l] = m,
                         !.arrived[l] = SubSeq(@, Len(m.targets) + 1, Len(@))]
        S4 == Retire(S3, l, missFull(S, tc[l]), i)
    IN  IF PromotedByFill(S.mshr[l], shared) /\ needsExclusive(S.mshr[l].targets)
        THEN Fail(S, "handleFill")
        ELSE IF S1.abort # "no" THEN S1
        ELSE IF S2.abort # "no" THEN S2
        ELSE IF S4.abort # "no" THEN S4
        ELSE Evict(S4, c.victim)

\* The response to a miss.  It is shared only if nothing exclusive was asked for
\* and no ownership was promised.  If no block is replaceable the temporary one is
\* used, and written back at the end if it is dirty: the response brought the
\* ownership and no target took it.
CanRespond(l) == abort = "no" /\ mshr[l].inService /\ ~answered
Response(l) ==
    /\ CanRespond(l)
    /\ \E shared \in BOOLEAN, c \in Choice, i \in 0..Len(ready[tc[l]]) :
         /\ shared => ~mshr[l].pendingDirty
         /\ ~c.hit
         /\ \/ c.victim \in Evictable(State, l) \union {NoLine}
            \/ /\ c.victim = l /\ NoneReplaceable(State, l) /\ ~shared
               /\ ~needsExclusive(handleFill(mshr[l], shared).targets)
         /\ i = Len(ready[tc[l]]) \/ mshr[l].deferred # <<>>
         /\ Becomes(handleResponse([State EXCEPT !.answered = TRUE],
                                l, shared, i, c))

----------------------------------------------------------------------------
Clock == ReleaseReq \/ SendRetry \/ ReleaseResp \/ Tick \/ \E t \in Tc : SendEvent(t)

Next ==
    \/ \E s \in Source : \E pkt \in Sends[s] : Issue(s, pkt)
    \/ Clock
    \/ \E t \in Tc : SendWriteback(t) \/ SendMiss(t)
    \/ \E l \in Line : Response(l)

Spec == Init /\ [][Next]_vars

\* Fairness, with the enabling conditions written out.  The simulator serves its
\* events and lets time pass (weak).  A miss or writeback that can be sent again
\* and again is sent: the bus to the memory is free between two of them (strong);
\* a miss that was sent is answered, one response in a tick (strong).
Fairness ==
    /\ \/ []<>(abort # "no" \/ ~Running) \/ []<><<Clock>>_vars
    /\ \A t \in Tc :
         /\ []<>CanSendWriteback(t) => []<><<SendWriteback(t)>>_vars
         /\ []<>CanSendMiss(t) => []<><<SendMiss(t)>>_vars
    /\ \A l \in Line : []<>CanRespond(l) => []<><<Response(l)>>_vars

FairSpec == Spec /\ Fairness

----------------------------------------------------------------------------
(* Properties *)

\* Type invariant; no event is scheduled twice.
TypeOK ==
    /\ req \in Layer(Source) /\ resp \in Layer({Port})
    /\ \A t \in Tc :
         /\ queue[t].list \in Seq([pkt : Source, tick : Nat])
         /\ queue[t].waiting \in BOOLEAN
         /\ ready[t] \in Seq(Line) /\ wbuf[t] \in Seq([line : Line, tick : Nat])
    /\ events \in Seq([ev : {"reqRelease", "respRelease", "sendRetry"}
                            \union {sendEvent(t) : t \in Tc}, when : Nat])
    /\ \A i, j \in 1..Len(events) : events[i].ev = events[j].ev => i = j
    /\ \A l \in Line : mshr[l] \in MSHRType(Source)
    /\ gate \in [causes : SUBSET Cause, blocked : BOOLEAN,
                 mustSendRetry : BOOLEAN]
    /\ noTarget \in Line \union {NoLine}

\* No assertion on the path of a request or an answer fails: not those of the
\* packet queue, of clearBlocked, of MSHR::handleFill, nor the event queue's
\* that nothing is scheduled twice.  This is said of a Cache whose write buffer
\* has one entry and that takes more than the one tick for a hit after which it
\* retries a port: with more entries, ScheduledOnce is violated.
NoAssertionFails == abort = "no"

\* EventQueue::schedule: assert(!event->scheduled()).  When the port is unblocked
\* its retry event is not waiting to be served already.
ScheduledOnce == abort # "schedule"

\* The blocked mask says which queues are full, through every order in which
\* misses, targets, evictions and responses fill and empty them, and the port
\* turns requests away exactly while a queue is full.
BlockedWhileFull ==
    /\ "NoMSHRs" \in gate.causes <=> \E t \in Tc : missFull(State, t)
    /\ "NoWBBuffers" \in gate.causes <=> \E t \in Tc : writeFull(State, t)
    /\ "NoTargets" \in gate.causes <=> noTarget # NoLine
    /\ \A l \in Line : l = noTarget <=> getNumTargets(mshr[l]) >= numTarget
    /\ gate.blocked <=> gate.causes # {}

\* A request that was turned away, by a busy bus or a blocked cache, is on the
\* retry list exactly once, and the bus has a release scheduled that will get
\* to it.
RejectedIsRemembered ==
    /\ \A s \in Source : source[s].held # NoPacket
                            <=> \E i \in 1..Len(req.retryList) : req.retryList[i] = s
    /\ \A i, j \in 1..Len(req.retryList) : req.retryList[i] = req.retryList[j] => i = j
    /\ req.retryList # <<>> => scheduled(events, "reqRelease")

\* An answer in the packet queue is never forgotten: the queue has a send event
\* no later than the answer is due, or it waits for the bus, which has the port
\* on its retry list and a release scheduled.
AnswerIsRemembered ==
    \A t \in Tc :
        queue[t].list # <<>> =>
            \/ /\ ~queue[t].waiting /\ scheduled(events, sendEvent(t))
               /\ whenOf(events, sendEvent(t)) <=
                    (IF Head(queue[t].list).tick > 1
                     THEN Head(queue[t].list).tick ELSE 1)
            \/ /\ queue[t].waiting /\ resp.retryList # <<>>
               /\ scheduled(events, "respRelease")

\* Requests for a line are answered in the order the cache accepted them,
\* although targets are deferred and promoted.
TargetsInOrder ==
    \A l \in Line :
        LET all == mshr[l].targets \o mshr[l].deferred
        IN  arrived[l] = [i \in 1..Len(all) |-> all[i].src]

\* No write is answered from a copy that may turn out to be shared.
WritesGetExclusive ==
    \A l \in Line : mshr[l].inService /\ ~mshr[l].pendingDirty
                         => ~needsExclusive(mshr[l].targets)

\* Every request of a cache above is answered, however often the bus or the
\* blocked cache turns it away and whatever else is queued in front of it.
Requesting(s) ==
    \/ source[s].waiting
    \/ source[s].held # NoPacket /\ source[s].held.cmd # "Writeback"
RequestsAnswered == \A s \in Source : Requesting(s) ~> ~Requesting(s)
=============================================================================
