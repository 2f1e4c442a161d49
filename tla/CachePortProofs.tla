-------------------------- MODULE CachePortProofs ---------------------------
(*****************************************************************************)
(* Proofs about CachePort for a Cache (SplitRPort is FALSE), for every set   *)
(* of caches above it and of lines, every size of its queues and every       *)
(* latency: each action keeps an invariant that implies the properties.      *)
(*****************************************************************************)
EXTENDS CachePortHandlerProofs

----------------------------------------------------------------------------
(* Events *)

\* The invariant is about the fields of the state.
LEMMA SameState ==
    ASSUME NEW R, NEW T, PortInv(R), DOMAIN T = Fields, SameMisses(T, R),
           SameRequests(T, R), SameAnswers(T, R), SameBlocks(T, R),
           T.events = R.events, T.abort = R.abort
    PROVE  PortInv(T)
<1>1. Typed(T)
  BY Zenon DEF PortInv, Typed, SameMisses, SameRequests, SameAnswers, SameBlocks
<1>2. Misses(T)
  BY Zenon DEF PortInv, Misses, SameMisses
<1>3. Blocks(R) => Blocks(T)
  BY DEF Blocks, SameMisses, SameBlocks
<1> QED BY <1>1, <1>2, <1>3, ZenonT(60) DEF PortInv, SameRequests, SameAnswers

\* A step that becomes a good state.
LEMMA BecomesGood ==
    ASSUME NEW R, PortInv(R), Becomes(R)
    PROVE  IInv'
<1>1. /\ DOMAIN State' = Fields /\ SameMisses(State', R) /\ SameRequests(State', R)
      /\ SameAnswers(State', R) /\ SameBlocks(State', R)
      /\ State'.events = R.events /\ State'.abort = R.abort
  BY Zenon DEF Becomes, State, Fields, SameMisses, SameRequests, SameAnswers, SameBlocks
<1>2. PortInv(State')
  BY <1>1, SameState
<1> QED BY <1>2 DEF IInv

\* The first event is taken off the queue.
LEMMA FireFacts ==
    ASSUME NEW S, PortInv(S), S.abort = "no", Due(S.events)
    PROVE  LET T == [S EXCEPT !.events = Tail(@)]
               e == Head(S.events).ev
           IN  /\ Typed(T) /\ Misses(T) /\ Blocks(T) /\ T.abort = "no"
               /\ SameRequests(T, S) /\ SameAnswers(T, S)
               /\ scheduled(S.events, e) /\ whenOf(S.events, e) = 0
               /\ Without(S.events, T.events, e)
<1> DEFINE T == [S EXCEPT !.events = Tail(S.events)]
           e == Head(S.events).ev
<1>1. /\ DOMAIN S = Fields /\ GoodEvents(S.events) /\ Typed(S) /\ Misses(S) /\ Blocks(S)
  BY Zenon DEF PortInv, Typed
<1>2. S.events # <<>> /\ Head(S.events).when = 0
  BY DEF Due
<1>3. /\ Without(S.events, Tail(S.events), e)
      /\ scheduled(S.events, e) /\ whenOf(S.events, e) = 0
  BY <1>1, <1>2, TailFacts, Zenon
<1>4. /\ DOMAIN T = Fields /\ SameMisses(T, S) /\ SameRequests(T, S) /\ SameAnswers(T, S)
      /\ SameBlocks(T, S) /\ T.abort = S.abort /\ T.events = Tail(S.events)
  BY <1>1 DEF Fields, SameMisses, SameRequests, SameAnswers, SameBlocks
<1> HIDE DEF T, e
<1>5. Typed(T)
  BY <1>1, <1>3, <1>4, Zenon
     DEF Typed, SameMisses, SameRequests, SameAnswers, SameBlocks, Without
<1>6. Misses(T)
  BY <1>1, <1>4, Zenon DEF Misses, SameMisses
<1>7. Blocks(T)
  BY <1>1, <1>4, Zenon DEF Blocks, SameMisses, SameBlocks
<1> QED BY <1>3, <1>4, <1>5, <1>6, <1>7 DEF T, e

\* A layer of the bus changes.
LEMMA LayerFrame ==
    ASSUME NEW S, Typed(S), Misses(S), Blocks(S), NEW q \in Layer(Source)
    PROVE  LET R == [S EXCEPT !.req = q]
           IN  /\ Typed(R) /\ Misses(R) /\ Blocks(R) /\ SameAnswers(R, S)
               /\ R.req = q /\ R.source = S.source /\ R.events = S.events
               /\ R.abort = S.abort
<1> DEFINE R == [S EXCEPT !.req = q]
<1>1. DOMAIN S = Fields
  BY DEF Typed
<1>2. /\ DOMAIN R = Fields /\ SameMisses(R, S) /\ SameAnswers(R, S) /\ SameBlocks(R, S)
      /\ R.req = q /\ R.source = S.source /\ R.events = S.events /\ R.abort = S.abort
  BY <1>1 DEF Fields, SameMisses, SameAnswers, SameBlocks
<1> HIDE DEF R
<1>3. Typed(R)
  BY <1>2, Zenon DEF Typed, SameMisses, SameAnswers, SameBlocks
<1>4. Misses(R)
  BY <1>2, Zenon DEF Misses, SameMisses
<1>5. Blocks(R)
  BY <1>2 DEF Blocks, SameMisses, SameBlocks
<1> QED BY <1>2, <1>3, <1>4, <1>5, Zenon DEF R

\* releaseLayer of the request layer, and the retry of the first port.
LEMMA ReleaseReqGood ==
    ASSUME ~SplitRPort, IInv, ReleaseReq
    PROVE  IInv'
<1> DEFINE S == State
           T == [S EXCEPT !.events = Tail(@)]
           q == Released(req)
           q2 == Retrying(q)
           U == [T EXCEPT !.req = q]
           V == [U EXCEPT !.req = q2]
           s == Head(req.retryList)
<1>1. /\ S.req = req /\ S.resp = resp /\ S.queue = queue /\ S.events = events
      /\ S.source = source /\ S.abort = "no"
  BY DEF State, ReleaseReq, Fires
<1>2. Due(S.events) /\ Head(S.events).ev = "reqRelease" /\ Served = T
  BY <1>1 DEF ReleaseReq, Fires, Served
<1>3. PortInv(S)
  BY DEF IInv
<1> HIDE DEF S
<1>4. /\ Typed(T) /\ Misses(T) /\ Blocks(T) /\ T.abort = "no"
      /\ SameRequests(T, S) /\ SameAnswers(T, S)
      /\ scheduled(S.events, "reqRelease")
      /\ Without(S.events, T.events, "reqRelease")
  BY <1>1, <1>2, <1>3, FireFacts, Zenon
<1> HIDE DEF T
<1>5. T.req = req /\ T.source = source /\ T.req \in Layer(Source)
  BY <1>1, <1>4, Zenon DEF SameRequests, Typed
<1>6. Held(req, source, S.events) /\ Sending(S.resp, S.queue[0], S.events)
  BY <1>1, <1>3 DEF PortInv
<1>7. /\ q \in Layer(Source) /\ q.state = "IDLE" /\ q.retryList = req.retryList
      /\ q2 \in Layer(Source) /\ q2.state = "RETRY" /\ q2.retryList = req.retryList
  BY <1>5, Zenon DEF Layer, Released, Retrying
<1> HIDE DEF q, q2
<1>8. /\ Typed(U) /\ Misses(U) /\ Blocks(U) /\ SameAnswers(U, T) /\ U.req = q
      /\ U.source = source /\ U.events = T.events /\ U.abort = "no"
  BY <1>4, <1>5, <1>7, LayerFrame
<1>9. /\ "respRelease" \in Events \ {"reqRelease"} /\ "send0" \in Events \ {"reqRelease"}
  BY DEF Events
<1>10. ~scheduled(T.events, "reqRelease") /\ Sending(S.resp, S.queue[0], T.events)
  BY <1>4, <1>6, <1>9, SendingFrame, Zenon DEF Without
<1>11. U = [Served EXCEPT !.req = Released(@)]
  BY <1>2, <1>5, Zenon DEF q, T, U
<1> HIDE DEF U
<1>12. CASE req.retryList = <<>>
  <2>1. Becomes(U)
    BY <1>11, <1>12 DEF ReleaseReq
  <2>2. Held(q, source, T.events)
    BY <1>6, <1>7, <1>10, <1>12 DEF Held
  <2>3. PortInv(U)
    BY <1>4, <1>8, <1>10, <2>2, Zenon DEF PortInv, SameAnswers
  <2> QED BY <2>1, <2>3, BecomesGood
<1>13. CASE req.retryList # <<>>
  <2>1. PICK c \in Choice : Becomes(reqRetryWaiting(U, c))
    BY <1>11, <1>13 DEF ReleaseReq
  <2>3. /\ Typed(V) /\ Misses(V) /\ Blocks(V) /\ SameAnswers(V, U) /\ V.req = q2
        /\ V.source = source /\ V.events = T.events /\ V.abort = "no"
    BY <1>7, <1>8, LayerFrame
  <2> HIDE DEF V
  <2>4. Sending(V.resp, V.queue[0], V.events)
    BY <1>4, <1>8, <1>10, <2>3, Zenon DEF SameAnswers
  <2>5. OnList(req.retryList, source)
    BY <1>6 DEF Held
  <2>6. req.retryList \in Seq(Source)
    BY <1>5 DEF Layer
  <2>7. s \in Source /\ 1 \in 1..Len(req.retryList) /\ req.retryList[1] = s
    BY <1>13, <2>6, HeadFacts
  <2>2. source[s].held # NoPacket
    BY <2>5, <2>7 DEF OnList
  <2>8. source[s].held \in Packet
    <3>1. source[s] \in Above
      BY <1>4, <1>5, <2>7, Zenon DEF Typed
    <3> QED BY <2>2, <3>1 DEF Above
  <2>11. reqRetryWaiting(U, c) = recvTimingReq(V, s, source[s].held, c)
    <3>1. Head(U.req.retryList) = s
      BY <1>7, <1>8
    <3>2. V = [U EXCEPT !.req = Retrying(@)]
      BY <1>8, Zenon DEF V, q2
    <3> QED BY <1>8, <2>2, <3>1, <3>2, Zenon DEF reqRetryWaiting
  <2>9. Trying(V, s)
    BY <1>7, <1>10, <1>13, <2>3, <2>5, Zenon DEF Trying
  <2>10. PortInv(recvTimingReq(V, s, source[s].held, c))
    BY <2>3, <2>4, <2>7, <2>8, <2>9, RecvReqFacts, Zenon
  <2> QED BY <2>1, <2>10, <2>11, BecomesGood
<1> QED BY <1>12, <1>13

\* A cache above sends a packet.
LEMMA IssueGood ==
    ASSUME ~SplitRPort, IInv, NEW s \in Source, NEW pkt \in Sends[s], Issue(s, pkt)
    PROVE  IInv'
<1> DEFINE S == State
<1>1. /\ S.req = req /\ S.source = source /\ S.events = events /\ S.abort = "no"
      /\ source[s].held = NoPacket
  BY Zenon DEF State, Issue
<1>2. PICK c \in Choice : Becomes(recvTimingReq(S, s, pkt, c))
  BY Zenon DEF Issue
<1>3. PortInv(S)
  BY DEF IInv
<1>4. pkt \in Packet
  BY PortAssumption DEF Packet, Cmd
<1> HIDE DEF S
<1>5. /\ Typed(S) /\ Misses(S) /\ Blocks(S) /\ Held(S.req, S.source, S.events)
      /\ Sending(S.resp, S.queue[0], S.events)
  BY <1>1, <1>3, Zenon DEF PortInv
<1>6. Trying(S, s)
  BY <1>1, <1>5, Zenon DEF Trying, Held
<1>7. PortInv(recvTimingReq(S, s, pkt, c))
  BY <1>1, <1>4, <1>5, <1>6, RecvReqFacts, Zenon
<1> QED BY <1>2, <1>7, BecomesGood

\* The retry of the cache finds the bus busy, or nobody waiting.
LEMMA SendRetryGood ==
    ASSUME IInv, SendRetry
    PROVE  IInv'
<1> DEFINE S == State
           T == [S EXCEPT !.events = Tail(@)]
<1>1. S.req = req /\ S.source = source /\ S.events = events /\ S.abort = "no"
  BY Zenon DEF State, SendRetry, Fires
<1>2. Due(S.events) /\ Head(S.events).ev = "sendRetry" /\ Served = T
  BY <1>1 DEF SendRetry, Fires, Served
<1>3. PortInv(S)
  BY DEF IInv
<1> HIDE DEF S
<1>4. /\ Typed(T) /\ Misses(T) /\ Blocks(T) /\ T.abort = "no"
      /\ SameRequests(T, S) /\ SameAnswers(T, S)
      /\ Without(S.events, T.events, "sendRetry")
  BY <1>1, <1>2, <1>3, FireFacts, ZenonT(60)
<1> HIDE DEF T
<1>5. Held(req, source, S.events) /\ Sending(S.resp, S.queue[0], S.events)
  BY <1>1, <1>3, Zenon DEF PortInv
<1>6. req.retryList = <<>> \/ req.state # "IDLE"
  BY <1>5, Zenon DEF Held
<1>7. Becomes(T)
  BY <1>2, <1>6 DEF SendRetry
<1>8. \A e \in {"reqRelease", "respRelease", "send0"} : Agree(S.events, T.events, e)
  BY <1>4, Zenon DEF Without, Events
<1>9. Held(req, source, T.events) /\ Sending(S.resp, S.queue[0], T.events)
  BY <1>5, <1>8, HeldFrame, SendingFrame, Zenon
<1>10. PortInv(T)
  BY <1>1, <1>4, <1>9, Zenon DEF PortInv, SameRequests, SameAnswers
<1> QED BY <1>7, <1>10, BecomesGood

\* The first answer goes through the bus, and the next is scheduled.
LEMMA DeliverFacts ==
    ASSUME ~SplitRPort, NEW S, Typed(S), Misses(S), Blocks(S), S.abort = "no",
           Held(S.req, S.source, S.events), S.queue[0].list # <<>>,
           Head(S.queue[0].list).tick = 0,
           ~scheduled(S.events, "send0"), ~scheduled(S.events, "respRelease"),
           \/ S.resp.state = "IDLE" /\ S.resp.retryList = <<>>
           \/ S.resp.state = "RETRY" /\ S.resp.retryList = <<Port>>,
           NEW c \in Choice
    PROVE  PortInv(sendDeferredPacket(S, 0, c)) /\ sendDeferredPacket(S, 0, c).resp.state = "BUSY"
<1> DEFINE R == sendDeferredPacket(S, 0, c)
           list == S.queue[0].list
           s == Head(list).pkt
           a == [list |-> Tail(list), waiting |-> FALSE]
           x == [S.source[s] EXCEPT !.waiting = FALSE]
           src == [S.source EXCEPT ![s] = x]
           q == succeededTiming(S.resp)
           ev == schedule(S.events, "respRelease", c.busy)
           que == [S.queue EXCEPT ![0] = a]
           D == [S EXCEPT !.queue = que, !.source = src, !.resp = q, !.events = ev]
           when == IF Head(Tail(list)).tick > 1 THEN Head(Tail(list)).tick ELSE 1
           ev2 == schedule(ev, "send0", when)
<1>1. /\ DOMAIN S = Fields /\ S.queue \in [Tc -> Answers] /\ 0 \in Tc
      /\ GoodEvents(S.events) /\ S.source \in [Source -> Above]
  BY OneQueue, Zenon DEF Typed
<1>2. S.queue[0] \in Answers /\ list \in Seq([pkt : Source, tick : Nat])
  BY <1>1, Zenon DEF Answers
<1>3. Head(list) \in [pkt : Source, tick : Nat] /\ Tail(list) \in Seq([pkt : Source, tick : Nat])
  BY <1>2, HeadFacts, Zenon
<1>4. s \in Source
  BY <1>3
<1>5. a \in Answers /\ a.list = Tail(list) /\ a.waiting = FALSE
  BY <1>3 DEF Answers
<1>6. S.source[s] \in Above
  BY <1>1, <1>4, Zenon
<1>7. x \in Above /\ x.held = S.source[s].held
  BY <1>6, Zenon DEF Above
<1>8. q = [state |-> "BUSY", retryList |-> <<>>]
  <2>1. Tail(<<Port>>) = <<>>
    BY SMTT(60)
  <2>2. (IF S.resp.state = "RETRY" THEN Tail(S.resp.retryList) ELSE S.resp.retryList) = <<>>
    BY <2>1, Zenon
  <2> QED BY <2>2, Zenon DEF succeededTiming
<1>9. q \in Layer({Port}) /\ q.state = "BUSY" /\ q.retryList = <<>>
  BY <1>8 DEF Layer
<1>10. c.busy \in Nat
  BY TimesAssumption, Zenon DEF Choice
<1>11. /\ "respRelease" \in Events /\ "send0" \in Events \ {"respRelease"}
       /\ "reqRelease" \in Events \ {"respRelease"} /\ "reqRelease" \in Events \ {"send0"}
       /\ "respRelease" \in Events \ {"send0"} /\ "send0" \in Events
  BY DEF Events
<1>12. With(S.events, ev, "respRelease", c.busy)
  BY <1>1, <1>10, <1>11, ScheduleFacts, Zenon
<1>13. D = Delivered(S, 0, c)
  BY <1>1, <1>2, Zenon DEF Delivered, Fields
<1>14. ~Occupied(S.resp, Port)
  BY DEF Occupied
<1> HIDE DEF list, s, x, a, q, ev
<1>15. src \in [Source -> Above] /\ que \in [Tc -> Answers] /\ que[0] = a
  BY <1>1, <1>4, <1>5, <1>7, Zenon
<1> HIDE DEF src, que
<1>16. /\ DOMAIN D = Fields /\ SameMisses(D, S) /\ SameBlocks(D, S) /\ D.req = S.req
       /\ D.source = src /\ D.queue = que /\ D.resp = q /\ D.events = ev
       /\ D.abort = S.abort
  BY <1>1 DEF Fields, SameMisses, SameBlocks
<1>17. trySendTiming(S, 0, c) = D
  BY <1>13, <1>14, Zenon DEF trySendTiming
<1>18. deferredPacketReady(S, 0)
  BY DEF deferredPacketReady
<1>19. R = scheduleSend(D, 0)
  BY <1>5, <1>15, <1>16, <1>17, <1>18, Zenon DEF sendDeferredPacket
<1>20. ~scheduled(ev, "send0") /\ GoodEvents(ev) /\ sendEvent(0) = "send0"
  BY <1>11, <1>12, Zenon DEF With, Agree, sendEvent
<1>21. R = IF Tail(list) # <<>> THEN [D EXCEPT !.events = ev2] ELSE D
  BY <1>5, <1>15, <1>16, <1>19, <1>20, Zenon DEF scheduleSend
<1>22. OnList(S.req.retryList, src)
  BY <1>1, <1>4, <1>7, OnListSame, Zenon DEF Held, src
<1>23. Held(S.req, src, ev)
  <2>1. Agree(S.events, ev, "reqRelease")
    BY <1>11, <1>12, Zenon DEF With
  <2> QED BY <1>22, <2>1, Zenon DEF Held, Agree
<1>24. scheduled(ev, "respRelease")
  BY <1>12 DEF With
<1> HIDE DEF D, R, ev2, when
<1>25. ASSUME NEW X, NEW e, GoodEvents(e), DOMAIN X = Fields, SameMisses(X, S),
              SameBlocks(X, S), X.req = S.req, X.source = src, X.queue = que,
              X.resp = q, X.events = e, X.abort = S.abort, Timely(a, e),
              Agree(ev, e, "reqRelease"), Agree(ev, e, "respRelease")
       PROVE  PortInv(X) /\ X.resp.state = "BUSY"
  <2>1. Typed(X)
    BY <1>9, <1>15, <1>25, Zenon DEF Typed, SameMisses, SameBlocks
  <2>2. Misses(X)
    BY <1>25, Zenon DEF Misses, SameMisses
  <2>3. Blocks(X)
    BY <1>25, Zenon DEF Blocks, SameMisses, SameBlocks
  <2>4. Held(X.req, X.source, X.events)
    BY <1>23, <1>25, HeldFrame, Zenon
  <2>5. Sending(X.resp, X.queue[0], X.events)
    BY <1>5, <1>9, <1>15, <1>24, <1>25, Zenon DEF Sending, Agree
  <2> QED BY <1>9, <1>25, <2>1, <2>2, <2>3, <2>4, <2>5, Zenon DEF PortInv
<1>26. CASE Tail(list) = <<>>
  <2>1. R = D
    BY <1>21, <1>26, Zenon
  <2>2. Timely(a, ev)
    BY <1>5, <1>20, <1>26 DEF Timely
  <2>3. \A e : Agree(ev, ev, e)
    BY Zenon DEF Agree
  <2>4. PortInv(D) /\ D.resp.state = "BUSY"
    BY <1>16, <1>20, <1>25, <2>2, <2>3, Zenon
  <2> QED BY <2>1, <2>4 DEF R
<1>27. CASE Tail(list) # <<>>
  <2>1. R = [D EXCEPT !.events = ev2]
    BY <1>21, <1>27, Zenon
  <2>2. Head(Tail(list)) \in [pkt : Source, tick : Nat]
    BY <1>3, <1>27, HeadFacts, Zenon
  <2>3. Head(Tail(list)).tick \in Nat
    BY <2>2, Zenon
  <2>4. when \in Nat /\ Head(Tail(list)).tick <= when
    <3> DEFINE n == Head(Tail(list)).tick
    <3>1. when = IF n > 1 THEN n ELSE 1
      BY DEF when
    <3>2. n \in Nat
      BY <2>3, Zenon
    <3> HIDE DEF n
    <3>3. when \in Nat /\ n <= when
      BY <3>1, <3>2
    <3> QED BY <3>3, Zenon DEF n
  <2>5. With(ev, ev2, "send0", when)
    BY <1>11, <1>20, <2>4, ScheduleFacts, Zenon DEF ev2
  <2>6. Timely(a, ev2)
    BY <1>5, <1>27, <2>3, <2>4, <2>5, SMTT(60) DEF Timely, With, when
  <2>7. GoodEvents(ev2) /\ Agree(ev, ev2, "reqRelease") /\ Agree(ev, ev2, "respRelease")
    BY <1>11, <2>5, Zenon DEF With
  <2>8. /\ DOMAIN R = Fields /\ SameMisses(R, S) /\ SameBlocks(R, S) /\ R.req = S.req
        /\ R.source = src /\ R.queue = que /\ R.resp = q /\ R.events = ev2
        /\ R.abort = S.abort
    BY <1>16, <2>1 DEF Fields, SameMisses, SameBlocks
  <2>9. PortInv(R) /\ R.resp.state = "BUSY"
    BY <1>25, <2>6, <2>7, <2>8, Zenon
  <2> QED BY <2>9 DEF R
<1> QED BY <1>26, <1>27

\* The response layer changes.
LEMMA RespFrame ==
    ASSUME NEW S, Typed(S), Misses(S), Blocks(S), NEW q \in Layer({Port})
    PROVE  LET R == [S EXCEPT !.resp = q]
           IN  /\ Typed(R) /\ Misses(R) /\ Blocks(R) /\ SameRequests(R, S)
               /\ R.resp = q /\ R.queue = S.queue /\ R.events = S.events
               /\ R.abort = S.abort
<1> DEFINE R == [S EXCEPT !.resp = q]
<1>1. DOMAIN S = Fields
  BY DEF Typed
<1>2. /\ DOMAIN R = Fields /\ SameMisses(R, S) /\ SameRequests(R, S) /\ SameBlocks(R, S)
      /\ R.resp = q /\ R.queue = S.queue /\ R.events = S.events /\ R.abort = S.abort
  BY <1>1 DEF Fields, SameMisses, SameRequests, SameBlocks
<1> HIDE DEF R
<1>3. Typed(R)
  BY <1>2, Zenon DEF Typed, SameMisses, SameRequests, SameBlocks
<1>4. Misses(R)
  BY <1>2, Zenon DEF Misses, SameMisses
<1>5. Blocks(R)
  BY <1>2 DEF Blocks, SameMisses, SameBlocks
<1> QED BY <1>2, <1>3, <1>4, <1>5, Zenon DEF R

\* releaseLayer of the response layer: the packet queue that waits gets through.
LEMMA ReleaseRespGood ==
    ASSUME ~SplitRPort, IInv, ReleaseResp
    PROVE  IInv'
<1> DEFINE S == State
           T == [S EXCEPT !.events = Tail(@)]
           q == Released(resp)
           q2 == Retrying(q)
           U == [T EXCEPT !.resp = q]
           V == [U EXCEPT !.resp = q2]
<1>1. /\ S.resp = resp /\ S.queue = queue /\ S.events = events /\ S.abort = "no"
  BY DEF State, ReleaseResp, Fires
<1>2. Due(S.events) /\ Head(S.events).ev = "respRelease" /\ Served = T
  BY <1>1 DEF ReleaseResp, Fires, Served
<1>3. PortInv(S)
  BY DEF IInv
<1> HIDE DEF S
<1>4. /\ Typed(T) /\ Misses(T) /\ Blocks(T) /\ T.abort = "no"
      /\ SameRequests(T, S) /\ SameAnswers(T, S)
      /\ Without(S.events, T.events, "respRelease")
  BY <1>1, <1>2, <1>3, FireFacts, ZenonT(60)
<1> HIDE DEF T
<1>5. T.resp = resp /\ T.queue = queue /\ resp \in Layer({Port})
  BY <1>1, <1>4, Zenon DEF SameAnswers, Typed
<1>6. Held(S.req, S.source, S.events) /\ Sending(resp, queue[0], S.events)
  BY <1>1, <1>3 DEF PortInv
<1>7. /\ q \in Layer({Port}) /\ q.state = "IDLE" /\ q.retryList = resp.retryList
      /\ q2 \in Layer({Port}) /\ q2.state = "RETRY" /\ q2.retryList = resp.retryList
  BY <1>5, Zenon DEF Layer, Released, Retrying
<1> HIDE DEF q, q2
<1>8. /\ Typed(U) /\ Misses(U) /\ Blocks(U) /\ SameRequests(U, T) /\ U.resp = q
      /\ U.queue = queue /\ U.events = T.events /\ U.abort = "no"
  BY <1>4, <1>5, <1>7, RespFrame
<1>9. ~scheduled(T.events, "respRelease") /\ Agree(S.events, T.events, "send0")
      /\ Agree(S.events, T.events, "reqRelease")
  BY <1>4 DEF Without, Events
<1>10. Held(U.req, U.source, U.events)
  BY <1>4, <1>6, <1>8, <1>9, HeldFrame DEF SameRequests
<1>11. U = [Served EXCEPT !.resp = Released(@)]
  BY <1>2, <1>5, Zenon DEF q, T, U
<1> HIDE DEF U
<1>12. CASE resp.retryList = <<>>
  <2>1. Becomes(U)
    BY <1>11, <1>12 DEF ReleaseResp
  <2>2. ~queue[0].waiting /\ Timely(queue[0], S.events)
    BY <1>6, <1>12 DEF Sending
  <2>3. Timely(queue[0], T.events)
    BY <1>9, <2>2, Zenon DEF Timely, Agree
  <2>4. Sending(q, queue[0], T.events)
    BY <1>7, <1>9, <1>12, <2>2, <2>3, Zenon DEF Sending
  <2>5. PortInv(U)
    BY <1>8, <1>10, <2>4 DEF PortInv
  <2> QED BY <2>1, <2>5, BecomesGood
<1>13. CASE resp.retryList # <<>>
  <2>1. PICK c \in Choice : Becomes(respRetryWaiting(U, c))
    BY <1>11, <1>13, Zenon DEF ReleaseResp
  <2>2. /\ queue[0].list # <<>> /\ Head(queue[0].list).tick = 0
        /\ ~scheduled(T.events, "send0") /\ resp.retryList = <<Port>>
    BY <1>6, <1>9, <1>13 DEF Sending, Agree
  <2>3. /\ Typed(V) /\ Misses(V) /\ Blocks(V) /\ SameRequests(V, U) /\ V.resp = q2
        /\ V.queue = queue /\ V.events = T.events /\ V.abort = "no"
    BY <1>7, <1>8, RespFrame
  <2>4. V = [U EXCEPT !.resp = Retrying(@)]
    BY <1>8, Zenon DEF q2
  <2> HIDE DEF V
  <2>5. Held(V.req, V.source, V.events)
    BY <1>8, <1>10, <2>3 DEF SameRequests
  <2>6. /\ PortInv(sendDeferredPacket(V, 0, c))
        /\ sendDeferredPacket(V, 0, c).resp.state = "BUSY"
    BY <1>7, <1>9, <2>2, <2>3, <2>5, DeliverFacts, Zenon
  <2>7. recvRetry(V, c) = sendDeferredPacket(V, 0, c)
    BY OneQueue DEF recvRetry
  <2>8. respRetryWaiting(U, c) = sendDeferredPacket(V, 0, c)
    BY <2>4, <2>6, <2>7 DEF respRetryWaiting
  <2> QED BY <2>1, <2>6, <2>8, BecomesGood
<1> QED BY <1>12, <1>13

\* The send event finds an answer that is due, and sends it or waits for the bus.
LEMMA SendEventGood ==
    ASSUME ~SplitRPort, IInv, NEW t \in Tc, SendEvent(t)
    PROVE  IInv'
<1> DEFINE S == State
           T == [S EXCEPT !.events = Tail(@)]
<1>1. /\ S.resp = resp /\ S.queue = queue /\ S.events = events /\ S.abort = "no"
  BY DEF State, SendEvent, Fires
<1>2. t = 0 /\ sendEvent(t) = "send0"
  BY OneQueue DEF sendEvent
<1>3. Due(S.events) /\ Head(S.events).ev = "send0" /\ Served = T
  BY <1>1, <1>2 DEF SendEvent, Fires, Served
<1>4. PICK c \in Choice : Becomes(processSendEvent(T, 0, c))
  BY <1>2, <1>3 DEF SendEvent
<1>5. PortInv(S)
  BY DEF IInv
<1> HIDE DEF S
<1>6. /\ Typed(T) /\ Misses(T) /\ Blocks(T) /\ T.abort = "no"
      /\ SameRequests(T, S) /\ SameAnswers(T, S)
      /\ scheduled(S.events, "send0") /\ whenOf(S.events, "send0") = 0
      /\ Without(S.events, T.events, "send0")
  BY <1>1, <1>3, <1>5, FireFacts, ZenonT(60)
<1> HIDE DEF T
<1>7. T.resp = resp /\ T.queue = queue /\ resp \in Layer({Port}) /\ queue[0] \in Answers
  BY <1>1, <1>2, <1>6, Zenon DEF SameAnswers, Typed
<1>8. Held(S.req, S.source, S.events) /\ Sending(resp, queue[0], S.events)
  BY <1>1, <1>5 DEF PortInv
<1>9. /\ ~queue[0].waiting /\ queue[0].list # <<>> /\ Head(queue[0].list).tick <= 0
      /\ resp.retryList = <<>>
  BY <1>6, <1>8, Zenon DEF Sending, Timely
<1>10. Head(queue[0].list).tick = 0
  <2>1. queue[0].list \in Seq([pkt : Source, tick : Nat])
    BY <1>7 DEF Answers
  <2>2. Head(queue[0].list) \in [pkt : Source, tick : Nat]
    BY <1>9, <2>1, HeadFacts, Zenon
  <2> QED BY <1>9, <2>2
<1>11. processSendEvent(T, 0, c) = sendDeferredPacket(T, 0, c)
  BY <1>7, <1>9 DEF processSendEvent
<1>12. /\ ~scheduled(T.events, "send0") /\ Agree(S.events, T.events, "respRelease")
       /\ Agree(S.events, T.events, "reqRelease")
  BY <1>6, Zenon DEF Without, Events
<1>13. Held(T.req, T.source, T.events)
  BY <1>6, <1>8, <1>12, HeldFrame DEF SameRequests
<1>14. CASE resp.state = "IDLE"
  <2>1. ~scheduled(T.events, "respRelease")
    BY <1>8, <1>12, <1>14 DEF Sending, Agree
  <2>2. PortInv(sendDeferredPacket(T, 0, c))
    BY <1>6, <1>7, <1>9, <1>10, <1>12, <1>13, <1>14, <2>1, DeliverFacts, Zenon
  <2> QED BY <1>4, <1>11, <2>2, BecomesGood, Zenon
<1>15. CASE resp.state = "BUSY"
  <2> DEFINE q == Enqueued(resp, Port)
             a == [queue[0] EXCEPT !.waiting = TRUE]
             que == [queue EXCEPT ![0] = a]
             R == [T EXCEPT !.queue = que, !.resp = q]
  <2>1. q \in Layer({Port}) /\ q.state = "BUSY" /\ q.retryList = <<Port>>
    <3>1. Append(<<>>, Port) = <<Port>> /\ <<Port>> \in Seq({Port})
      OBVIOUS
    <3>2. q = [resp EXCEPT !.retryList = <<Port>>]
      BY <1>9, <3>1 DEF Enqueued
    <3> QED BY <1>7, <1>15, <3>1, <3>2, Zenon DEF Layer
  <2>2. a \in Answers /\ a.list = queue[0].list /\ a.waiting = TRUE
    BY <1>7, Zenon DEF Answers
  <2>3. DOMAIN T = Fields /\ queue \in [Tc -> Answers] /\ 0 \in Tc
    BY <1>2, <1>6, <1>7, Zenon DEF Typed
  <2>4. trySendTiming(T, 0, c) = R
    BY <1>2, <1>7, <1>12, <1>15, <2>3 DEF trySendTiming, Occupied, Fields
  <2> HIDE DEF q, a
  <2>5. que \in [Tc -> Answers] /\ que[0] = a
    BY <2>2, <2>3
  <2> HIDE DEF que
  <2>6. /\ DOMAIN R = Fields /\ SameMisses(R, T) /\ SameRequests(R, T) /\ SameBlocks(R, T)
        /\ R.queue = que /\ R.resp = q /\ R.events = T.events /\ R.abort = "no"
    BY <1>6, <2>3 DEF Fields, SameMisses, SameRequests, SameBlocks
  <2> HIDE DEF R
  <2>7. deferredPacketReady(T, 0)
    BY <1>7, <1>9, <1>10 DEF deferredPacketReady
  <2>8. sendDeferredPacket(T, 0, c) = R
    BY <2>2, <2>4, <2>5, <2>6, <2>7, Zenon DEF sendDeferredPacket
  <2>9. Typed(R)
    BY <1>6, <2>1, <2>5, <2>6, Zenon DEF Typed, SameMisses, SameRequests, SameBlocks
  <2>10. Misses(R)
    BY <1>6, <2>6, Zenon DEF Misses, SameMisses
  <2>11. Blocks(R)
    BY <1>6, <2>6, Zenon DEF Blocks, SameMisses, SameBlocks
  <2>12. scheduled(T.events, "respRelease")
    BY <1>8, <1>12, <1>15, Zenon DEF Sending, Agree
  <2>13. Sending(q, a, T.events)
    BY <1>9, <1>10, <1>12, <2>1, <2>2, <2>12, Zenon DEF Sending
  <2>14. PortInv(R)
    BY <1>13, <2>5, <2>6, <2>9, <2>10, <2>11, <2>13, Zenon DEF PortInv, SameRequests
  <2> QED BY <1>4, <1>11, <2>8, <2>14, BecomesGood
<1> QED BY <1>8, <1>14, <1>15, Zenon DEF Sending

\* A list whose times elapse.
LEMMA ElapsedList ==
    ASSUME NEW D, NEW list \in Seq([pkt : D, tick : Nat])
    PROVE  LET r == [i \in 1..Len(list) |-> [list[i] EXCEPT !.tick = Elapsed(@)]]
           IN  /\ r \in Seq([pkt : D, tick : Nat]) /\ Len(r) = Len(list)
               /\ r = <<>> <=> list = <<>>
               /\ list # <<>> => /\ Head(list).tick \in Nat
                                 /\ Head(r).tick = Elapsed(Head(list).tick)
<1> DEFINE T == [pkt : D, tick : Nat]
           n == Len(list)
           f(i) == [list[i] EXCEPT !.tick = Elapsed(@)]
           r == [i \in 1..n |-> f(i)]
<1>1. list \in Seq(T)
  OBVIOUS
<1> HIDE DEF T
<1>2. n \in Nat /\ \A i \in 1..n : list[i] \in T
  BY <1>1, SeqElement
<1>3. \A k \in Nat : Elapsed(k) \in Nat
  BY DEF Elapsed
<1>4. \A i \in 1..n : f(i) \in T /\ f(i).tick = Elapsed(list[i].tick) /\ list[i].tick \in Nat
  BY <1>2, <1>3, ZenonT(60) DEF T
<1> HIDE DEF n, f
<1>5. r \in Seq(T) /\ Len(r) = n
  BY <1>2, <1>4
<1>6. r = <<>> <=> n = 0
  BY <1>2, <1>5, SeqEmpty
<1>7. list = <<>> <=> n = 0
  BY <1>1, SeqEmpty DEF n
<1>8. ASSUME list # <<>>
      PROVE  Head(list).tick \in Nat /\ Head(r).tick = Elapsed(Head(list).tick)
  <2>1. 1 \in 1..n /\ Head(list) = list[1]
    BY <1>1, <1>8, HeadFacts DEF n
  <2>2. r # <<>>
    BY <1>6, <1>7, <1>8
  <2>3. Head(r) = r[1]
    BY <1>5, <2>2, HeadFacts
  <2>4. r[1] = f(1)
    BY <2>1
  <2> QED BY <1>4, <2>1, <2>3, <2>4
<1>9. /\ r \in Seq([pkt : D, tick : Nat]) /\ Len(r) = Len(list)
      /\ r = <<>> <=> list = <<>>
      /\ list # <<>> => /\ Head(list).tick \in Nat
                        /\ Head(r).tick = Elapsed(Head(list).tick)
  BY <1>5, <1>6, <1>7, <1>8 DEF T, n
<1> QED BY <1>9, Zenon DEF n, f

\* Time that passes leaves the write buffers alone up to the ages of their entries.
LEMMA ElapsedWrites ==
    ASSUME NEW list \in Seq([line : Line, tick : Nat])
    PROVE  LET r == [i \in 1..Len(list) |-> [list[i] EXCEPT !.tick = Elapsed(@)]]
           IN  r \in Seq([line : Line, tick : Nat]) /\ Len(r) = Len(list)
<1> DEFINE T == [line : Line, tick : Nat]
           n == Len(list)
           f(i) == [list[i] EXCEPT !.tick = Elapsed(@)]
           r == [i \in 1..n |-> f(i)]
<1>1. list \in Seq(T)
  OBVIOUS
<1> HIDE DEF T
<1>2. n \in Nat /\ \A i \in 1..n : list[i] \in T
  BY <1>1, SeqElement
<1>3. \A k \in Nat : Elapsed(k) \in Nat
  BY DEF Elapsed
<1>4. \A i \in 1..n : f(i) \in T
  BY <1>2, <1>3, ZenonT(60) DEF T
<1> HIDE DEF n, f
<1>5. r \in Seq(T) /\ Len(r) = n
  BY <1>2, <1>4
<1> QED BY <1>5 DEF T, n, f

\* Time passes.
LEMMA TickGood ==
    ASSUME ~SplitRPort, IInv, Tick
    PROVE  IInv'
<1> DEFINE S == State
           b == [i \in 1..Len(queue[0].list) |->
                   [queue[0].list[i] EXCEPT !.tick = Elapsed(@)]]
           a == [list |-> b, waiting |-> queue[0].waiting]
           w == [i \in 1..Len(wbuf[0]) |-> [wbuf[0][i] EXCEPT !.tick = Elapsed(@)]]
           ev == Advance(events)
           T == State'
<1>1. /\ S.resp = resp /\ S.queue = queue /\ S.events = events /\ S.abort = "no"
      /\ S.req = req /\ S.source = source /\ S.wbuf = wbuf
  BY DEF State, Tick
<1>2. PortInv(S)
  BY DEF IInv
<1>3. Tc = {0}
  BY OneQueue
<1>4. queue' = [t \in Tc |-> a] /\ wbuf' = [t \in Tc |-> w] /\ events' = ev
  BY <1>3 DEF Tick
<1>5. /\ DOMAIN T = Fields /\ SameMisses(T, S) /\ SameRequests(T, S) /\ T.resp = S.resp
      /\ T.gate = S.gate /\ T.noTarget = S.noTarget /\ T.abort = S.abort
      /\ T.queue = queue' /\ T.wbuf = wbuf' /\ T.events = events'
  BY DEF Tick, State, Fields, SameMisses, SameRequests
<1> HIDE DEF S, T, ev
<1>6. /\ Typed(S) /\ Misses(S) /\ Blocks(S) /\ Held(S.req, S.source, S.events)
      /\ Sending(S.resp, queue[0], S.events) /\ GoodEvents(S.events)
      /\ queue[0] \in Answers /\ wbuf[0] \in Seq([line : Line, tick : Nat])
  BY <1>1, <1>2, <1>3, Zenon DEF PortInv, Typed
<1>7. /\ GoodEvents(ev)
      /\ \A e \in Events :
           /\ scheduled(ev, e) <=> scheduled(S.events, e)
           /\ scheduled(S.events, e) => /\ whenOf(S.events, e) \in Nat \ {0}
                                        /\ whenOf(ev, e) = whenOf(S.events, e) - 1
  BY <1>1, <1>6, AdvanceFacts DEF Tick, ev
<1>8. /\ b \in Seq([pkt : Source, tick : Nat])
      /\ b = <<>> <=> queue[0].list = <<>>
      /\ queue[0].list # <<>> => /\ Head(queue[0].list).tick \in Nat
                                 /\ Head(b).tick = Elapsed(Head(queue[0].list).tick)
  BY <1>6, ElapsedList, Zenon DEF Answers
<1>9. w \in Seq([line : Line, tick : Nat]) /\ Len(w) = Len(wbuf[0])
  BY <1>6, ElapsedWrites, Zenon
<1> HIDE DEF b, w
<1>10. a \in Answers /\ a.list = b /\ a.waiting = queue[0].waiting
  BY <1>6, <1>8, Zenon DEF Answers
<1> HIDE DEF a
<1>11. /\ T.queue \in [Tc -> Answers] /\ T.queue[0] = a
       /\ T.wbuf \in [Tc -> Seq([line : Line, tick : Nat])] /\ T.wbuf[0] = w
       /\ T.events = ev
  BY <1>3, <1>4, <1>5, <1>9, <1>10
<1>12. Typed(T)
  BY <1>5, <1>6, <1>7, <1>11, Zenon DEF Typed, SameMisses, SameRequests
<1>13. Misses(T)
  BY <1>5, <1>6, Zenon DEF Misses, SameMisses
<1>14. Blocks(T)
  BY <1>1, <1>5, <1>6, <1>9, <1>11, Zenon DEF Blocks, Full, SameMisses
<1>15. "reqRelease" \in Events /\ "respRelease" \in Events /\ "send0" \in Events
  BY DEF Events
<1>16. Held(T.req, T.source, T.events)
  BY <1>5, <1>6, <1>7, <1>11, <1>15, Zenon DEF Held, SameRequests
<1>17. Elapsed(0) = 0
  BY ZenonT(60) DEF Elapsed
<1>18. Timely(queue[0], S.events) => Timely(a, ev)
  <2> SUFFICES ASSUME Timely(queue[0], S.events) PROVE Timely(a, ev)
    BY Zenon
  <2>1. CASE queue[0].list = <<>>
    BY <1>7, <1>8, <1>10, <1>15, <2>1 DEF Timely
  <2>2. CASE queue[0].list # <<>>
    <3> DEFINE k == Head(queue[0].list).tick
               m == whenOf(S.events, "send0")
    <3>1. /\ scheduled(S.events, "send0") /\ k <= m /\ m <= (IF k > 1 THEN k ELSE 1)
      BY <2>2, ZenonT(60) DEF Timely
    <3>2. /\ k \in Nat /\ Head(b).tick = Elapsed(k) /\ b # <<>>
          /\ m \in Nat \ {0} /\ whenOf(ev, "send0") = m - 1 /\ scheduled(ev, "send0")
      BY <1>7, <1>8, <1>15, <2>2, <3>1
    <3> HIDE DEF k, m
    <3>3. /\ Elapsed(k) <= m - 1
          /\ m - 1 <= (IF Elapsed(k) > 1 THEN Elapsed(k) ELSE 1)
      BY <3>1, <3>2 DEF Elapsed
    <3> QED BY <1>10, <3>2, <3>3, Zenon DEF Timely
  <2> QED BY <2>1, <2>2
<1>19. Sending(T.resp, T.queue[0], T.events)
  <2>1. scheduled(ev, "respRelease") <=> scheduled(S.events, "respRelease")
    BY <1>7, <1>15
  <2>2. scheduled(ev, "send0") <=> scheduled(S.events, "send0")
    BY <1>7, <1>15
  <2>3. CASE queue[0].waiting
    BY <1>5, <1>6, <1>8, <1>10, <1>11, <1>17, <2>1, <2>2, <2>3, Zenon DEF Sending
  <2>4. CASE ~queue[0].waiting
    BY <1>5, <1>6, <1>10, <1>11, <1>18, <2>1, <2>4, Zenon DEF Sending
  <2> QED BY <2>3, <2>4
<1>20. PortInv(T)
  BY <1>1, <1>5, <1>12, <1>13, <1>14, <1>16, <1>19, Zenon DEF PortInv
<1> QED BY <1>20 DEF IInv, T


----------------------------------------------------------------------------
(* The memory side *)

\* The first line of the ready list is sent.
LEMMA ReadyTail ==
    ASSUME NEW m, NEW n, NEW r \in Seq(Line), ReadyOK(m, r), r # <<>>,
           \A k \in Line \ {Head(r)} : n[k] = m[k]
    PROVE  ReadyOK(n, Tail(r))
<1> DEFINE q == Tail(r)
           l == Head(r)
           len == Len(r)
<1>1. /\ len \in Nat \ {0} /\ l = r[1] /\ 1 \in 1..len
      /\ Len(q) = len - 1 /\ \A i \in 1..(len - 1) : q[i] = r[i + 1]
  BY HeadFacts
<1>2. \A i \in 1..len : r[i] \in Line /\ Allocated(m[r[i]]) /\ ~m[r[i]].inService
  BY SeqElement DEF ReadyOK
<1>3. \A i, j \in 1..len : r[i] = r[j] => i = j
  BY DEF ReadyOK
<1>4. \A k \in Line \ {l} : n[k] = m[k]
  OBVIOUS
<1> HIDE DEF q, l, len
<1>5. ASSUME NEW i \in 1..(len - 1)
      PROVE  i + 1 \in 1..len /\ i + 1 # 1
  BY <1>1
<1>6. ASSUME NEW i \in 1..(len - 1)
      PROVE  Allocated(n[q[i]]) /\ ~n[q[i]].inService
  <2>1. q[i] = r[i + 1] /\ r[i + 1] # l
    BY <1>1, <1>3, <1>5
  <2> QED BY <1>2, <1>4, <1>5, <2>1
<1>7. ASSUME NEW i \in 1..(len - 1), NEW j \in 1..(len - 1), q[i] = q[j]
      PROVE  i = j
  <2>1. i + 1 = j + 1
    BY <1>1, <1>3, <1>5, <1>7
  <2> QED BY <1>1, <2>1
<1> QED BY <1>1, <1>6, <1>7 DEF ReadyOK, q

\* A miss is sent.
LEMMA SendMissGood ==
    ASSUME ~SplitRPort, IInv, NEW t \in Tc, SendMiss(t)
    PROVE  IInv'
<1> DEFINE S == State
           l == Head(ready[0])
<1>1. t = 0 /\ Tc = {0}
  BY OneQueue
<1>2. PICK owned \in BOOLEAN :
        Becomes([S EXCEPT !.mshr[l] = markInService(@, owned), !.ready[0] = Tail(@)])
  BY <1>1, Zenon DEF SendMiss
<1> DEFINE m == markInService(mshr[l], owned)
           R == [S EXCEPT !.mshr[l] = m, !.ready[0] = Tail(ready[0])]
<1>3. S.mshr = mshr /\ S.ready = ready /\ S.abort = "no" /\ ready[0] # <<>>
  BY <1>1 DEF State, SendMiss, CanSendMiss
<1>4. PortInv(S)
  BY DEF IInv
<1>5. Becomes(R)
  BY <1>2, <1>3
<1> HIDE DEF S
<1>6. /\ Typed(S) /\ Misses(S) /\ Blocks(S) /\ Held(S.req, S.source, S.events)
      /\ Sending(S.resp, S.queue[0], S.events)
  BY <1>3, <1>4, ZenonT(60) DEF PortInv
<1>7. /\ DOMAIN S = Fields /\ mshr \in [Line -> MSHRType(Source)]
      /\ ready \in [Tc -> Seq(Line)] /\ ready[0] \in Seq(Line)
  BY <1>1, <1>3, <1>6 DEF Typed
<1>8. l \in Line /\ Tail(ready[0]) \in Seq(Line) /\ 1 \in 1..Len(ready[0]) /\ l = ready[0][1]
  BY <1>3, <1>7, HeadFacts, ZenonT(60)
<1>9. ReadyOK(mshr, ready[0]) /\ LineOK(mshr[l], S.arrived[l])
  BY <1>3, <1>6, <1>8, ZenonT(60) DEF Misses
<1>10. Allocated(mshr[l]) /\ ~mshr[l].inService /\ mshr[l] \in MSHRType(Source)
  BY <1>7, <1>8, <1>9, ZenonT(60) DEF ReadyOK
<1>11. /\ m \in MSHRType(Source) /\ LineOK(m, S.arrived[l]) /\ Allocated(m)
       /\ getNumTargets(m) = getNumTargets(mshr[l])
  BY <1>9, <1>10, MarkInServiceIsOK
<1> HIDE DEF m, l
<1>12. /\ DOMAIN R = Fields /\ R.mshr = [mshr EXCEPT ![l] = m]
       /\ R.ready = [ready EXCEPT ![0] = Tail(ready[0])] /\ R.arrived = S.arrived
       /\ SameRequests(R, S) /\ SameAnswers(R, S) /\ SameBlocks(R, S)
       /\ R.events = S.events /\ R.abort = S.abort
  BY <1>3, <1>7, ZenonT(60) DEF Fields, SameRequests, SameAnswers, SameBlocks
<1> HIDE DEF R
<1>13. /\ R.mshr[l] = m /\ R.ready[0] = Tail(ready[0])
       /\ \A k \in Line \ {l} : R.mshr[k] = mshr[k]
       /\ R.mshr \in [Line -> MSHRType(Source)] /\ R.ready \in [Tc -> Seq(Line)]
  BY <1>1, <1>7, <1>8, <1>11, <1>12
<1>14. Typed(R)
  BY <1>6, <1>12, <1>13, Zenon DEF Typed, SameRequests, SameAnswers, SameBlocks
<1>15. Misses(R)
  <2>1. \A k \in Line : LineOK(R.mshr[k], R.arrived[k])
    BY <1>3, <1>6, <1>11, <1>12, <1>13, ZenonT(60) DEF Misses
  <2>2. ReadyOK(R.mshr, Tail(ready[0]))
    BY <1>3, <1>7, <1>9, <1>13, ReadyTail, ZenonT(60) DEF l
  <2> QED BY <1>13, <2>1, <2>2, ZenonT(60) DEF Misses
<1>16. \A k \in Line : /\ Allocated(R.mshr[k]) <=> Allocated(mshr[k])
                       /\ getNumTargets(R.mshr[k]) = getNumTargets(mshr[k])
  BY <1>10, <1>11, <1>13, ZenonT(60)
<1>17. MissFull(R.mshr) <=> MissFull(mshr)
  <2>1. AllocatedLines(R.mshr) = AllocatedLines(mshr)
    BY <1>16, Zenon DEF AllocatedLines
  <2> QED BY <2>1 DEF MissFull
<1>18. Blocks(R)
  BY <1>3, <1>6, <1>12, <1>16, <1>17, ZenonT(60) DEF Blocks, Full, SameBlocks
<1>19. PortInv(R)
  BY <1>3, <1>6, <1>12, <1>14, <1>15, <1>18 DEF PortInv, SameRequests, SameAnswers
<1> QED BY <1>5, <1>19, BecomesGood

\* A writeback is sent, and may unblock the cache.
LEMMA SendWritebackGood ==
    ASSUME ~SplitRPort, IInv, NEW t \in Tc, SendWriteback(t)
    PROVE  IInv'
<1> DEFINE S == State
           i == writeFirst(0)
           w == RemoveAt(wbuf[0], i)
           S1 == [S EXCEPT !.wbuf[0] = w]
           R == IF writeFull(S, 0) /\ ~writeFull(S1, 0)
                THEN clearBlocked(S1, "NoWBBuffers") ELSE S1
<1>1. t = 0 /\ Tc = {0} /\ \A l \in Line : tc[l] = 0
  BY OneQueue
<1>2. S.wbuf = wbuf /\ S.ready = ready /\ S.abort = "no" /\ i # 0
  BY <1>1 DEF State, SendWriteback, CanSendWriteback
<1>3. Becomes(R)
  BY <1>1, <1>2 DEF SendWriteback
<1>4. PortInv(S)
  BY DEF IInv
<1>5. i = IF ready[0] # <<>> /\ ~writeFull(S, 0)
          THEN IF Written(S, Head(ready[0]))
               THEN CHOOSE k \in 1..Len(wbuf[0]) :
                      /\ wbuf[0][k].line = Head(ready[0])
                      /\ \A j \in 1..(k - 1) : wbuf[0][j].line # Head(ready[0])
               ELSE 0
          ELSE IF wbuf[0] # <<>> /\ Head(wbuf[0]).tick = 0 THEN 1 ELSE 0
  BY ZenonT(60) DEF writeFirst
<1> HIDE DEF S, i
<1>6. /\ Typed(S) /\ Misses(S) /\ Blocks(S) /\ Held(S.req, S.source, S.events)
      /\ Sending(S.resp, S.queue[0], S.events)
  BY <1>2, <1>4, ZenonT(60) DEF PortInv
<1>7. /\ DOMAIN S = Fields /\ wbuf \in [Tc -> Seq([line : Line, tick : Nat])]
      /\ wbuf[0] \in Seq([line : Line, tick : Nat]) /\ ready[0] \in Seq(Line)
  BY <1>1, <1>2, <1>6 DEF Typed
<1>8. i \in 1..Len(wbuf[0])
  <2>1. CASE ready[0] # <<>> /\ ~writeFull(S, 0)
    <3>1. Head(ready[0]) \in Line
      BY <1>7, <2>1, HeadFacts, ZenonT(60)
    <3>2. Written(S, Head(ready[0]))
      BY <1>2, <1>5, <2>1
    <3>3. \E k \in 1..Len(wbuf[0]) : wbuf[0][k].line = Head(ready[0])
      BY <1>1, <1>2, <3>1, <3>2 DEF Written
    <3> DEFINE M == {k \in 1..Len(wbuf[0]) : wbuf[0][k].line = Head(ready[0])}
    <3>4. M \in SUBSET Nat /\ M # {}
      <4>1. 1..Len(wbuf[0]) \subseteq Nat
        OBVIOUS
      <4> QED BY <3>3, <4>1, Zenon
    <3>5. PICK k \in M : \A j \in M : k <= j
      BY <3>4, LeastNat, Zenon
    <3>6. k \in 1..Len(wbuf[0]) /\ wbuf[0][k].line = Head(ready[0])
      BY <3>5
    <3>7. ASSUME NEW j \in 1..(k - 1), wbuf[0][j].line = Head(ready[0])
          PROVE  FALSE
      <4>1. j \in M /\ ~(k <= j)
        BY <1>7, <3>6, <3>7
      <4> QED BY <3>5, <4>1
    <3> QED BY <1>5, <2>1, <3>2, <3>6, <3>7
  <2>2. CASE ~(ready[0] # <<>> /\ ~writeFull(S, 0))
    <3>1. i = 1 /\ wbuf[0] # <<>>
      BY <1>2, <1>5, <2>2
    <3> QED BY <1>7, <3>1, HeadFacts
  <2> QED BY <2>1, <2>2, ZenonT(60)
<1>9. w \in Seq([line : Line, tick : Nat]) /\ Len(w) = Len(wbuf[0]) - 1
  BY <1>7, <1>8, RemoveAtFacts, Zenon
<1>10. Len(wbuf[0]) \in Nat /\ WriteBuffers \in Nat
  BY <1>7, SizesAssumption
<1> HIDE DEF w
<1>11. /\ DOMAIN S1 = Fields /\ S1.wbuf = [wbuf EXCEPT ![0] = w] /\ SameMisses(S1, S)
       /\ SameRequests(S1, S) /\ SameAnswers(S1, S) /\ S1.gate = S.gate
       /\ S1.noTarget = S.noTarget /\ S1.events = S.events /\ S1.abort = S.abort
  BY <1>2, <1>7 DEF Fields, SameMisses, SameRequests, SameAnswers
<1> HIDE DEF S1
<1>12. S1.wbuf[0] = w /\ S1.wbuf \in [Tc -> Seq([line : Line, tick : Nat])]
  BY <1>1, <1>7, <1>9, <1>11
<1>13. Typed(S1)
  BY <1>6, <1>11, <1>12, Zenon DEF Typed, SameMisses, SameRequests, SameAnswers
<1>14. Misses(S1)
  BY <1>6, <1>11, ZenonT(60) DEF Misses, SameMisses
<1>15. /\ writeFull(S, 0) <=> Len(wbuf[0]) >= WriteBuffers
       /\ writeFull(S1, 0) <=> Len(w) >= WriteBuffers
  BY <1>2, <1>12 DEF writeFull
<1>16. CASE writeFull(S, 0) /\ ~writeFull(S1, 0)
  <2>1. R = clearBlocked(S1, "NoWBBuffers") /\ "NoWBBuffers" \in Cause
    BY <1>16 DEF Cause
  <2>2. S1.gate.blocked
    BY <1>2, <1>6, <1>11, <1>15, <1>16, ZenonT(60) DEF Blocks, Full
  <2> HIDE DEF R
  <2>3. /\ Typed(R) /\ SameMisses(R, S1) /\ SameRequests(R, S1)
        /\ SameAnswers(R, S1) /\ R.wbuf = S1.wbuf /\ R.noTarget = S1.noTarget
        /\ R.abort \in {"no", "schedule"}
        /\ R.abort = "no" => /\ R.gate.causes = S1.gate.causes \ {"NoWBBuffers"}
                             /\ R.gate.blocked <=> R.gate.causes # {}
        /\ \A e \in Events \ {"sendRetry"} : Agree(S1.events, R.events, e)
    <3>1. S1.abort = "no"
      BY <1>2, <1>11, Zenon
    <3> QED BY <1>13, <2>1, <2>2, <3>1, ClearBlockedFacts, ZenonT(60)
  <2>4. Misses(R)
    BY <1>14, <2>3, ZenonT(60) DEF Misses, SameMisses
  <2>5. R.abort = "no" => Blocks(R)
    <3>1. ASSUME R.abort = "no"
          PROVE  /\ R.gate.causes = S.gate.causes \ {"NoWBBuffers"}
                 /\ R.gate.blocked <=> R.gate.causes # {}
      BY <1>11, <2>3, <3>1, ZenonT(60)
    <3>2. /\ R.mshr = S.mshr /\ R.noTarget = S.noTarget /\ R.wbuf[0] = w
          /\ ~(Len(w) >= WriteBuffers)
      BY <1>11, <1>12, <1>15, <1>16, <2>3, ZenonT(60) DEF SameMisses
    <3>3. "NoMSHRs" # "NoWBBuffers" /\ "NoTargets" # "NoWBBuffers"
      OBVIOUS
    <3> QED BY <1>6, <3>1, <3>2, <3>3, ZenonT(60) DEF Blocks, Full
  <2>6. \A e \in {"reqRelease", "respRelease", "send0"} : Agree(S.events, R.events, e)
    BY <1>11, <2>3, ZenonT(60) DEF Events
  <2>7. Held(S.req, S.source, R.events) /\ Sending(S.resp, S.queue[0], R.events)
    BY <1>6, <2>6, HeldFrame, SendingFrame, ZenonT(60)
  <2>8. PortInv(R)
    BY <1>11, <2>3, <2>4, <2>5, <2>7 DEF PortInv, SameRequests, SameAnswers
  <2> QED BY <1>3, <2>8, BecomesGood
<1>17. CASE ~(writeFull(S, 0) /\ ~writeFull(S1, 0))
  <2>1. R = S1
    BY <1>17
  <2>2. Len(w) >= WriteBuffers <=> Len(wbuf[0]) >= WriteBuffers
    <3> DEFINE n == Len(wbuf[0])
               n1 == Len(w)
    <3>1. /\ n \in Nat /\ WriteBuffers \in Nat /\ n1 = n - 1
          /\ n >= WriteBuffers => n1 >= WriteBuffers
      BY <1>9, <1>10, <1>15, <1>17, ZenonT(60)
    <3> HIDE DEF n, n1
    <3>2. n1 >= WriteBuffers <=> n >= WriteBuffers
      BY <3>1
    <3> QED BY <3>2, Zenon DEF n, n1
  <2>3. Blocks(S1)
    BY <1>2, <1>6, <1>11, <1>12, <2>2, ZenonT(60) DEF Blocks, Full, SameMisses
  <2>4. PortInv(S1)
    BY <1>2, <1>6, <1>11, <1>13, <1>14, <2>3, ZenonT(60) DEF PortInv, SameRequests, SameAnswers
  <2> QED BY <1>3, <2>1, <2>4, BecomesGood
<1> QED BY <1>16, <1>17

\* What holds of S after answers were queued.
Queued(R, S) ==
    /\ Typed(R) /\ SameMisses(R, S) /\ SameRequests(R, S) /\ SameBlocks(R, S)
    /\ R.abort = S.abort /\ Sending(R.resp, R.queue[0], R.events)
    /\ \A e \in Events \ {"send0"} : Agree(S.events, R.events, e)

\* The targets of a miss are answered: the recursive function exists, and
\* every step of it queues one answer.
LEMMA AnswerFacts ==
    ASSUME ~SplitRPort, NEW S, Typed(S), S.abort = "no",
           Sending(S.resp, S.queue[0], S.events), NEW list \in Seq(Target(Source))
    PROVE  Queued(Answer(S, list), S)
<1> DEFINE L == Len(list)
           Step(x, n) == IF x.abort # "no" THEN x
                         ELSE schedSendTiming(x, tc[list[n].src], list[n].src, fillLatency)
           Rec(g, m) == g = [n \in 0..m |-> IF n = 0 THEN S ELSE Step(g[n - 1], n)]
           f == CHOOSE g : Rec(g, L)
           None == {m \in 0..L : ~\E g : Rec(g, m)}
           Bad == {m \in 0..L : ~Queued(f[m], S)}
<1>1. L \in Nat /\ \A n \in 1..L : list[n] \in Target(Source)
  BY SeqElement
<1>2. Answer(S, list) = f[L]
  BY DEF Answer
<1>3. \A n \in 1..L : list[n].src \in Source /\ tc[list[n].src] = 0
  BY <1>1, OneQueue DEF Target
<1>4. fillLatency \in Nat \ {0}
  BY TimesAssumption
<1> HIDE DEF L, Step
<1>5. None = {}
  <2> SUFFICES ASSUME None # {} PROVE FALSE
    OBVIOUS
  <2>1. None \in SUBSET Nat
    BY <1>1
  <2>2. PICK m \in None : \A j \in None : m <= j
    BY <2>1, LeastNat, Zenon
  <2>3. m \in 0..L /\ ~\E g : Rec(g, m)
    OBVIOUS
  <2>4. CASE m = 0
    <3> DEFINE g == [n \in 0..0 |-> S]
    <3>1. g = [n \in 0..0 |-> IF n = 0 THEN S ELSE Step(g[n - 1], n)]
      OBVIOUS
    <3> QED BY <2>3, <2>4, <3>1, Zenon
  <2>5. CASE m # 0
    <3>1. m - 1 \in 0..L /\ ~(m <= m - 1)
      BY <1>1, <2>3, <2>5
    <3>2. PICK g : Rec(g, m - 1)
      BY <2>2, <3>1, Zenon
    <3> DEFINE h == [n \in 0..m |-> IF n = m THEN Step(g[m - 1], m) ELSE g[n]]
    <3>3. ASSUME NEW n \in 0..m
          PROVE  h[n] = IF n = 0 THEN S ELSE Step(h[n - 1], n)
      <4>1. \A k \in 0..(m - 1) : g[k] = IF k = 0 THEN S ELSE Step(g[k - 1], k)
        BY <3>2, ZenonT(60)
      <4>2. \A k \in 0..(m - 1) : k \in 0..m /\ k # m /\ h[k] = g[k]
        BY <1>1, <2>3
      <4>3. CASE n = m
        <5>1. m - 1 \in 0..(m - 1)
          BY <1>1, <2>3, <2>5
        <5>2. h[m - 1] = g[m - 1] /\ h[m] = Step(g[m - 1], m)
          BY <4>2, <4>3, <5>1, ZenonT(60)
        <5> QED BY <2>5, <4>3, <5>2, ZenonT(60)
      <4>4. CASE n # m
        <5>1. n \in 0..(m - 1)
          BY <1>1, <2>3, <4>4
        <5>2. h[n] = g[n]
          BY <4>2, <5>1, ZenonT(60)
        <5>3. CASE n = 0
          BY <4>1, <5>1, <5>2, <5>3, ZenonT(60)
        <5>4. CASE n # 0
          <6>1. n - 1 \in 0..(m - 1)
            BY <5>1, <5>4
          <6>2. h[n - 1] = g[n - 1]
            BY <4>2, <6>1, ZenonT(60)
          <6> QED BY <4>1, <5>1, <5>2, <5>4, <6>2, ZenonT(60)
        <5> QED BY <5>3, <5>4, ZenonT(60)
      <4> QED BY <4>3, <4>4, ZenonT(60)
    <3>4. h = [n \in 0..m |-> h[n]]
      OBVIOUS
    <3> HIDE DEF h
    <3>5. Rec(h, m)
      BY <3>3, <3>4, ZenonT(60)
    <3> QED BY <2>3, <3>5, ZenonT(60)
  <2> QED BY <2>4, <2>5
<1>6. L \in 0..L
  BY <1>1
<1>7. \E g : Rec(g, L)
  BY <1>5, <1>6
<1> HIDE DEF None
<1>8. Rec(f, L)
  <2> HIDE DEF Rec
  <2> QED BY <1>7
<1> HIDE DEF f
<1>9. f[0] = S /\ \A n \in 1..L : f[n] = Step(f[n - 1], n)
  BY <1>1, <1>8
<1> HIDE DEF Rec
<1>10. Queued(S, S)
  BY ZenonT(60) DEF Queued, SameMisses, SameRequests, SameBlocks, Agree
<1>11. ASSUME NEW n \in 1..L, Queued(f[n - 1], S)
       PROVE  Queued(f[n], S)
  <2> DEFINE x == f[n - 1]
             R == schedSendTiming(x, 0, list[n].src, fillLatency)
  <2>1. Typed(x) /\ x.abort = "no" /\ Sending(x.resp, x.queue[0], x.events)
    BY <1>11, ZenonT(60) DEF Queued
  <2>2. f[n] = R
    BY <1>3, <1>9, <2>1 DEF Step
  <2> HIDE DEF x
  <2>3. /\ Typed(R) /\ SameMisses(R, x) /\ SameRequests(R, x) /\ SameBlocks(R, x)
        /\ R.abort = x.abort /\ Sending(R.resp, R.queue[0], R.events)
        /\ \A e \in Events \ {"send0"} : Agree(x.events, R.events, e)
    BY <1>3, <1>4, <2>1, SchedSendFacts, Zenon
  <2> HIDE DEF R
  <2>4. Queued(x, S)
    BY <1>11, Zenon DEF x
  <2>5. Queued(R, S)
    BY <2>3, <2>4, ZenonT(60) DEF Queued, SameMisses, SameRequests, SameBlocks, Agree
  <2> QED BY <2>2, <2>5, ZenonT(60)
<1>12. Bad = {}
  <2> SUFFICES ASSUME Bad # {} PROVE FALSE
    BY ZenonT(60)
  <2>1. Bad \in SUBSET Nat
    BY <1>1
  <2>2. PICK m \in Bad : \A j \in Bad : m <= j
    BY <2>1, LeastNat, Zenon
  <2>3. m \in 0..L /\ ~Queued(f[m], S)
    BY ZenonT(60)
  <2>4. m # 0
    BY <1>9, <1>10, <2>3, ZenonT(60)
  <2>5. m \in 1..L /\ m - 1 \in 0..L /\ ~(m <= m - 1)
    BY <1>1, <2>3, <2>4
  <2>6. Queued(f[m - 1], S)
    BY <2>2, <2>5
  <2> QED BY <1>11, <2>3, <2>5, <2>6
<1> QED BY <1>2, <1>6, <1>12, ZenonT(60)

\* Full, except that line l has fewer targets than it may have.
FullBut(m, w, g, n, l) ==
    /\ "NoMSHRs" \in g.causes <=> MissFull(m)
    /\ "NoWBBuffers" \in g.causes <=> Len(w) >= WriteBuffers
    /\ "NoTargets" \in g.causes <=> n # NoLine
    /\ g.blocked <=> g.causes # {}
    /\ n # l
    /\ \A k \in Line \ {l} : /\ k = n <=> getNumTargets(m[k]) >= numTarget
                             /\ getNumTargets(m[k]) <= numTarget

\* The response of a line that had no room for targets unblocks the cache.
LEMMA UnblockTargets ==
    ASSUME NEW S, PortInv(S), S.abort = "no", NEW l \in Line
    PROVE  LET R == IF S.noTarget = l
                    THEN clearBlocked([S EXCEPT !.noTarget = NoLine], "NoTargets") ELSE S
           IN  /\ Typed(R) /\ SameMisses(R, S) /\ SameRequests(R, S) /\ SameAnswers(R, S)
               /\ R.abort \in {"no", "schedule"}
               /\ R.abort = "no" => FullBut(R.mshr, R.wbuf[0], R.gate, R.noTarget, l)
               /\ \A e \in Events \ {"sendRetry"} : Agree(S.events, R.events, e)
<1> DEFINE S1 == [S EXCEPT !.noTarget = NoLine]
           R == IF S.noTarget = l THEN clearBlocked(S1, "NoTargets") ELSE S
<1>1. DOMAIN S = Fields /\ Typed(S) /\ Blocks(S)
  BY Zenon DEF PortInv, Typed
<1>2. NoLine \notin Line
  BY PortAssumption
<1>3. /\ DOMAIN S1 = Fields /\ SameMisses(S1, S) /\ SameRequests(S1, S)
      /\ SameAnswers(S1, S) /\ S1.wbuf = S.wbuf /\ S1.gate = S.gate
      /\ S1.noTarget = NoLine /\ S1.events = S.events /\ S1.abort = "no"
  BY <1>1 DEF Fields, SameMisses, SameRequests, SameAnswers
<1> HIDE DEF S1
<1>4. Typed(S1)
  BY <1>1, <1>3, Zenon DEF Typed, SameMisses, SameRequests, SameAnswers
<1>5. CASE S.noTarget = l
  <2>1. R = clearBlocked(S1, "NoTargets") /\ "NoTargets" \in Cause
    BY <1>5, Zenon DEF Cause
  <2>2. S1.gate.blocked
    BY <1>1, <1>2, <1>3, <1>5, ZenonT(60) DEF Blocks, Full
  <2>3. /\ Typed(R) /\ SameMisses(R, S1) /\ SameRequests(R, S1)
        /\ SameAnswers(R, S1) /\ R.wbuf = S1.wbuf /\ R.noTarget = S1.noTarget
        /\ R.abort \in {"no", "schedule"}
        /\ R.abort = "no" => /\ R.gate.causes = S1.gate.causes \ {"NoTargets"}
                             /\ R.gate.blocked <=> R.gate.causes # {}
        /\ \A e \in Events \ {"sendRetry"} : Agree(S1.events, R.events, e)
    <3> DEFINE C == clearBlocked(S1, "NoTargets")
    <3>1. /\ Typed(C) /\ SameMisses(C, S1) /\ SameRequests(C, S1)
          /\ SameAnswers(C, S1) /\ C.wbuf = S1.wbuf /\ C.noTarget = S1.noTarget
          /\ C.abort \in {"no", "schedule"}
          /\ C.abort = "no" => /\ C.gate.causes = S1.gate.causes \ {"NoTargets"}
                               /\ C.gate.blocked <=> C.gate.causes # {}
          /\ \A e \in Events \ {"sendRetry"} : Agree(S1.events, C.events, e)
      BY <1>3, <1>4, <2>1, <2>2, ClearBlockedFacts, Zenon
    <3>2. R = C
      BY <2>1, ZenonT(60)
    <3> HIDE DEF C, R
    <3> QED BY <3>1, <3>2
  <2> HIDE DEF R
  <2>4. \A k \in Line \ {l} : /\ k # NoLine /\ ~(getNumTargets(S.mshr[k]) >= numTarget)
                              /\ getNumTargets(S.mshr[k]) <= numTarget
    BY <1>1, <1>2, <1>5, ZenonT(60) DEF Blocks, Full
  <2>5. R.abort = "no" => FullBut(R.mshr, R.wbuf[0], R.gate, R.noTarget, l)
    <3>1. R.mshr = S.mshr /\ R.wbuf = S.wbuf /\ R.noTarget = NoLine
      BY <1>3, <2>3, ZenonT(60) DEF SameMisses
    <3>2. R.abort = "no" => /\ "NoMSHRs" \in R.gate.causes <=> MissFull(S.mshr)
                            /\ "NoWBBuffers" \in R.gate.causes <=> Len(S.wbuf[0]) >= WriteBuffers
                            /\ "NoTargets" \notin R.gate.causes
                            /\ R.gate.blocked <=> R.gate.causes # {}
      BY <1>1, <1>3, <2>3 DEF Blocks, Full
    <3> QED BY <1>2, <2>4, <3>1, <3>2 DEF FullBut
  <2> QED BY <1>3, <2>3, <2>5 DEF SameMisses, SameRequests, SameAnswers, R, S1
<1>6. CASE S.noTarget # l
  <2>1. FullBut(S.mshr, S.wbuf[0], S.gate, S.noTarget, l)
    BY <1>1, <1>6 DEF Blocks, Full, FullBut
  <2>2. \A e : Agree(S.events, S.events, e)
    BY DEF Agree
  <2> QED BY <1>1, <1>6, <2>1, <2>2, ZenonT(60) DEF SameMisses, SameRequests, SameAnswers
<1> QED BY <1>5, <1>6, Zenon

\* The ready list does not hold the line of a response; when it is put back it
\* comes in between two others.
LEMMA ReadyInsert ==
    ASSUME NEW m, NEW n, NEW r \in Seq(Line), NEW l \in Line, ReadyOK(m, r),
           m[l].inService, \A k \in Line \ {l} : n[k] = m[k], NEW i \in 0..Len(r)
    PROVE  /\ ReadyOK(n, r)
           /\ Allocated(n[l]) /\ ~n[l].inService =>
                InsertAt(r, i + 1, l) \in Seq(Line) /\ ReadyOK(n, InsertAt(r, i + 1, l))
<1> DEFINE len == Len(r)
           p == i + 1
           q == InsertAt(r, p, l)
<1>1. /\ len \in Nat /\ p \in 1..(len + 1)
      /\ \A j \in 1..len : r[j] \in Line /\ Allocated(m[r[j]]) /\ ~m[r[j]].inService
  BY SeqElement DEF ReadyOK
<1>2. \A j, k \in 1..len : r[j] = r[k] => j = k
  BY DEF ReadyOK
<1>3. /\ q \in Seq(Line) /\ Len(q) = len + 1
      /\ \A j \in 1..(len + 1) : q[j] = IF j < p THEN r[j] ELSE IF j = p THEN l ELSE r[j - 1]
  <2>1. p \in 1..(Len(r) + 1)
    BY <1>1
  <2> HIDE DEF p
  <2>2. q \in Seq(Line) /\ Inserted(q, r, p, l)
    BY <2>1, InsertAtFacts, Zenon
  <2> HIDE DEF q
  <2> QED BY <2>2, Zenon DEF Inserted
<1> HIDE DEF q, len, p
<1>4. \A j \in 1..len : r[j] # l /\ Allocated(n[r[j]]) /\ ~n[r[j]].inService
  BY <1>1, ZenonT(60)
<1>5. ReadyOK(n, r)
  BY <1>2, <1>4, ZenonT(60) DEF ReadyOK, len
<1>6. ASSUME NEW j \in 1..(len + 1)
      PROVE  /\ j < p => j \in 1..len /\ q[j] = r[j]
             /\ j = p => q[j] = l
             /\ j > p => j - 1 \in 1..len /\ q[j] = r[j - 1]
             /\ j < p \/ j = p \/ j > p
  BY <1>1, <1>3
<1>7. ASSUME NEW j \in 1..(len + 1), NEW k \in 1..(len + 1), q[j] = q[k]
      PROVE  j = k
  <2>1. CASE j = p
    BY <1>4, <1>6, <1>7, <2>1
  <2>2. CASE k = p
    BY <1>4, <1>6, <1>7, <2>2
  <2>3. CASE j < p /\ k < p
    BY <1>2, <1>6, <1>7, <2>3
  <2>4. CASE j > p /\ k > p
    <3>1. j - 1 = k - 1
      BY <1>2, <1>6, <1>7, <2>4
    <3> QED BY <1>1, <3>1
  <2>5. CASE j < p /\ k > p
    <3>1. j = k - 1
      BY <1>2, <1>6, <1>7, <2>5
    <3> QED BY <1>1, <2>5, <3>1
  <2>6. CASE j > p /\ k < p
    <3>1. j - 1 = k
      BY <1>2, <1>6, <1>7, <2>6
    <3> QED BY <1>1, <2>6, <3>1
  <2> QED BY <1>6, <2>1, <2>2, <2>3, <2>4, <2>5, <2>6
<1>8. ASSUME Allocated(n[l]), ~n[l].inService, NEW j \in 1..(len + 1)
      PROVE  Allocated(n[q[j]]) /\ ~n[q[j]].inService
  BY <1>4, <1>6, <1>8
<1>9. Allocated(n[l]) /\ ~n[l].inService => q \in Seq(Line) /\ ReadyOK(n, q)
  BY <1>3, <1>7, <1>8, ZenonT(60) DEF ReadyOK
<1> QED BY <1>5, <1>9, ZenonT(60) DEF q, p

\* handleFill's assertion holds: when a fill that is not shared promotes the deferred
\* targets, no target that is answered by it asked for a writable copy.
LEMMA FillAsserts ==
    ASSUME NEW m \in MSHRType(Source), NEW a \in Seq(Source), LineOK(m, a),
           m.inService, NEW shared \in BOOLEAN
    PROVE  ~(PromotedByFill(m, shared) /\ needsExclusive(m.targets))
BY FillIsOK

\* handleResponse up to the state in which the answered targets have left.
Filled(S, l, f) == [S EXCEPT !.mshr[l] = f,
                             !.arrived[l] = SubSeq(@, Len(f.targets) + 1, Len(@))]

\* The MSHR is freed, or waits again with the targets that were deferred.
LEMMA RetireFacts ==
    ASSUME ~SplitRPort, NEW S, Typed(S), Misses(S), S.abort = "no", NEW l \in Line,
           S.mshr[l].inService, FullBut(S.mshr, S.wbuf[0], S.gate, S.noTarget, l),
           getNumTargets(S.mshr[l]) <= numTarget,
           NEW shared \in BOOLEAN, NEW i \in 0..Len(S.ready[0]), NEW R,
           R = Retire(Filled(S, l, handleFill(S.mshr[l], shared)), l, MissFull(S.mshr), i)
    PROVE  /\ Typed(R) /\ Misses(R) /\ SameRequests(R, S) /\ SameAnswers(R, S)
           /\ R.abort \in {"no", "schedule"}
           /\ R.abort = "no" => Blocks(R)
           /\ \A e \in Events \ {"sendRetry"} : Agree(S.events, R.events, e)
<1> DEFINE f == handleFill(S.mshr[l], shared)
           m == promoteDeferredTargets(f)
           b == SubSeq(S.arrived[l], Len(f.targets) + 1, Len(S.arrived[l]))
           T == [S EXCEPT !.mshr[l] = f, !.arrived[l] = b]
           q == InsertAt(S.ready[0], i + 1, l)
           S1 == [S EXCEPT !.mshr[l] = m, !.arrived[l] = b]
           S2 == [S1 EXCEPT !.ready[0] = q]
<1>0. R = Retire(T, l, MissFull(S.mshr), i)
  BY Zenon DEF Filled
<1>1. /\ DOMAIN S = Fields /\ S.mshr \in [Line -> MSHRType(Source)]
      /\ S.arrived \in [Line -> Seq(Source)] /\ S.ready \in [Tc -> Seq(Line)]
      /\ 0 \in Tc /\ tc[l] = 0 /\ S.ready[0] \in Seq(Line)
  BY OneQueue, ZenonT(60) DEF Typed
<1>2. /\ S.mshr[l] \in MSHRType(Source) /\ S.arrived[l] \in Seq(Source)
      /\ LineOK(S.mshr[l], S.arrived[l]) /\ ReadyOK(S.mshr, S.ready[0])
  BY <1>1 DEF Misses
<1>3. /\ f \in MSHRType(Source) /\ m \in MSHRType(Source)
      /\ b \in Seq(Source) /\ LineOK(m, b)
      /\ getNumTargets(m) < getNumTargets(S.mshr[l])
      /\ Allocated(m) <=> f.deferred # <<>>
      /\ ~m.inService
  BY <1>2, FillIsOK, Zenon
<1> HIDE DEF f, m, b, q
<1>4. T.mshr[l] = f /\ T.ready = S.ready
  BY <1>1 DEF Fields
<1>5. S1 = [T EXCEPT !.mshr[l] = promoteDeferredTargets(@)]
  BY <1>1, Zenon DEF Fields, m
<1> HIDE DEF T
<1>6. R = IF f.deferred # <<>> THEN S2
          ELSE IF MissFull(S.mshr) /\ ~missFull(S1, 0)
          THEN clearBlocked(S1, "NoMSHRs") ELSE S1
  BY <1>0, <1>1, <1>4, <1>5, Zenon DEF Retire, q
<1>7. /\ DOMAIN S1 = Fields /\ S1.mshr = [S.mshr EXCEPT ![l] = m]
      /\ S1.arrived = [S.arrived EXCEPT ![l] = b] /\ S1.ready = S.ready
      /\ SameRequests(S1, S) /\ SameAnswers(S1, S) /\ SameBlocks(S1, S)
      /\ S1.events = S.events /\ S1.abort = S.abort
  BY <1>1 DEF Fields, SameRequests, SameAnswers, SameBlocks
<1> HIDE DEF S1
<1>8. /\ S1.mshr[l] = m /\ S1.arrived[l] = b
      /\ \A k \in Line \ {l} : S1.mshr[k] = S.mshr[k] /\ S1.arrived[k] = S.arrived[k]
      /\ S1.mshr \in [Line -> MSHRType(Source)] /\ S1.arrived \in [Line -> Seq(Source)]
  <2>1. /\ S1.mshr \in [Line -> MSHRType(Source)] /\ S1.mshr[l] = m
        /\ \A k \in Line \ {l} : S1.mshr[k] = S.mshr[k]
    <3> DEFINE g == S1.mshr
               h == S.mshr
               D == MSHRType(Source)
    <3>1. h \in [Line -> D] /\ m \in D /\ g = [h EXCEPT ![l] = m]
      BY <1>1, <1>3, <1>7, ZenonT(60)
    <3> HIDE DEF g, h, D
    <3>2. g \in [Line -> D] /\ g[l] = m /\ \A k \in Line \ {l} : g[k] = h[k]
      BY <3>1
    <3> QED BY <3>2, Zenon DEF g, h, D
  <2>2. /\ S1.arrived \in [Line -> Seq(Source)] /\ S1.arrived[l] = b
        /\ \A k \in Line \ {l} : S1.arrived[k] = S.arrived[k]
    <3> DEFINE g == S1.arrived
               h == S.arrived
               D == Seq(Source)
    <3>1. h \in [Line -> D] /\ b \in D /\ g = [h EXCEPT ![l] = b]
      BY <1>1, <1>3, <1>7, Zenon
    <3> HIDE DEF g, h, D
    <3>2. g \in [Line -> D] /\ g[l] = b /\ \A k \in Line \ {l} : g[k] = h[k]
      BY <3>1
    <3> QED BY <3>2, Zenon DEF g, h, D
  <2> QED BY <2>1, <2>2, Zenon
<1>9. Typed(S1)
  BY <1>7, <1>8, Zenon DEF Typed, SameRequests, SameAnswers, SameBlocks
<1>10. \A k \in Line : LineOK(S1.mshr[k], S1.arrived[k])
  BY <1>3, <1>8, Zenon DEF Misses
<1>11. /\ ReadyOK(S1.mshr, S.ready[0])
       /\ Allocated(m) => q \in Seq(Line) /\ ReadyOK(S1.mshr, q)
  <2>1. /\ ReadyOK(S1.mshr, S.ready[0])
        /\ Allocated(S1.mshr[l]) /\ ~S1.mshr[l].inService =>
              /\ InsertAt(S.ready[0], i + 1, l) \in Seq(Line)
              /\ ReadyOK(S1.mshr, InsertAt(S.ready[0], i + 1, l))
    <3> DEFINE r == S.ready[0]
               n == S1.mshr
    <3>1. /\ r \in Seq(Line) /\ ReadyOK(S.mshr, r) /\ S.mshr[l].inService
          /\ i \in 0..Len(r) /\ \A k \in Line \ {l} : n[k] = S.mshr[k]
      BY <1>1, <1>2, <1>8, Zenon
    <3> HIDE DEF r, n
    <3>2. /\ ReadyOK(n, r)
          /\ Allocated(n[l]) /\ ~n[l].inService =>
                InsertAt(r, i + 1, l) \in Seq(Line) /\ ReadyOK(n, InsertAt(r, i + 1, l))
      BY <3>1, ReadyInsert, Zenon
    <3> QED BY <3>2, Zenon DEF r, n
  <2> QED BY <1>3, <1>8, <2>1, Zenon DEF q
<1>12. Misses(S1)
  BY <1>7, <1>10, <1>11, Zenon DEF Misses
<1>13. S.noTarget # l /\ ~(getNumTargets(m) >= numTarget) /\ getNumTargets(m) <= numTarget
  <2>1. getNumTargets(m) \in Nat /\ getNumTargets(S.mshr[l]) \in Nat /\ numTarget \in Nat
    BY <1>2, <1>3, MSHRFields, SizesAssumption, Zenon
  <2>2. S.noTarget # l
    BY Zenon DEF FullBut
  <2> DEFINE x == getNumTargets(m)
             y == getNumTargets(S.mshr[l])
  <2>3. x \in Nat /\ y \in Nat /\ numTarget \in Nat /\ x < y /\ y <= numTarget
    BY <1>3, <2>1, ZenonT(60)
  <2> HIDE DEF x, y
  <2>4. ~(x >= numTarget) /\ x <= numTarget
    BY <2>3
  <2> QED BY <2>2, <2>4, Zenon DEF x
<1>14. \A k \in Line : /\ k = S.noTarget <=> getNumTargets(S1.mshr[k]) >= numTarget
                       /\ getNumTargets(S1.mshr[k]) <= numTarget
  BY <1>8, <1>13, Zenon DEF FullBut
<1>15. \A e : Agree(S.events, S.events, e)
  BY Zenon DEF Agree
<1>16. AllocatedLines(S1.mshr) \subseteq AllocatedLines(S.mshr)
  <2>1. S.mshr[l].targets # <<>>
    BY <1>2, Zenon DEF LineOK
  <2> QED BY <1>8, <2>1, Zenon DEF AllocatedLines, Allocated
<1>17. ASSUME MissFull(S1.mshr) <=> MissFull(S.mshr), NEW X, X.mshr = S1.mshr, SameBlocks(X, S)
       PROVE  Blocks(X)
  BY <1>14, <1>17, ZenonT(60) DEF Blocks, Full, FullBut, SameBlocks
<1>18. CASE f.deferred # <<>>
  <2>1. R = S2 /\ Allocated(m)
    BY <1>3, <1>6, <1>18
  <2>2. /\ DOMAIN S2 = Fields /\ S2.ready = [S.ready EXCEPT ![0] = q]
        /\ S2.mshr = S1.mshr /\ S2.arrived = S1.arrived
        /\ SameRequests(S2, S) /\ SameAnswers(S2, S) /\ SameBlocks(S2, S)
        /\ S2.events = S.events /\ S2.abort = S.abort
    BY <1>7 DEF Fields, SameRequests, SameAnswers, SameBlocks
  <2> HIDE DEF S2
  <2>3. S2.ready \in [Tc -> Seq(Line)] /\ S2.ready[0] = q
    BY <1>1, <1>11, <2>1, <2>2, Zenon
  <2>4. Typed(S2)
    BY <1>8, <2>2, <2>3, Zenon DEF Typed, SameRequests, SameAnswers, SameBlocks
  <2>5. Misses(S2)
    BY <1>10, <1>11, <2>1, <2>2, <2>3, Zenon DEF Misses
  <2>6. AllocatedLines(S1.mshr) = AllocatedLines(S.mshr)
    <3>1. Allocated(S1.mshr[l]) /\ \A k \in Line \ {l} : S1.mshr[k] = S.mshr[k]
      BY <1>8, <2>1, ZenonT(60)
    <3> QED BY <1>16, <3>1, Zenon DEF AllocatedLines
  <2>7. Blocks(S2)
    BY <1>17, <2>2, <2>6 DEF MissFull
  <2> QED BY <1>15, <2>1, <2>2, <2>4, <2>5, <2>7
<1>19. CASE f.deferred = <<>> /\ MissFull(S.mshr) /\ ~MissFull(S1.mshr)
  <2>1. R = clearBlocked(S1, "NoMSHRs") /\ "NoMSHRs" \in Cause
    BY <1>6, <1>19, MissFullIs, ZenonT(60) DEF Cause
  <2>2. S1.gate.blocked
    BY <1>7, <1>19, ZenonT(60) DEF FullBut, SameBlocks
  <2>3. /\ Typed(R) /\ SameMisses(R, S1) /\ SameRequests(R, S1)
        /\ SameAnswers(R, S1) /\ R.wbuf = S1.wbuf /\ R.noTarget = S1.noTarget
        /\ R.abort \in {"no", "schedule"}
        /\ R.abort = "no" => /\ R.gate.causes = S1.gate.causes \ {"NoMSHRs"}
                             /\ R.gate.blocked <=> R.gate.causes # {}
        /\ \A e \in Events \ {"sendRetry"} : Agree(S1.events, R.events, e)
    <3> DEFINE C == clearBlocked(S1, "NoMSHRs")
    <3>1. /\ Typed(C) /\ SameMisses(C, S1) /\ SameRequests(C, S1)
          /\ SameAnswers(C, S1) /\ C.wbuf = S1.wbuf /\ C.noTarget = S1.noTarget
          /\ C.abort \in {"no", "schedule"}
          /\ C.abort = "no" => /\ C.gate.causes = S1.gate.causes \ {"NoMSHRs"}
                               /\ C.gate.blocked <=> C.gate.causes # {}
          /\ \A e \in Events \ {"sendRetry"} : Agree(S1.events, C.events, e)
      BY <1>7, <1>9, <2>1, <2>2, ClearBlockedFacts, ZenonT(60)
    <3>2. R = C
      BY <2>1
    <3> HIDE DEF C
    <3> QED BY <3>1, <3>2
  <2>4. Misses(R)
    BY <1>12, <2>3, Zenon DEF Misses, SameMisses
  <2>5. R.mshr = S1.mshr /\ R.wbuf = S.wbuf /\ R.noTarget = S.noTarget /\ S1.gate = S.gate
    BY <1>7, <2>3, Zenon DEF SameMisses, SameBlocks
  <2>6. R.abort = "no" => Blocks(R)
    BY <1>14, <1>19, <2>3, <2>5, Zenon DEF Blocks, Full, FullBut
  <2>7. SameRequests(R, S) /\ SameAnswers(R, S)
    BY <1>7, <2>3, ZenonT(60) DEF SameRequests, SameAnswers
  <2> QED BY <1>7, <2>3, <2>4, <2>6, <2>7, Zenon
<1>20. CASE f.deferred = <<>> /\ ~(MissFull(S.mshr) /\ ~MissFull(S1.mshr))
  <2>1. R = S1
    BY <1>6, <1>20, MissFullIs, ZenonT(60)
  <2>2. MissFull(S1.mshr) <=> MissFull(S.mshr)
    BY <1>16, <1>20, MissFullGrows
  <2>3. Blocks(S1)
    BY <1>7, <1>17, <2>2, Zenon
  <2> QED BY <1>7, <1>9, <1>12, <1>15, <2>1, <2>3
<1> QED BY <1>18, <1>19, <1>20, Zenon

\* A response: no assertion of handleFill or of the packet queue fails.
LEMMA RespondFacts ==
    ASSUME ~SplitRPort, NEW S, PortInv(S), S.abort = "no", NEW l \in Line,
           S.mshr[l].inService, NEW shared \in BOOLEAN, NEW i \in 0..Len(S.ready[0]),
           NEW c \in Choice
    PROVE  PortInv(handleResponse(S, l, shared, i, c))
<1> DEFINE f == handleFill(S.mshr[l], shared)
           S1 == IF S.noTarget = l
                 THEN clearBlocked([S EXCEPT !.noTarget = NoLine], "NoTargets") ELSE S
           S2 == Answer(S1, f.targets)
           S3 == Filled(S2, l, f)
           S4 == Retire(S3, l, missFull(S, tc[l]), i)
           R == handleResponse(S, l, shared, i, c)
<1>1. /\ Typed(S) /\ Misses(S) /\ Blocks(S) /\ Held(S.req, S.source, S.events)
      /\ Sending(S.resp, S.queue[0], S.events) /\ S.mshr[l] \in MSHRType(Source)
      /\ S.arrived[l] \in Seq(Source) /\ LineOK(S.mshr[l], S.arrived[l])
  BY Zenon DEF PortInv, Typed, Misses
<1>2. /\ ~(PromotedByFill(S.mshr[l], shared) /\ needsExclusive(S.mshr[l].targets))
      /\ f \in MSHRType(Source)
  <2>1. f \in MSHRType(Source)
    BY <1>1, FillIsOK, Zenon
  <2>2. ~(PromotedByFill(S.mshr[l], shared) /\ needsExclusive(S.mshr[l].targets))
    BY <1>1, FillAsserts, Zenon
  <2> QED BY <2>1, <2>2, Zenon
<1>3. R = IF S1.abort # "no" THEN S1 ELSE IF S2.abort # "no" THEN S2
          ELSE IF S4.abort # "no" THEN S4 ELSE Evict(S4, c.victim)
  BY <1>2, Zenon DEF handleResponse, Filled
<1>4. /\ Typed(S1) /\ SameMisses(S1, S) /\ SameRequests(S1, S) /\ SameAnswers(S1, S)
      /\ S1.abort \in {"no", "schedule"}
      /\ S1.abort = "no" => FullBut(S1.mshr, S1.wbuf[0], S1.gate, S1.noTarget, l)
      /\ \A e \in Events \ {"sendRetry"} : Agree(S.events, S1.events, e)
  BY UnblockTargets, ZenonT(60)
<1>5. f.targets \in Seq(Target(Source))
  BY <1>2, MSHRFields
<1>6. missFull(S, tc[l]) = MissFull(S.mshr)
  <2>1. {k \in Line : tc[k] = tc[l] /\ Allocated(S.mshr[k])} = AllocatedLines(S.mshr)
    BY OneQueue DEF AllocatedLines
  <2> QED BY <2>1, Zenon DEF missFull, MissFull
<1> HIDE DEF f, S1, S4, R
<1>7. Misses(S1)
  BY <1>1, <1>4, Zenon DEF Misses, SameMisses
<1>8. /\ "reqRelease" \in Events \ {"sendRetry"} /\ "reqRelease" \in Events \ {"send0"}
      /\ "respRelease" \in Events \ {"sendRetry"} /\ "send0" \in Events \ {"sendRetry"}
  BY DEF Events
<1>9. CASE S1.abort # "no"
  <2>1. R = S1
    BY <1>3, <1>9
  <2>2. PortInv(S1)
    BY <1>4, <1>7, <1>9, Zenon DEF PortInv
  <2> QED BY <2>1, <2>2 DEF R
<1>10. CASE S1.abort = "no"
  <2>1. Sending(S1.resp, S1.queue[0], S1.events)
    BY <1>1, <1>4, <1>8, SendingFrame, Zenon DEF SameAnswers
  <2>2. Queued(S2, S1)
    BY <1>4, <1>5, <1>10, <2>1, AnswerFacts, Zenon
  <2> HIDE DEF S2
  <2>3. /\ Typed(S2) /\ S2.abort = "no" /\ S2.mshr = S.mshr /\ S2.ready = S.ready
        /\ Sending(S2.resp, S2.queue[0], S2.events) /\ SameRequests(S2, S)
        /\ FullBut(S2.mshr, S2.wbuf[0], S2.gate, S2.noTarget, l)
    BY <1>4, <1>10, <2>2, Zenon DEF Queued, SameMisses, SameBlocks, SameRequests
  <2>4. Misses(S2)
    BY <1>7, <2>2, ZenonT(60) DEF Queued, Misses, SameMisses
  <2>5. getNumTargets(S.mshr[l]) <= numTarget
    BY <1>1 DEF Blocks, Full
  <2>6. /\ Typed(S4) /\ Misses(S4) /\ SameRequests(S4, S2) /\ SameAnswers(S4, S2)
        /\ S4.abort \in {"no", "schedule"}
        /\ S4.abort = "no" => Blocks(S4)
        /\ \A e \in Events \ {"sendRetry"} : Agree(S2.events, S4.events, e)
    <3>1. S4 = Retire(Filled(S2, l, handleFill(S2.mshr[l], shared)), l,
                      MissFull(S2.mshr), i)
      BY <1>6, <2>3, Zenon DEF S4, f
    <3>2. /\ S2.mshr[l].inService /\ getNumTargets(S2.mshr[l]) <= numTarget
          /\ i \in 0..Len(S2.ready[0])
      BY <2>3, <2>5, Zenon
    <3> HIDE DEF S4
    <3> QED BY <2>3, <2>4, <3>1, <3>2, RetireFacts, Zenon
  <2>7. Agree(S.events, S4.events, "reqRelease")
    <3>1. Agree(S.events, S1.events, "reqRelease")
      BY <1>4, <1>8, ZenonT(60)
    <3>2. Agree(S1.events, S2.events, "reqRelease")
      BY <1>8, <2>2 DEF Queued
    <3>3. Agree(S2.events, S4.events, "reqRelease")
      BY <1>8, <2>6
    <3> QED BY <3>1, <3>2, <3>3, ZenonT(60) DEF Agree
  <2>8. Held(S4.req, S4.source, S4.events)
    BY <1>1, <2>3, <2>6, <2>7, HeldFrame, Zenon DEF SameRequests
  <2>9. Sending(S4.resp, S4.queue[0], S4.events)
    BY <1>8, <2>3, <2>6, SendingFrame, Zenon DEF SameAnswers
  <2>10. CASE S4.abort # "no"
    <3>1. R = S4
      BY <1>3, <1>10, <2>3, <2>10, Zenon
    <3>2. PortInv(S4)
      BY <2>6, <2>10, Zenon DEF PortInv
    <3> QED BY <3>1, <3>2 DEF R
  <2>11. CASE S4.abort = "no"
    <3>1. R = Evict(S4, c.victim)
      BY <1>3, <1>10, <2>3, <2>11
    <3>2. c.victim \in Line \union {NoLine}
      BY DEF Choice
    <3>3. /\ Typed(R) /\ SameMisses(R, S4) /\ SameRequests(R, S4)
          /\ SameAnswers(R, S4) /\ R.events = S4.events
          /\ R.abort = S4.abort /\ Blocks(R)
      BY <2>6, <2>11, <3>1, <3>2, EvictFacts, Zenon
    <3>4. Misses(R)
      BY <2>6, <3>3, Zenon DEF Misses, SameMisses
    <3>5. PortInv(R)
      BY <2>8, <2>9, <2>11, <3>3, <3>4, Zenon DEF PortInv, SameRequests, SameAnswers
    <3> QED BY <3>5, ZenonT(60) DEF R
  <2> QED BY <2>10, <2>11
<1> QED BY <1>9, <1>10

\* The action Response keeps the invariant.
LEMMA ResponseGood ==
    ASSUME ~SplitRPort, IInv, NEW l \in Line, Response(l)
    PROVE  IInv'
<1> DEFINE S == [State EXCEPT !.answered = TRUE]
<1>1. PICK shared \in BOOLEAN, c \in Choice, i \in 0..Len(ready[tc[l]]) :
        Becomes(handleResponse(S, l, shared, i, c))
  BY DEF Response
<1>2. tc[l] = 0
  BY OneQueue
<1>3. abort = "no" /\ mshr[l].inService
  BY DEF Response, CanRespond
<1>4. /\ DOMAIN S = Fields /\ SameMisses(S, State) /\ SameRequests(S, State)
      /\ SameAnswers(S, State) /\ SameBlocks(S, State)
      /\ S.events = State.events /\ S.abort = State.abort
      /\ S.ready = ready /\ S.mshr = mshr /\ State.abort = abort
  BY DEF State, Fields, SameMisses, SameRequests, SameAnswers, SameBlocks
<1> HIDE DEF S
<1>5. PortInv(S)
  BY <1>4, SameState, ZenonT(60) DEF IInv
<1>6. PortInv(handleResponse(S, l, shared, i, c))
  BY <1>2, <1>3, <1>4, <1>5, RespondFacts
<1> QED BY <1>1, <1>6, BecomesGood

----------------------------------------------------------------------------
(* The theorems *)

\* The initial state.
LEMMA InitGood == ASSUME ~SplitRPort, Init PROVE IInv
<1> DEFINE S == State
<1>1. Tc = {0}
  BY OneQueue
<1>2. /\ DOMAIN S = Fields /\ S.req = IdleLayer /\ S.resp = IdleLayer
      /\ S.queue = [t \in Tc |-> [list |-> <<>>, waiting |-> FALSE]]
      /\ S.events = <<>> /\ S.mshr = [l \in Line |-> FreeMSHR]
      /\ S.ready = [t \in Tc |-> <<>>] /\ S.wbuf = [t \in Tc |-> <<>>]
      /\ S.gate = [causes |-> {}, blocked |-> FALSE, mustSendRetry |-> FALSE]
      /\ S.noTarget = NoLine
      /\ S.source = [s \in Source |-> [held |-> NoPacket, waiting |-> FALSE]]
      /\ S.arrived = [l \in Line |-> <<>>] /\ S.abort = "no"
  BY Zenon DEF Init, State, Fields
<1> HIDE DEF S
<1>3. /\ FreeMSHR \in MSHRType(Source) /\ LineOK(FreeMSHR, <<>>)
      /\ getNumTargets(FreeMSHR) = 0 /\ ~Allocated(FreeMSHR)
  BY FreeIsOK
<1>4. GoodEvents(<<>>) /\ \A e : ~scheduled(<<>>, e)
  BY DEF GoodEvents, scheduled
<1>5. IdleLayer \in Layer(Source) /\ IdleLayer \in Layer({Port})
      /\ IdleLayer.state = "IDLE" /\ IdleLayer.retryList = <<>>
  <2>1. <<>> \in Seq(Source) /\ <<>> \in Seq({Port})
    BY SeqEmpty, ZenonT(60)
  <2> QED BY <2>1 DEF IdleLayer, Layer
<1>6. /\ [list |-> <<>>, waiting |-> FALSE] \in Answers
      /\ [causes |-> {}, blocked |-> FALSE, mustSendRetry |-> FALSE] \in Gate
      /\ [held |-> NoPacket, waiting |-> FALSE] \in Above
  BY DEF Answers, Gate, Above
<1>7. Typed(S)
  <2> DEFINE W == Seq([line : Line, tick : Nat])
  <2>1. <<>> \in Seq(Line) /\ <<>> \in W /\ <<>> \in Seq(Source)
    BY SeqEmpty, Zenon
  <2> HIDE DEF W
  <2>2. /\ S.queue \in [Tc -> Answers] /\ S.mshr \in [Line -> MSHRType(Source)]
        /\ S.ready \in [Tc -> Seq(Line)] /\ S.wbuf \in [Tc -> W]
        /\ S.source \in [Source -> Above] /\ S.arrived \in [Line -> Seq(Source)]
    BY <1>2, <1>3, <1>6, <2>1, ZenonT(60)
  <2> QED BY <1>2, <1>4, <1>5, <1>6, <2>2, Zenon DEF Typed, W
<1>8. Misses(S)
  BY <1>1, <1>2, <1>3 DEF Misses, ReadyOK
<1>9. ~MissFull(S.mshr)
  <2>1. AllocatedLines(S.mshr) = {}
    BY <1>2, <1>3 DEF AllocatedLines
  <2>2. 1 \in 1..MSHRs
    BY SizesAssumption, SMTT(60)
  <2> QED BY <2>1, <2>2, ZenonT(60) DEF MissFull, AtLeast
<1>10. Blocks(S)
  <2>1. \A l \in Line : /\ l # NoLine /\ ~(getNumTargets(S.mshr[l]) >= numTarget)
                        /\ getNumTargets(S.mshr[l]) <= numTarget
    <3>1. \A l \in Line : l # NoLine /\ getNumTargets(S.mshr[l]) = 0
      BY <1>2, <1>3, PortAssumption, Zenon
    <3>2. numTarget \in Nat \ {0}
      BY SizesAssumption, ZenonT(60)
    <3> QED BY <3>1, <3>2
  <2>2. ~(Len(S.wbuf[0]) >= WriteBuffers)
    BY <1>1, <1>2, SizesAssumption
  <2>3. S.gate.causes = {} /\ S.gate.blocked = FALSE
    <3>1. S.gate = [causes |-> {}, blocked |-> FALSE, mustSendRetry |-> FALSE]
      BY <1>2, Zenon
    <3> QED BY <3>1
  <2> QED BY <1>2, <1>9, <2>1, <2>2, <2>3, Zenon DEF Blocks, Full
<1>11. Held(S.req, S.source, S.events)
  BY <1>2, <1>4, <1>5, Zenon, SMTT(60) DEF Held, OnList
<1>12. Sending(S.resp, S.queue[0], S.events)
  <2>1. S.queue[0].list = <<>> /\ S.queue[0].waiting = FALSE
    <3>1. 0 \in Tc /\ S.queue = [t \in Tc |-> [list |-> <<>>, waiting |-> FALSE]]
      BY <1>1, <1>2, Zenon
    <3> QED BY <3>1
  <2>2. S.resp.state = "IDLE" /\ S.resp.retryList = <<>> /\ \A e : ~scheduled(S.events, e)
    BY <1>2, <1>4, <1>5, Zenon
  <2> QED BY <2>1, <2>2, Zenon DEF Sending, Timely
<1> QED BY <1>2, <1>7, <1>8, <1>10, <1>11, <1>12, Zenon DEF IInv, PortInv, S

\* The invariant PortInv of a Cache on a bus without turns, for any number of
\* ports, lines, MSHRs, targets and write buffer entries and any latencies: every
\* action of the ports, the bus, the MSHR queue and the packet queue keeps it.
THEOREM PortInvariance == ASSUME ~SplitRPort PROVE Spec => []IInv
<1>1. Init => IInv
  BY InitGood, ZenonT(60)
<1>2. IInv /\ [Next]_vars => IInv'
  <2> SUFFICES ASSUME IInv, [Next]_vars PROVE IInv'
    BY ZenonT(60)
  <2>1. CASE \E s \in Source : \E pkt \in Sends[s] : Issue(s, pkt)
    BY <2>1, IssueGood
  <2>2. CASE ReleaseReq
    BY <2>2, ReleaseReqGood
  <2>3. CASE SendRetry
    BY <2>3, SendRetryGood
  <2>4. CASE ReleaseResp
    BY <2>4, ReleaseRespGood
  <2>5. CASE Tick
    BY <2>5, TickGood
  <2>6. CASE \E t \in Tc : SendEvent(t)
    BY <2>6, SendEventGood
  <2>7. CASE \E t \in Tc : SendWriteback(t) \/ SendMiss(t)
    BY <2>7, SendWritebackGood, SendMissGood
  <2>8. CASE \E l \in Line : Response(l)
    BY <2>8, ResponseGood
  <2>9. CASE UNCHANGED vars
    <3>1. State' = State
      BY <2>9, ZenonT(60) DEF vars, State
    <3> QED BY <3>1, Zenon DEF IInv
  <2> QED BY <2>1, <2>2, <2>3, <2>4, <2>5, <2>6, <2>7, <2>8, <2>9, Zenon DEF Next, Clock
<1> QED BY <1>1, <1>2, PTL DEF Spec

\* What the fields of the state are.
LEMMA FieldFacts ==
    /\ State.req = req /\ State.resp = resp /\ State.queue = queue
    /\ State.events = events /\ State.mshr = mshr /\ State.ready = ready
    /\ State.wbuf = wbuf /\ State.gate = gate /\ State.noTarget = noTarget
    /\ State.source = source /\ State.arrived = arrived /\ State.abort = abort
BY DEF State

\* Type correctness of the Cache; no event is scheduled twice.
THEOREM PortTypeCorrect == ASSUME ~SplitRPort PROVE Spec => []TypeOK
<1>1. IInv => TypeOK
  <2> SUFFICES ASSUME IInv PROVE TypeOK
    OBVIOUS
  <2>1. Typed(State) /\ Tc = {0}
    BY OneQueue, ZenonT(60) DEF IInv, PortInv
  <2>2. /\ req \in Layer(Source) /\ resp \in Layer({Port})
        /\ queue \in [Tc -> Answers] /\ GoodEvents(events)
        /\ mshr \in [Line -> MSHRType(Source)]
        /\ ready \in [Tc -> Seq(Line)]
        /\ wbuf \in [Tc -> Seq([line : Line, tick : Nat])]
        /\ gate \in Gate /\ noTarget \in Line \union {NoLine}
    BY <2>1, FieldFacts DEF Typed
  <2>3. \A t \in Tc : /\ queue[t].list \in Seq([pkt : Source, tick : Nat])
                      /\ queue[t].waiting \in BOOLEAN
    BY <2>2, Zenon DEF Answers
  <2>4. Events = {"reqRelease", "respRelease", "sendRetry"} \union {sendEvent(t) : t \in Tc}
    BY <2>1, Zenon DEF Events, sendEvent
  <2>5. /\ events \in Seq([ev : Events, when : Nat])
        /\ \A i, j \in 1..Len(events) : events[i].ev = events[j].ev => i = j
    BY <2>2, Zenon DEF GoodEvents
  <2>6. events \in Seq([ev : {"reqRelease", "respRelease", "sendRetry"}
                             \union {sendEvent(t) : t \in Tc}, when : Nat])
    BY <2>4, <2>5
  <2> QED BY <2>2, <2>3, <2>5, <2>6, Zenon DEF TypeOK, Gate
<1> QED BY <1>1, PortInvariance, PTL

\* Of all assertions on the path of a request or an answer only one can fail, the
\* event queue's when clearBlocked schedules the retry: not those of the
\* packet queue, nor that of handleFill, nor that the port is blocked when it
\* is unblocked.
THEOREM OnlyTheRetryFails ==
    ASSUME ~SplitRPort PROVE Spec => [](NoAssertionFails \/ abort = "schedule")
<1>1. IInv => NoAssertionFails \/ abort = "schedule"
  BY FieldFacts, SMTT(60) DEF IInv, PortInv, NoAssertionFails
<1> QED BY <1>1, PortInvariance, PTL

\* TargetsInOrder: requests for a line are answered in the order in which the
\* cache accepted them, for any number of requesters and targets.
THEOREM AnswersAreInOrder == ASSUME ~SplitRPort PROVE Spec => []TargetsInOrder
<1>1. IInv => TargetsInOrder
  <2> SUFFICES ASSUME IInv, NEW l \in Line
               PROVE  LET all == mshr[l].targets \o mshr[l].deferred
                      IN  arrived[l] = [i \in 1..Len(all) |-> all[i].src]
    BY Zenon DEF TargetsInOrder
  <2> DEFINE x == mshr[l].targets
             y == mshr[l].deferred
             a == arrived[l]
             all == x \o y
             nx == Len(x)
             ny == Len(y)
  <2>1. /\ mshr[l] \in MSHRType(Source) /\ a \in Seq(Source) /\ InOrder(mshr[l], a)
    BY FieldFacts, Zenon DEF IInv, PortInv, Typed, Misses, LineOK
  <2>2. x \in Seq(Target(Source)) /\ y \in Seq(Target(Source)) /\ nx \in Nat /\ ny \in Nat
    BY <2>1, MSHRFields, ZenonT(60)
  <2>3. /\ Len(a) = nx + ny /\ \A i \in 1..nx : a[i] = x[i].src
        /\ \A i \in 1..ny : a[nx + i] = y[i].src
    BY <2>1 DEF InOrder
  <2> HIDE DEF x, y, a
  <2>4. /\ all \in Seq(Target(Source)) /\ Len(all) = nx + ny
        /\ \A i \in 1..(nx + ny) : all[i] = IF i <= nx THEN x[i] ELSE y[i - nx]
    BY <2>2, SeqConcat
  <2> HIDE DEF all, nx, ny
  <2>5. ASSUME NEW i \in 1..(nx + ny)
        PROVE  a[i] = all[i].src
    <3>1. CASE i <= nx
      <4>1. i \in 1..nx
        BY <2>2, <3>1
      <4> QED BY <2>3, <2>4, <3>1, <4>1
    <3>2. CASE ~(i <= nx)
      <4>1. i - nx \in 1..ny /\ nx + (i - nx) = i
        BY <2>2, <3>2
      <4>2. a[i] = y[i - nx].src
        BY <2>3, <4>1
      <4> QED BY <2>4, <3>2, <4>2
    <3> QED BY <3>1, <3>2
  <2>6. a = [i \in 1..Len(a) |-> a[i]]
    BY <2>1 DEF a
  <2>7. a = [i \in 1..Len(all) |-> all[i].src]
    BY <2>3, <2>4, <2>5, <2>6
  <2> QED BY <2>7 DEF a, all, x, y
<1> QED BY <1>1, PortInvariance, PTL

\* WritesGetExclusive: while a request is out that may bring a shared copy, no
\* target that needs an exclusive one waits for it.
THEOREM NoWriteFromShared == ASSUME ~SplitRPort PROVE Spec => []WritesGetExclusive
<1>1. IInv => WritesGetExclusive
  BY FieldFacts, Zenon DEF IInv, PortInv, Misses, LineOK, WritesGetExclusive
<1> QED BY <1>1, PortInvariance, PTL

\* BlockedWhileFull: the blocked mask says which queues are full, and the port
\* turns requests away exactly while one is, as long as no assertion failed.
THEOREM BlockedExactlyWhileFull ==
    ASSUME ~SplitRPort PROVE Spec => [](NoAssertionFails => BlockedWhileFull)
<1>1. IInv => (NoAssertionFails => BlockedWhileFull)
  <2> SUFFICES ASSUME IInv, NoAssertionFails PROVE BlockedWhileFull
    BY ZenonT(60)
  <2>1. Blocks(State) /\ Tc = {0}
    BY FieldFacts, OneQueue DEF IInv, PortInv, NoAssertionFails
  <2>2. (\E t \in Tc : missFull(State, t)) <=> MissFull(mshr)
    BY <2>1, FieldFacts, MissFullIs
  <2>3. (\E t \in Tc : writeFull(State, t)) <=> Len(wbuf[0]) >= WriteBuffers
    BY <2>1, FieldFacts, ZenonT(60) DEF writeFull
  <2>4. Full(mshr, wbuf[0], gate, noTarget)
    BY <2>1, FieldFacts DEF Blocks
  <2> QED BY <2>2, <2>3, <2>4 DEF BlockedWhileFull, Full
<1> QED BY <1>1, PortInvariance, PTL

\* RejectedIsRemembered: a port whose packet was turned away is on the retry list
\* of the bus exactly once, and the release that gets to it is scheduled.
THEOREM RejectedOnce ==
    ASSUME ~SplitRPort PROVE Spec => [](NoAssertionFails => RejectedIsRemembered)
<1>1. IInv => (NoAssertionFails => RejectedIsRemembered)
  <2> SUFFICES ASSUME IInv, NoAssertionFails PROVE RejectedIsRemembered
    BY ZenonT(60)
  <2> DEFINE r == req.retryList
  <2>1. Held(req, source, events)
    BY FieldFacts DEF IInv, PortInv, NoAssertionFails
  <2>2. OnList(r, source) /\ (r # <<>> => scheduled(events, "reqRelease"))
    BY <2>1 DEF Held
  <2>3. \A s \in Source : source[s].held # NoPacket <=> \E i \in 1..Len(r) : r[i] = s
    BY <2>2 DEF OnList
  <2>4. \A i, j \in 1..Len(r) : r[i] = r[j] => i = j
    BY <2>2 DEF OnList
  <2> QED BY <2>2, <2>3, <2>4, ZenonT(60) DEF RejectedIsRemembered
<1> QED BY <1>1, PortInvariance, PTL

\* AnswerIsRemembered: the first answer in the packet queue has a send event that
\* is on time, or it waits for the bus, which has the port on its list and a
\* release scheduled.
THEOREM AnswersAreSent ==
    ASSUME ~SplitRPort PROVE Spec => [](NoAssertionFails => AnswerIsRemembered)
<1>1. IInv => (NoAssertionFails => AnswerIsRemembered)
  <2> SUFFICES ASSUME IInv, NoAssertionFails PROVE AnswerIsRemembered
    OBVIOUS
  <2>1. Sending(resp, queue[0], events) /\ Tc = {0} /\ sendEvent(0) = "send0"
    BY FieldFacts, OneQueue, Zenon DEF IInv, PortInv, NoAssertionFails, sendEvent
  <2>2. CASE queue[0].waiting
    <3>1. resp.retryList = <<Port>> /\ scheduled(events, "respRelease")
      BY <2>1, <2>2, Zenon DEF Sending
    <3>2. resp.retryList # <<>>
      BY <3>1, SMTT(60)
    <3> QED BY <2>1, <2>2, <3>1, <3>2, Zenon DEF AnswerIsRemembered
  <2>3. CASE ~queue[0].waiting
    BY <2>1, <2>3 DEF Sending, Timely, AnswerIsRemembered
  <2> QED BY <2>2, <2>3, Zenon
<1> QED BY <1>1, PortInvariance, PTL
=============================================================================
