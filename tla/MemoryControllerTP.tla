------------------------- MODULE MemoryControllerTP -------------------------
(***************************************************************************)
(* One channel of the DRAM simulator with time partitioning: the class     *)
(* MemoryControllerTP, its CommandQueueTP and the Rank objects it drives   *)
(* (ext/DRAMSim2), with the close-page policy of system_tp.ini.            *)
(*                                                                         *)
(* A clock cycle is a sequential program over the whole state, so the      *)
(* state is one record `m' and every phase of the cycle is an operator     *)
(* from records to records; MemorySystemUpdate composes them in the order  *)
(* of the code.  A time at which something becomes possible (nextRead,     *)
(* nextActivate...) is kept as the number of cycles until then.  An        *)
(* address is what addressMapping makes of it, with the process it belongs *)
(* to: pages are not shared.  `exit' names the ERROR that ended the        *)
(* program, "no" while it runs; `done' holds the callbacks of this cycle.  *)
(***************************************************************************)
EXTENDS DramTiming, SequencesExt

CONSTANTS Addr,               \* records [pid, rank, bank, row]
          CMD_QUEUE_DEPTH, TRANS_QUEUE_DEPTH,
          Hyper               \* bound: the clock is counted modulo Hyper

ASSUME AddrAssumption ==
    Addr \subseteq [pid : Pid, rank : Ranks, bank : Banks, row : Nat \ {0}]
ASSUME DepthAssumption ==
    CMD_QUEUE_DEPTH \in Nat \ {0} /\ TRANS_QUEUE_DEPTH \in Nat \ {0}
\* Turns and refreshes repeat with Hyper, as long as the clock is an int.
ASSUME HyperAssumption ==
    /\ Hyper \in Nat \ {0} /\ Hyper % (num_pids * tlength) = 0
    /\ Hyper % anyr_refresh = 0
    /\ offset = 0 /\ Hyper < IntRange \div 2

NoRow == 0
Packet(type, a) == [type |-> type, addr |-> a]
Timed(a, n) == [addr |-> a, left |-> n]

\* A bank as the controller sees it, and as the rank itself does.  The open row
\* is kept only while it is open, and the last command while it will still
\* change the state (stateChangeCountdown).
IdleBank == [state |-> "Idle", row |-> NoRow, nextRead |-> 0, nextWrite |-> 0,
             nextActivate |-> 0, last |-> "none", change |-> 0]

\* lastPID is not initialized.
InitialStates ==
    {[clock |-> 0,
      bank |-> [r \in Ranks |-> [b \in Banks |-> IdleBank]],
      dev |-> [r \in Ranks |-> [b \in Banks |-> IdleBank]],
      reads |-> [r \in Ranks |-> <<>>],
      burst |-> [r \in Ranks |-> <<>>],
      cmd |-> <<>>, writes |-> <<>>, wburst |-> <<>>,
      queue |-> [r \in Ranks |-> [p \in Pid |-> <<>>]],
      trans |-> [p \in Pid |-> <<>>],
      pending |-> [a \in Addr |-> 0], returns |-> <<>>,
      countdown |-> [r \in Ranks |-> anyr_refresh * (r + 1)], dueRank |-> 0,
      refreshWaiting |-> FALSE, refreshRank |-> 0,
      nextRank |-> 0, lastPID |-> last, faw |-> [r \in Ranks |-> <<>>],
      done |-> {}, exit |-> "no"] : last \in Pid}

\* The program ends with an ERROR.
Fail(m, error) == [m EXCEPT !.exit = IF @ = "no" THEN error ELSE @]

\* One cycle less to wait, for each entry of a queue.
Age(s) == [i \in DOMAIN s |-> [s[i] EXCEPT !.left = @ - 1]]
Expired(s) == s # <<>> /\ s[1].left = 0

----------------------------------------------------------------------------
(* class Rank *)

\* Mutant of RankUpdate: a burst takes BL cycles, not BL/2.
RankUpdateLong(m, r) ==
    LET out == Age(m.burst[r])
        reads == Age(m.reads[r])
    IN  [m EXCEPT
          !.returns = IF Expired(out) THEN Append(@, out[1].addr) ELSE @,
          !.burst[r] = IF Expired(reads) THEN <<Timed(reads[1].addr, BL)>>
                       ELSE IF Expired(out) THEN <<>> ELSE out,
          !.reads[r] = IF Expired(reads) THEN Tail(reads) ELSE reads]

\* Rank::update: the burst on the bus comes to its end and is received by the
\* controller; the oldest read whose latency is over takes the bus.
RankUpdate(m, r) ==
    LET out == Age(m.burst[r])
        reads == Age(m.reads[r])
    IN  [m EXCEPT
          !.returns = IF Expired(out) THEN Append(@, out[1].addr) ELSE @,
          !.burst[r] = IF Expired(reads) THEN <<Timed(reads[1].addr, Burst)>>
                       ELSE IF Expired(out) THEN <<>> ELSE out,
          !.reads[r] = IF Expired(reads) THEN Tail(reads) ELSE reads]

\* The bank that is accessed closes by itself (autoprecharge).
Closed(d, delay) ==
    [d EXCEPT !.state = "Idle", !.row = NoRow,
              !.nextActivate = max(@, delay)]

\* Rank::receiveFromBus for READ_P and WRITE_P.
ReceiveAccess(m, p, toRead, toWrite, autopre) ==
    LET r == p.addr.rank
        b == p.addr.bank
        d == m.dev[r][b]
        allowed == /\ d.state = "RowActive" /\ d.row = p.addr.row
                   /\ (IF p.type = "READ_P" THEN d.nextRead ELSE d.nextWrite) = 0
        after == [i \in Banks |-> [m.dev[r][i] EXCEPT
                    !.nextRead = max(@, toRead), !.nextWrite = max(@, toWrite)]]
    IN  IF allowed
        THEN [m EXCEPT !.dev[r] = [after EXCEPT ![b] = Closed(@, autopre)]]
        ELSE Fail(m, p.type)

ReceiveRead(m, p) ==
    LET n == ReceiveAccess(m, p, max(tCCD, Burst), READ_TO_WRITE_DELAY,
                           READ_AUTOPRE_DELAY)
    IN  [n EXCEPT !.reads[p.addr.rank] = Append(@, Timed(p.addr, RL))]

ReceiveWrite(m, p) ==
    ReceiveAccess(m, p, WRITE_TO_READ_DELAY_B, max(tCCD, Burst),
                  WRITE_AUTOPRE_DELAY)

ReceiveActivate(m, p) ==
    LET r == p.addr.rank
        b == p.addr.bank
        d == m.dev[r][b]
    IN  IF d.state = "Idle" /\ d.nextActivate = 0
        THEN [m EXCEPT !.dev[r] = [i \in Banks |->
                IF i = b
                THEN [d EXCEPT !.state = "RowActive", !.row = p.addr.row,
                               !.nextActivate = tRC,
                               !.nextRead = tRCD, !.nextWrite = tRCD]
                ELSE [m.dev[r][i] EXCEPT !.nextActivate = max(@, tRRD)]]]
        ELSE Fail(m, "ACTIVATE")

ReceiveRefresh(m, p) ==
    LET r == p.addr.rank
    IN  IF \A b \in Banks : m.dev[r][b].state = "Idle"
        THEN [m EXCEPT !.dev[r] = [b \in Banks |->
                [m.dev[r][b] EXCEPT !.nextActivate = tRFC]]]
        ELSE Fail(m, "REFRESH")

receiveFromBus(m, p) ==
    CASE p.type = "READ_P"   -> ReceiveRead(m, p)
      [] p.type = "WRITE_P"  -> ReceiveWrite(m, p)
      [] p.type = "ACTIVATE" -> ReceiveActivate(m, p)
      [] p.type = "REFRESH"  -> ReceiveRefresh(m, p)

----------------------------------------------------------------------------
(* class CommandQueueTP *)

CurrentPID(m) == getCurrentPID(m.clock)

\* isIssuable.  Rows are closed after every access, so the limit on the
\* accesses to an open row is never reached.
isIssuable(m, p) ==
    LET b == m.bank[p.addr.rank][p.addr.bank]
    IN  CASE p.type = "ACTIVATE" ->
               /\ b.state \in {"Idle", "Refreshing"} /\ b.nextActivate = 0
               /\ Len(m.faw[p.addr.rank]) < 4
          [] p.type = "READ_P" ->
               b.state = "RowActive" /\ b.nextRead = 0 /\ b.row = p.addr.row
          [] p.type = "WRITE_P" ->
               b.state = "RowActive" /\ b.nextWrite = 0 /\ b.row = p.addr.row

\* A command leaves the queue of the current process for the command bus.
Take(m, r, i) ==
    LET q == m.queue[r][CurrentPID(m)]
    IN  [m EXCEPT !.cmd = <<q[i]>>, !.queue[r][CurrentPID(m)] = RemoveAt(q, i)]

\* Mutant of refreshPopClosePage: refreshWaiting is not reset.
RefreshStillWaiting(m) ==
    LET r == m.refreshRank
        q == m.queue[r][CurrentPID(m)]
        Busy == {b \in Banks : \/ m.bank[r][b].state = "RowActive"
                               \/ m.bank[r][b].nextActivate > 0}
        bank == m.bank[r][Min(Busy)]
        ForRow == {i \in DOMAIN q : /\ q[i].addr.bank = Min(Busy)
                                    /\ q[i].addr.row = bank.row}
        first == Min(ForRow)
    IN  IF Busy = {}
        THEN [m EXCEPT
               !.cmd = <<Packet("REFRESH", [pid |-> 0, rank |-> r, bank |-> 0,
                                            row |-> NoRow])>>]
        ELSE IF /\ bank.state = "RowActive" /\ ForRow # {}
                /\ q[first].type # "ACTIVATE" /\ isIssuable(m, q[first])
             THEN Take(m, r, first)
             ELSE m

\* refreshPopClosePage: the first bank that is open or has to wait decides.  An
\* open one gets the first command for its row that the current process has, if
\* it is an access and issuable.  With no such bank the refresh is sent.
refreshPopClosePage(m) ==
    LET r == m.refreshRank
        q == m.queue[r][CurrentPID(m)]
        Busy == {b \in Banks : \/ m.bank[r][b].state = "RowActive"
                               \/ m.bank[r][b].nextActivate > 0}
        bank == m.bank[r][Min(Busy)]
        ForRow == {i \in DOMAIN q : /\ q[i].addr.bank = Min(Busy)
                                    /\ q[i].addr.row = bank.row}
        first == Min(ForRow)
    IN  IF Busy = {}
        THEN [m EXCEPT
               !.cmd = <<Packet("REFRESH", [pid |-> 0, rank |-> r, bank |-> 0,
                                            row |-> NoRow])>>,
               !.refreshWaiting = FALSE]
        ELSE IF /\ bank.state = "RowActive" /\ ForRow # {}
                /\ q[first].type # "ACTIVATE" /\ isIssuable(m, q[first])
             THEN Take(m, r, first)
             ELSE m

\* The commands of the current process that normalPopClosePage may take from
\* the queue of rank r: no activate when a turn change is about to happen, no
\* access right behind its own activate.
Eligible(m, r) ==
    LET q == m.queue[r][CurrentPID(m)]
    IN  {i \in DOMAIN q :
           /\ ~(r = m.refreshRank /\ m.refreshWaiting)
           /\ isIssuable(m, q[i])
           /\ ~(isBufferTime(m.clock) /\ q[i].type = "ACTIVATE")
           /\ ~(i > 1 /\ q[i - 1] = Packet("ACTIVATE", q[i].addr))}

\* Mutant of normalPopClosePage: the search starts where the last turn left off.
PopFromNextRank(m) ==
    LET n == [m EXCEPT !.lastPID = CurrentPID(m)]
        Found == {k \in Ranks : Eligible(m, (m.nextRank + k) % NUM_RANKS) # {}}
        r == (m.nextRank + Min(Found)) % NUM_RANKS
    IN  IF Found = {} THEN n
        ELSE [Take(n, r, Min(Eligible(m, r))) EXCEPT !.nextRank = r]

\* normalPopClosePage: ranks are searched in turn from nextRank on, which is
\* reset when the turn changes.  nextBank only counts the rounds of the search.
normalPopClosePage(m) ==
    LET start == IF m.lastPID # CurrentPID(m) THEN 0 ELSE m.nextRank
        n == [m EXCEPT !.lastPID = CurrentPID(m), !.nextRank = start]
        Found == {k \in Ranks : Eligible(m, (start + k) % NUM_RANKS) # {}}
        r == (start + Min(Found)) % NUM_RANKS
    IN  IF Found = {} THEN n
        ELSE [Take(n, r, Min(Eligible(m, r))) EXCEPT !.nextRank = r]

\* CommandQueue::pop with the four-activate window: a refresh goes first, then
\* the next rank is tried first, and an activate opens a window of tFAW.
pop(m) ==
    LET Window(s) == LET t == [i \in DOMAIN s |-> s[i] - 1]
                     IN  IF t # <<>> /\ t[1] = 0 THEN Tail(t) ELSE t
        n == [m EXCEPT !.faw = [r \in Ranks |-> Window(m.faw[r])]]
        refreshed == IF n.refreshWaiting THEN refreshPopClosePage(n) ELSE n
        popped == IF refreshed.cmd = <<>> THEN normalPopClosePage(n) ELSE refreshed
    IN  IF popped.cmd = <<>> THEN popped
        ELSE [popped EXCEPT
               !.nextRank = (@ + 1) % NUM_RANKS,
               !.faw[popped.cmd[1].addr.rank] =
                   IF popped.cmd[1].type = "ACTIVATE" THEN Append(@, tFAW) ELSE @]

----------------------------------------------------------------------------
(* class MemoryController *)

\* The state of a bank changes when its countdown ends: an access turns into a
\* precharge, a precharge or a refresh leaves the bank idle.
Countdown(b) ==
    IF b.change # 1 THEN [b EXCEPT !.change = IF @ = 0 THEN 0 ELSE @ - 1]
    ELSE CASE b.last \in {"READ_P", "WRITE_P"} ->
                [b EXCEPT !.state = "Precharging", !.row = NoRow,
                          !.last = "PRECHARGE", !.change = tRP]
           [] b.last \in {"PRECHARGE", "REFRESH"} ->
                [b EXCEPT !.state = "Idle", !.last = "none", !.change = 0]
           [] OTHER -> [b EXCEPT !.change = 0]

UpdateBankStates(m) ==
    [m EXCEPT !.bank = [r \in Ranks |-> [b \in Banks |-> Countdown(m.bank[r][b])]]]

\* The command on the bus reaches its rank.
DeliverCommand(m) ==
    IF m.cmd = <<>> THEN m
    ELSE receiveFromBus([m EXCEPT !.cmd = <<>>], m.cmd[1])

\* The write burst comes to its end, and with it the write.
DeliverData(m) ==
    LET out == Age(m.wburst)
    IN  IF Expired(out)
        THEN [m EXCEPT !.wburst = <<>>, !.done = @ \union {<<"write", out[1].addr>>}]
        ELSE [m EXCEPT !.wburst = out]

\* The data of the oldest write takes the bus when its latency is over.
SendData(m) ==
    LET writes == Age(m.writes)
    IN  IF ~Expired(writes) THEN [m EXCEPT !.writes = writes]
        ELSE IF m.wburst # <<>> THEN Fail(m, "Data Bus Collision")
        ELSE [m EXCEPT !.wburst = <<Timed(writes[1].addr, Burst)>>,
                       !.writes = Tail(writes)]

\* A rank is due for a refresh: needRefresh.
CheckRefresh(m) ==
    IF m.countdown[m.dueRank] # 0 THEN m
    ELSE [m EXCEPT !.refreshWaiting = TRUE, !.refreshRank = m.dueRank,
                   !.countdown[m.dueRank] = REFRESH_PERIOD,
                   !.dueRank = (@ + 1) % NUM_RANKS]

\* Mutant of DelayOthers: the other ranks may read at once.
DelayOtherWrites(m, r, ownRead, ownWrite, otherRead, otherWrite) ==
    [i \in Ranks |-> [j \in Banks |->
        LET b == m.bank[i][j]
        IN  IF i = r
            THEN [b EXCEPT !.nextRead = max(@, ownRead),
                           !.nextWrite = max(@, ownWrite)]
            ELSE IF b.state = "RowActive"
            THEN [b EXCEPT !.nextWrite = max(@, otherWrite)]
            ELSE b]]

\* What an access makes the other banks wait for: the banks of its own rank, and
\* the open banks of the other ranks, which share the data bus.
DelayOthers(m, r, ownRead, ownWrite, otherRead, otherWrite) ==
    [i \in Ranks |-> [j \in Banks |->
        LET b == m.bank[i][j]
        IN  IF i = r
            THEN [b EXCEPT !.nextRead = max(@, ownRead),
                           !.nextWrite = max(@, ownWrite)]
            ELSE IF b.state = "RowActive"
            THEN [b EXCEPT !.nextRead = max(@, otherRead),
                           !.nextWrite = max(@, otherWrite)]
            ELSE b]]

\* The bank that is accessed takes no access until it can be activated again.
Autoprecharged(b, type, autopre, toPre) ==
    LET next == max(b.nextActivate, autopre)
    IN  [b EXCEPT !.nextActivate = next, !.nextRead = next, !.nextWrite = next,
                  !.last = type, !.change = toPre]

IssueRead(m, a) ==
    LET n == [m EXCEPT !.bank = DelayOthers(m, a.rank,
                max(tCCD, Burst), READ_TO_WRITE_DELAY,
                Burst + tRTRS, READ_TO_WRITE_DELAY)]
    IN  [n EXCEPT !.bank[a.rank][a.bank] =
            Autoprecharged(@, "READ_P", READ_AUTOPRE_DELAY, READ_TO_PRE_DELAY)]

IssueWrite(m, a) ==
    LET n == [m EXCEPT !.bank = DelayOthers(m, a.rank,
                WRITE_TO_READ_DELAY_B, max(tCCD, Burst),
                WRITE_TO_READ_DELAY_R, Burst + tRTRS)]
    IN  [n EXCEPT !.writes = Append(@, Timed(a, WL)),
                  !.bank[a.rank][a.bank] =
            Autoprecharged(@, "WRITE_P", WRITE_AUTOPRE_DELAY, WRITE_TO_PRE_DELAY)]

\* Mutant of IssueActivate: the row can be accessed at once.
ActivateAtOnce(m, a) ==
    [m EXCEPT !.bank[a.rank] = [j \in Banks |->
        LET b == m.bank[a.rank][j]
        IN  IF j = a.bank
            THEN [b EXCEPT !.state = "RowActive", !.last = "ACTIVATE",
                           !.row = a.row, !.nextActivate = max(@, tRC)]
            ELSE [b EXCEPT !.nextActivate = max(@, tRRD)]]]

IssueActivate(m, a) ==
    [m EXCEPT !.bank[a.rank] = [j \in Banks |->
        LET b == m.bank[a.rank][j]
        IN  IF j = a.bank
            THEN [b EXCEPT !.state = "RowActive", !.last = "ACTIVATE",
                           !.row = a.row,
                           !.nextActivate = max(@, tRC),
                           !.nextRead = max(@, tRCD), !.nextWrite = max(@, tRCD)]
            ELSE [b EXCEPT !.nextActivate = max(@, tRRD)]]]

IssueRefresh(m, a) ==
    [m EXCEPT !.bank[a.rank] = [j \in Banks |->
        [m.bank[a.rank][j] EXCEPT !.state = "Refreshing", !.last = "REFRESH",
                                  !.nextActivate = tRFC, !.change = tRFC]]]

\* The bank states follow the command that pop put on the bus.
Issue(m) ==
    IF m.cmd = <<>> THEN m
    ELSE LET p == m.cmd[1]
         IN  CASE p.type = "READ_P"   -> IssueRead(m, p.addr)
               [] p.type = "WRITE_P"  -> IssueWrite(m, p.addr)
               [] p.type = "ACTIVATE" -> IssueActivate(m, p.addr)
               [] p.type = "REFRESH"  -> IssueRefresh(m, p.addr)

\* hasRoomFor for an activate and an access.
hasRoomFor(m, t) == CMD_QUEUE_DEPTH - Len(m.queue[t.addr.rank][t.addr.pid]) >= 2

\* updateTransactionQueue for one process: its first transaction that has room
\* becomes an activate and an access.  enqueue checks the room once more.
Schedule(m, pid) ==
    LET Room == {i \in DOMAIN m.trans[pid] : hasRoomFor(m, m.trans[pid][i])}
        i == Min(Room)
        t == m.trans[pid][i]
        q == m.queue[t.addr.rank][pid]
               \o <<Packet("ACTIVATE", t.addr), Packet(t.type, t.addr)>>
    IN  IF Room = {} THEN m
        ELSE IF Len(q) > CMD_QUEUE_DEPTH THEN Fail(m, "Enqueued more than allowed")
        ELSE [m EXCEPT !.trans[pid] = RemoveAt(@, i),
                       !.queue[t.addr.rank][pid] = q,
                       !.pending[t.addr] = IF t.type = "READ_P" THEN @ + 1 ELSE @]

updateTransactionQueue(m) ==
    FoldLeft(Schedule, m, [i \in 1..num_pids |-> i - 1])

\* updateReturnTransactions: the oldest read data goes back, with the pending
\* read of its address.
updateReturnTransactions(m) ==
    IF m.returns = <<>> THEN m
    ELSE LET a == Head(m.returns)
         IN  IF m.pending[a] = 0 THEN Fail(m, "no matching transaction")
             ELSE [m EXCEPT !.pending[a] = @ - 1, !.returns = Tail(@),
                            !.done = @ \union {<<"read", a>>}]

\* step: the clocks advance, and everything is one cycle nearer.
Sooner(b) ==
    LET Less(n) == IF n = 0 THEN 0 ELSE n - 1
    IN  [b EXCEPT !.nextRead = Less(@), !.nextWrite = Less(@),
                  !.nextActivate = Less(@)]
Step(m) ==
    [m EXCEPT !.clock = (@ + 1) % Hyper,
              !.countdown = [r \in Ranks |-> @[r] - 1],
              !.bank = [r \in Ranks |-> [b \in Banks |-> Sooner(@[r][b])]],
              !.dev = [r \in Ranks |-> [b \in Banks |-> Sooner(@[r][b])]]]

\* MemoryController::update.
ControllerUpdate(m) ==
    updateReturnTransactions(updateTransactionQueue(Issue(pop(CheckRefresh(
        SendData(DeliverData(DeliverCommand(UpdateBankStates(m)))))))))

\* MemorySystem::update: the ranks, the controller, the clocks.
MemorySystemUpdate(m) ==
    LET ranks == FoldLeft(RankUpdate, [m EXCEPT !.done = {}],
                          [i \in 1..NUM_RANKS |-> i - 1])
    IN  Step(ControllerUpdate(ranks))

\* Mutant of WillAcceptTransaction: one too many.
WillAcceptOneMore(m, pid) == Len(m.trans[pid]) <= TRANS_QUEUE_DEPTH

\* addTransaction: accepted if there is room in the queue of the process.
WillAcceptTransaction(m, pid) == Len(m.trans[pid]) < TRANS_QUEUE_DEPTH
addTransaction(m, t) ==
    IF WillAcceptTransaction(m, t.addr.pid)
    THEN [m EXCEPT !.trans[t.addr.pid] = Append(@, t)] ELSE m
=============================================================================
