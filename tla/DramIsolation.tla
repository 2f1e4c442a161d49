--------------------------- MODULE DramIsolation ----------------------------
(***************************************************************************)
(* The time-partitioned DRAM channel under load, side by side with a copy  *)
(* of itself that gets the transactions of one process only.  Transactions *)
(* arrive between two cycles, as gem5 calls addTransaction and update from *)
(* events of its own.                                                      *)
(***************************************************************************)
EXTENDS MemoryControllerTP

CONSTANTS Observed,         \* the process that both copies serve
          Transactions      \* what gem5 may send

ASSUME ObservedAssumption == Observed \in Pid
ASSUME TransactionAssumption ==
    Transactions \subseteq [type : {"READ_P", "WRITE_P"}, addr : Addr]

VARIABLES sys, alone
vars == <<sys, alone>>

Init == \E m \in InitialStates : sys = m /\ alone = m

\* DRAMSim2::MemoryPort::recvTimingReq passes a request on.
AddTransaction(t) ==
    /\ sys.exit = "no" /\ WillAcceptTransaction(sys, t.addr.pid)
    /\ sys' = addTransaction(sys, t)
    /\ alone' = IF t.addr.pid = Observed THEN addTransaction(alone, t) ELSE alone

Cycle ==
    /\ sys.exit = "no"
    /\ sys' = MemorySystemUpdate(sys)
    /\ alone' = MemorySystemUpdate(alone)

Next == Cycle \/ \E t \in Transactions : AddTransaction(t)

\* The clock of the simulator does not stop unless the program ends: weak
\* fairness of Cycle, with what it means for Cycle to be enabled written out.
Ticks == sys'.clock # sys.clock
Fairness == []<>(sys.exit # "no") \/ []<><<Ticks>>_vars
Spec == Init /\ [][Next]_vars /\ Fairness

----------------------------------------------------------------------------
(* Properties *)

\* Type invariant of both copies.
BankStates == {"Idle", "RowActive", "Precharging", "Refreshing"}
Type(m) ==
    /\ m.clock \in 0..(Hyper - 1)
    /\ \A r \in Ranks, b \in Banks : /\ m.bank[r][b].state \in BankStates
                                     /\ m.dev[r][b].state \in {"Idle", "RowActive"}
    /\ \A r \in Ranks, p \in Pid : Len(m.queue[r][p]) <= CMD_QUEUE_DEPTH
    /\ \A p \in Pid : Len(m.trans[p]) <= TRANS_QUEUE_DEPTH
    /\ \A r \in Ranks : m.countdown[r] \in 0..REFRESH_PERIOD
TypeOK == Type(sys) /\ Type(alone)

\* The rank checks every command against timing tables of its own, a cycle
\* after the controller issued it, and ends the program with an ERROR if it is
\* too early; so do a second write on the data bus and data nobody waits for.
\* None of this happens: the controller's tables are never behind the rank's.
CommandsAreLegal == sys.exit = "no"

\* Ranks and controller drive one data bus, which the code checks only among
\* the writes: there is never more than one burst on it.
OneBurst ==
    \A r, s \in Ranks : /\ sys.burst[r] # <<>> => sys.wburst = <<>>
                        /\ sys.burst[r] # <<>> /\ sys.burst[s] # <<>> => r = s

\* What process p can notice: whether it may send, and what completes when.
Service(m, p) == <<Len(m.trans[p]), {d \in m.done : d[2].pid = p}>>

\* The turns keep the processes apart: a process is served in every cycle as if
\* the others sent nothing, whatever they send.
ServedAsIfAlone == Service(sys, Observed) = Service(alone, Observed)

\* When a turn begins, the rows the previous process opened are closed again:
\* every activate that isBufferTime let through got its access in time.
RowsClosedAtTurn ==
    intoTurn(sys.clock) = 0 =>
        \A r \in Ranks, b \in Banks : sys.bank[r][b].state # "RowActive"

\* A refresh is sent before the next one is due, so needRefresh never overwrites
\* one that waits for open rows.
NoRefreshLost == sys.countdown[sys.dueRank] = 0 => ~sys.refreshWaiting

\* Read data that takes the bus of a rank replaces what is there: every pending
\* read still has its command or its data somewhere on the way.
Count(s, a) == Cardinality({i \in DOMAIN s : s[i] = a})
OnTheWay(m, a) ==
    LET Reads(s) == Count(s, Packet("READ_P", a))
        Addrs(s) == Cardinality({i \in DOMAIN s : s[i].addr = a})
    IN  Reads(m.queue[a.rank][a.pid]) + Reads(m.cmd) + Addrs(m.reads[a.rank])
          + Addrs(m.burst[a.rank]) + Count(m.returns, a)
NoReadLost == \A a \in Addr : sys.pending[a] = OnTheWay(sys, a)

\* A process that has transactions in the channel sees one of them complete.
Waiting(p) ==
    \/ sys.trans[p] # <<>>
    \/ \E r \in Ranks : sys.queue[r][p] # <<>>
    \/ \E a \in Addr : a.pid = p /\ sys.pending[a] > 0
Served == \A p \in Pid : Waiting(p) ~> (\E d \in sys.done : d[2].pid = p)
=============================================================================
