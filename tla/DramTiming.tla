----------------------------- MODULE DramTiming -----------------------------
(***************************************************************************)
(* The timing parameters of the DRAM simulator (ext/DRAMSim2), the delays  *)
(* that SystemConfiguration.h derives from them, and the turns into which  *)
(* CommandQueueTP divides time.  All times are in cycles of the DRAM clock *)
(* (tCK = 1); AL is 0 and tCMD is 1, as in every device file.  All turns   *)
(* have one length (diffPeriod is off, the default).                       *)
(***************************************************************************)
EXTENDS Compartments

CONSTANTS CL, BL, tRCD, tRP, tRC, tRRD, tCCD, tRTP, tWTR, tWR, tRTRS, tRFC, tFAW,
          REFRESH_PERIOD,   \* between two refreshes of one rank
          NUM_RANKS, NUM_BANKS,
          tlength,          \* 2^tpTurnLength, the length of a turn
          offset,           \* of the first turn
          IntRange,         \* values of an int, 2^32 where the code is built
          LongRange         \* values of a uint64_t, 2^64

ASSUME DelayAssumption ==
    /\ {CL, BL, tRCD, tRP, tRC, tRRD, tCCD, tRTP, tWTR, tWR, tRTRS, tRFC, tFAW}
          \subseteq Nat \ {0}
    /\ BL >= 2 /\ CL >= 2
ASSUME RankAssumption ==
    /\ NUM_RANKS \in Nat \ {0} /\ NUM_BANKS \in Nat \ {0}
    /\ REFRESH_PERIOD \in Nat /\ REFRESH_PERIOD >= NUM_RANKS
\* tlength, IntRange and LongRange are powers of two, and tlength is an int.
ASSUME SliceAssumption ==
    /\ num_pids \in Nat \ {0} /\ tlength \in Nat \ {0} /\ offset \in Nat
    /\ IntRange \in Nat \ {0} /\ IntRange % (2 * tlength) = 0
    /\ LongRange \in Nat \ {0} /\ LongRange % IntRange = 0
    /\ num_pids < IntRange \div 2

Ranks == 0..(NUM_RANKS - 1)
Banks == 0..(NUM_BANKS - 1)

max(a, b) == IF a < b THEN b ELSE a

RL == CL
WL == RL - 1
Burst == BL \div 2
READ_TO_PRE_DELAY == Burst + max(tRTP, tCCD) - tCCD
WRITE_TO_PRE_DELAY == WL + Burst + tWR
READ_TO_WRITE_DELAY == RL + Burst + tRTRS - WL
READ_AUTOPRE_DELAY == tRTP + tRP
WRITE_AUTOPRE_DELAY == WL + Burst + tWR + tRP
WRITE_TO_READ_DELAY_B == WL + Burst + tWTR
WRITE_TO_READ_DELAY_R == WL + Burst + tRTRS - RL
WORST_CASE_DELAY == WL + Burst + tWR + tRP + tRCD
TP_BUFFER_TIME == WORST_CASE_DELAY + tRFC

\* Cycles between two refreshes of any ranks, rounded down.
anyr_refresh == REFRESH_PERIOD \div NUM_RANKS

----------------------------------------------------------------------------
(* Turns *)

\* The int that a wider integer is converted to: its low bits, with a sign.
AsInt(n) ==
    LET low == n % IntRange
    IN  IF low < IntRange \div 2 THEN low ELSE low - IntRange

\* _currentClockCycle, an int, and the number of the turn.  It is negative before
\* the first turn, and again once the int overflows.
turnClock(c) == AsInt(c - offset)
turnOf(c) == turnClock(c) \div tlength

\* getCurrentPID: the process whose turn it is at cycle c.  The remainder of a
\* negative turn is negative or 0, and the function returns it as an unsigned.
getCurrentPID(c) ==
    IF turnOf(c) >= 0 THEN turnOf(c) % num_pids
    ELSE (-((-turnOf(c)) % num_pids)) % IntRange

\* Cycles since the turn began, and _turnBegin, the cycle in which it did.
intoTurn(c) == turnClock(c) % tlength
turnBegin(c) == (turnClock(c) - intoTurn(c) + offset) % LongRange

\* A rank is taken to become due for a refresh in every multiple of anyr_refresh.
RefreshInTurn(c) ==
    AsInt(turnBegin(c) \div anyr_refresh)
        < AsInt(((turnBegin(c) + tlength - 1) % LongRange) \div anyr_refresh)

\* Mutant of deadtime: a hundredth of a short turn is nothing.
deadtimeHundredth(delay) ==
    IF tlength < delay THEN tlength ELSE tlength - (tlength - delay) \div 100

\* normal_deadtime and refresh_deadtime: activates are left to the first tenth
\* of what `delay' leaves of the turn.  If it leaves nothing the unsigned
\* difference wraps, and the dead time is more than any turn.
deadtime(delay) ==
    IF tlength < delay THEN tlength ELSE tlength - (tlength - delay) \div 10

\* Mutant of isBufferTime: it looks at the turn of the next cycle.
isBufferTimeNext(c) ==
    tlength - intoTurn(c + 1) <=
        deadtime(IF RefreshInTurn(c + 1) THEN TP_BUFFER_TIME ELSE WORST_CASE_DELAY)

\* isBufferTime: the turn is too old for an activate.
isBufferTime(c) ==
    tlength - intoTurn(c) <=
        deadtime(IF RefreshInTurn(c) THEN TP_BUFFER_TIME ELSE WORST_CASE_DELAY)
=============================================================================
