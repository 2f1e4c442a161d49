# TLA+ models of the dynamically partitioned cache

This repository is gem5 (M5) with a memory hierarchy shared by two *timing
compartments*: Low (threadID 0) and High (threadID 1). Its own additions are
last-level caches whose sets are partitioned between the compartments and can be
resized at run time, MSHR queues and ports split per compartment, a bus that
serves the compartments in turns, and a partitioned DRAM controller. The models
here cover the coarse-grained dynamic cache, the controller that decides on its
partition, the dirty-bit cache of a labelled program, the port, queues and bus in
front of a cache, the turn-taking bus, and the DRAM channel that serves processes
in turns. They state correctness of the simulator
itself: data is neither lost nor stale, partitions stay partitions, assertions
hold, and what waits is served.

## Inventory

| Part | State | Operations | What is hard |
|---|---|---|---|
| Cache set (`tags/cacheset.cc`) | MRU-ordered block pointers | findBlk, moveToHead, moveToTail | order must stay a permutation |
| Coarse dynamic tag store (`tags/c_dynalru.cc`, `tags/lru.cc`) | two partitions per set, their sizes, blocks | access, findVictim, insertBlock, invalidateBlk, inc_size, dec_size | resizes interleave with every access |
| Coarse dynamic cache (`cache_impl.hh`) | MSHR queues, write buffers, blocks | timingAccess, access, getTimingPacket, handleResponse, handleFill, allocateBlock, inc_size, dec_size | a resize between a miss and its fill; misses against writebacks of the line |
| Utility monitor (`c_dynalru.cc`, `cache_impl.hh`) | shadow tags, hit counters | accessBlock, adjustPartition | counters and tags are reset at different times; indices |
| Round-robin bus (`rr_bus.cc`, `rr_noncoherent_bus.cc`) | per compartment: state, retry list, release and retry event | tryTiming, succeededTiming, failedTiming, releaseLayer, retryWaiting, recvRetry, drain | two events on one tick; the active compartment is recomputed from the clock |
| MSHRs and blocking (`mshr.cc`, `mshr_queue.cc`, `base.hh`, `base.cc`, `split_*.hh`) | targets, ready lists, blocked causes, the retry owed | allocate, allocateTarget, markInService, handleFill, promoteDeferredTargets, setBlocked, clearBlocked | deferred targets; one handler empties a queue and fills another; the retry is sent a tick later |
| Packet queue (`packet_queue.cc`) | deferred packets, waitingOnRetry, sendEvent | schedSendTiming, retry, trySendTiming, scheduleSend | a retry racing a scheduled send |
| Bus without turns (`bus.cc`, `noncoherent_bus.cc`) | state, retry list, release event of each layer | tryTiming, succeededTiming, failedTiming, releaseLayer, retryWaiting, recvRetry | a port is rejected by the bus or by the cache behind it |
| Dirty-bit cache (`cache_impl.hh`, `tags/dclru.cc`) | ways split by label, MSHR and write buffer per label | timingAccess, access, getBusPacket, handleResponse, handleFill | fake misses move data between labels; the label of a lookup differs from the place of the block |
| Time-partitioned DRAM channel (`ext/DRAMSim2`: `MemoryControllerTP`, `CommandQueueTP`, `Rank`) | transaction and command queues per process, two tables of bank states, data bus, refresh countdowns | addTransaction, update (every cycle) | what a process leaves behind at the end of its turn; two timing tables that must agree; refreshes against turns |
| Fine-grained dynamic cache, static partitions, other DRAM policies, coherent round-robin bus | | | see PROJECT.json |

The parts interact as follows. In the configurations with a shared cache
(`configs/common/CacheConfig.py`), the private cache of each compartment sends
requests over a `NoncoherentBus` (`tol3bus`) to the shared cache. The shared cache
asks its tag store, files misses and writebacks in the queues of the compartment,
sends them over the memory bus (a `NoncoherentBus`, or the `RR_NoncoherentBus` with
turns of `dramsim2_se.py`) and answers through its packet queue. An event every
`time_interval` cycles runs `adjustPartition`. With `dramsim2_se.py` the memory is
DRAMSim2: each request becomes a transaction of its process, and the channel is
advanced to the simulator's time. The dirty cache is the first-level
cache of `dirty_cache.py`.

## Modules

| Module | Models | State and actions |
|---|---|---|
| `CacheSet` | `class CacheSet` | operators on sequences of block names |
| `CDynaLRU` | `C_DYNALRU` over `LRU` | `sets[tc][s]` is `sets[tc][s].blks`, `blk` the blocks; `inc_size`, `dec_size`, `findBlock`, `findVictim` |
| `CDynamicCache` | `Cache<LRU>` as `C_DynamicCache` | one action per handler: `RecvRead/Fetch/ReadEx/Upgrade/Writeback` are `timingAccess`, `SendMiss/SendWriteback` are `getNextMSHR` and `getTimingPacket`, `RecvFill/RecvUpgradeResp` are `handleResponse`, `IncSize/DecSize` the resizes |
| `UtilityMonitor` | shadow tags, `adjustPartition` | `Access`, `adjustPartition`; the reference LRU caches `ways` and their `hits` |
| `Compartments` | `num_pids`, the processes among which bus and DRAM channel divide time | a constant and a set |
| `TurnTime` | `active_id`, `turn_begin`, `calcFinishTime` | pure operators |
| `RRBusLayer` | `RRBus::Layer` in `RR_NoncoherentBus` | `recvTiming`, `RetryFires`, `releaseLayer`, `PeerRetry`, `drain`, `Tick` |
| `LineMemory` | abstract: what a cache promises | value and copy of a line, requests not answered yet; `Request`, `Load`, `Store`, `Evict` |
| `CDynamicCacheRefinement` | | the mapping under which `CDynamicCache` implements `LineMemory` |
| `EventQueue` | `class EventQueue` | operators: `schedule`, `reschedule`, last scheduled first served |
| `BusLayer` | `BaseBus::Layer` | operators on a layer record |
| `MSHR` | `class MSHR` | operators on an MSHR record: `allocateTarget`, `markInService`, `handleFill`, `promoteDeferredTargets` |
| `CachePort` | composition: sources, `NoncoherentBus` (two layers), `Cache` or `SplitRPortCache` with its MSHRs, write buffers, blocking and response queues | `Issue` (a request enters the bus), `ReleaseReq`, `SendRetry`, `ReleaseResp`, `SendEvent` (events), `SendMiss`, `SendWriteback`, `Response` (memory side), `Tick` |
| `DirtyCache` | `DirtyCache` over `DCLRU` | `Access` is `timingAccess`, `SendMiss/SendWriteback` the memory side, `RecvResponse` is `handleResponse` |
| `DramTiming` | `SystemConfiguration.h`, `getCurrentPID`, `isBufferTime` | pure operators: delays, turns, dead time |
| `MemoryControllerTP` | `MemoryControllerTP` over `MemoryController`, `CommandQueueTP` over `CommandQueue`, `Rank` | operators from a record of the whole channel to the next; `MemorySystemUpdate` is one clock cycle, phase by phase in the order of the code |
| `DramIsolation` | composition: the channel, and a copy of it that gets the transactions of one process only | `AddTransaction`, `Cycle` |
| `CacheSetProofs`, `CDynamicCacheProofs`, `CoherenceProofs`, `DirtyCacheProofs`, `UtilityMonitorProofs`, `TurnProofs`, `CachePortHandlerProofs`, `CachePortProofs` | | theorems and their proofs |
| `MC_*` | | instances for TLC |

Modelling decisions.

* The cache calls its tag store through a pointer to `LRU`. `findVictim`,
  `insertBlock` and `invalidateBlk` are not virtual, so the versions that
  `C_DYNALRU` redefines are never called, and `CDynaLRU` uses those of `LRU`.
* A line's contents are its version. `latest` counts the writes of the program;
  coherence compares every copy that can be read with it.
* The caches above are reduced to the lines they hold (`l2`) and the commands
  they issue. The memory applies a packet when it is sent and responds later,
  in any order.
* Blocks of the shared cache are always writable when valid: nothing below
  asserts the shared line, and only exclusive lines are written back from above.
* Assertions are enabled, as in the `gem5.debug` binary that `run_DynaC` uses. A
  failing assertion stops the model (`abort`). In the `gem5.fast` build the code
  would go on.
* In `CachePort` a chain of calls within one event is one action, and each handler
  a function from states to states, so that an early return or a failing assertion
  cuts the rest of the chain off. What the tags find (hit, dirty victim) and how
  the memory answers (shared or not, owned or not) is chosen, restricted to what
  can occur: a response is shared only if nothing exclusive was asked for. A writeback
  from above may put a line back that has an MSHR or waits in the write buffer, so such
  a line may hit. If no block can be replaced, because the victim waits for an upgrade, a
  writeback from above is passed on through the write buffer, and a fill uses the
  temporary block, which is written back at once if it is dirty. No snoops arrive on a
  non-coherent bus, so post-invalidates and post-downgrades are left out.
* `retryWaiting` of a bus without turns has a branch for a port that does not send when
  it is retried. It is part of `reqRetryWaiting`, but its condition does not arise there:
  a retried cache still has the packet that was rejected (`RejectedIsRemembered`).
* Queues are changed by position, as the code does with iterators: `schedule` and
  `schedSendTiming` name the place of the new entry, `SendWriteback` removes the entry
  that `writeFirst` names. `InsertAt` and `RemoveAt` are defined in `EventQueue`, and
  `AtLeast` (a queue has as many entries allocated as it has room for) in `MSHR`,
  without recursion or cardinalities, so that the proofs can reason about them. The
  tail of `Answer` is a recursive function for the same reason.
* The constructor of `SplitRPortCache` overwrites its new `blocked_array` with a
  null pointer (`cache_impl.hh:1892`). The first queue that fills up dereferences
  it, which stops the model. With `MSHRs = 1` the split instance stops at the
  first miss.
* `DirtyCache` has one access outstanding, as `TimingSimpleCPU` has, and equal read
  and write labels, which the CPU sets. The readable bit, which only matters to
  other requests while a miss is outstanding, MSHR hits and the temporary block
  are out of reach then. All caches below are one store; it may answer a read with
  a shared copy once a writeback made it owner of the line. The label of a request
  is chosen anew for each access. `busFree` is chosen at the start: TRUE means that
  the bus takes a writeback before the CPU goes on.
* A variable that never changes (`static_cache` in `CDynamicCache`, `which` in
  `RRBusLayer`, `busFree` in `DirtyCache`) selects one of several configurations at the start, so that one run covers them.
* `UtilityMonitor` decides when to resize; `CDynamicCache` allows it at any time,
  which includes every decision the monitor can make.
* A read past the end of `umon_counters` returns an arbitrary member of
  `PastTheEnd`. The miss curve is given in whole misses, so the code's
  truncation of its differences does nothing.
* The bus counts clock edges modulo the period. A call between two edges
  behaves like a call at the next edge before the events of that edge. Of two
  events on one tick the queue serves the later scheduled one first
  (`eventq.cc`); between a retry and a release event of a layer that is always
  the retry. A port that serves both compartments is two ports here, since the
  retry lists and the packet queues behind the port are separate.
* The DRAM channel is sequential within a cycle, so a cycle is one action. The
  cycle at which something becomes possible (`nextRead`, `nextActivate`...) is kept
  as the number of cycles until then, and the clock modulo `Hyper`, a multiple of a
  round of turns and of the refreshes. An address is the rank, bank and row that
  addressMapping finds in it and the process it belongs to. The policy is the one
  of `system_tp.ini`: close page (every access precharges its bank),
  rank_then_bank, no power down; then `nextBank` only counts the rounds of a search.
  `refreshRank = -1` after a refresh is left out, since the rank is read only while
  a refresh waits. `lastPID` is not initialized and may be anything.
* `getCurrentPID` and `isBufferTime` take the clock less the offset as an `int`, shift
  and divide it with its sign, and return it as an `unsigned`. `AsInt`, `turnClock` and
  `turnOf` do the same with `IntRange` for 2^32 and `LongRange` for 2^64; both are
  constants because TLC has no integers of that size. The channel counts the clock modulo
  `Hyper`, which stands for a clock that has not passed the largest `int`
  (`HyperAssumption`).
* Transactions arrive between any two cycles. A refused one changes nothing in the
  channel, so only accepted ones are steps.

## Runs

| Run | Shows |
|---|---|
| `dynamic` | two lines of Low and one of High in a set of three ways. Resized at any time: partitions, ownership of blocks and coherence of Low hold, and what Low sees is a behaviour of `LineMemory` (`LowSeesMemory`). Without resizing (`static_cache`): both compartments are coherent, tags are unique, no assertion fails, and what all caches above see is a behaviour of `LineMemory` (`AllSeeMemory`) |
| `live` | two lines of High, under fairness: every miss is answered, in particular one that has to wait for a writeback of its line; what `inc_size` leaves of High in the Low partition is clean |
| `monitor` | shadow tags are a stack, counters predict the hits of each size, resizes follow the prediction |
| `rr` | both layers of the bus with turns, the request layer with a destination that rejects packets: a layer is released in its owner's turn and no waiting port is forgotten; in the response layer no assertion fails and nobody starves |
| `port` | three sources, two lines, full MSHR, target and write buffer queues and a busy bus: the blocked mask says which queues are full, no rejected request and no queued answer is forgotten, requests for a line are answered in order, no write is answered from a copy that may be shared, and every request is answered. With these sizes no assertion fails; with others one does, see `retry` |
| `dirty` | a program that switches labels: the ways stay split, a line is cached once, no store is lost and shared copies are unmodified (the last two while `busFree`) |
| `dram` | two processes that share a bank, two ranks, refreshes: in every cycle the observed process is served as if the other sent nothing; the ranks never refuse a command; there is one burst on the data bus; rows are closed when a turn begins; no refresh and no read is lost; whoever waits is served |

Runs that find a disagreement between the code and what the repository says:

| Run | Result |
|---|---|
| `stale` | `inc_size` leaves High's clean lines valid in the way that Low gets; after High rewrote such a line elsewhere, `dec_size` returns the old copy and High reads it |
| `umon_dec` | `adjustPartition` uses `umon_counters[L+1]` and `[L]` where growing and shrinking by a way concern `[L]` and `[L-1]`: Low is shrunk at a loss |
| `rr_empty` | a retry from the destination for a compartment that is not active makes `retryWaiting` look at the list of the active one, which may be empty |
| `split` | the port of a `SplitRPortCache` passes a retry to the response queue of every compartment; the first one takes the bus, the second fails to send while its own send event is scheduled, and the assertion of `trySendTiming` fails |
| `retry` | with one MSHR and a write buffer of two entries a `Cache` schedules its retry event twice, which the event queue forbids: a response frees the MSHR and schedules the retry, its eviction fills the write buffer, the next request is rejected, and an older writeback leaves within the same tick |

Further observations have no run of their own. `RRBus::Layer::drain` looks at
compartment 0 only, against its comment (`rr_bus.cc:804`). In the dirty cache,
`getNextMSHR` looks for a conflicting writeback in the write buffer of the
request's own label only; a line that Low evicted can be fetched by High before its
writeback has left. `NoStoreLost` therefore fails without `busFree`.
The copy that run `stale` reads may also return while a miss for its line is in flight.
As a victim it then fails the assertion of `allocateBlock` (`cache_impl.hh:1122`), and if
the miss still waits to be sent, the one of `getBusPacket`; `abort` records both, and
`NoAbort` is therefore claimed without resizing only.

What run `retry` finds needs a write buffer that fills up. `BaseCache.py` has 100000
entries by default, which never do. `configs/common/O3_ARM_v7a.py` has 16, 16 and 8
entries and `configs/splash2` has 8. The retry event is due one tick after `clearBlocked`,
so an instance in which a hit takes one tick fails the same assertion with one entry; a
cycle of a cache has hundreds of ticks.

In the DRAM channel, `normalPopClosePage` resets `nextRank` when the turn changes, with
the comment that this "seems to have no effect on interference"
(`CommandQueueTP.cpp:149`). It has one: without the reset `ServedAsIfAlone` is violated,
which is the mutant of that property. With `diffPeriod` and two processes the process
number is `cycle % (p0Period + p1Period) / p0Period` (`CommandQueueTP.cpp:283`); if
`p1Period > p0Period` a part of the round belongs to a process 2 that does not exist,
and process 1 gets `p0Period` cycles instead of the "period for security domain 1"
(`configs/dramsim2/dramsim2_se.py`). With an offset the process number is out of range in
the first `offset` cycles, except where the turn counted backwards is one of process 0
(`PidIffInt`); the same holds for the second half of every 2^32 cycles. `isBufferTime`
expects a refresh in every multiple of `REFRESH_PERIOD / NUM_RANKS`, rounded down, while
the controller refreshes each rank once in a period that is not rounded
(`MemoryController.cpp:295`). If `NUM_RANKS` does not divide the period, the two drift
apart by the remainder in each period. `RankAssumption` allows that, but run `dram` has a
period that is divisible, as the device files have with up to eight ranks; the drift takes
thousands of cycles, and with them states, to come round. A request that a full transaction queue refuses has been
entered in `ongoingAccess` before and is never asked for again (`DRAMSim2.cc:165`); the
queue has 1000 entries in the configurations with turns.

Each property of a passing run has a mutant of the code's model that violates
it: a dropped writeback, a missing reset, a way left in both partitions, a target
that is not deferred, a copy of High that stays, and so on (`PROJECT.json`).

### Bounds

* Three ways: with `L_init = H_min = 1` Low grows and shrinks between one and two
  ways, and each partition is at its minimum at some time. Two lines of one
  compartment and one of the other are enough for a line to be evicted by its own
  compartment, to move with a resize and to be fetched again. `MaxVer` writes per
  line: a stale copy needs one write (`live`, the violations), two
  tell an old from an older copy.
* One set. Sets meet only in the resizes and in the order of the miss queue; the
  theorems about the tag store hold for any number of sets.
* In `CDynamicCache` and `DirtyCache` the MSHR queues never fill: a compartment has
  fewer lines than the entries the configurations give it. Full queues are in
  `CachePort`: two MSHRs for two lines, one write buffer entry and three targets
  per MSHR for three sources, so that each queue fills up, alone and together with
  others. A packet occupies the bus for two ticks, a hit takes two and a fill three:
  an answer meets a free bus, a busy one and one that is released in its tick. One
  write buffer entry is also a restriction of `NoAssertionFails`: `retry` has two.
* `DirtyCache`: three lines compete for two ways of Low and one of High. Two stores
  per line and at most two waiting writebacks (`WriteBuffers`, a bound of the model);
  without `busFree` one store, since only `SingleCopy` and the types are at stake.
* `live` has two lines of High and no symmetry.
* `dram`: delays of a few cycles each, turns of 32 cycles of
  which an activate may use the first two (the first, if a refresh falls in the turn),
  a refresh every 48 cycles: in the middle of a turn of either process, in the first
  cycle of one, and not at all in others. Process 0, the observed one, reads and writes
  one bank in each rank and reads a second bank of rank 0; process 1 writes another row
  of a bank that process 0 uses. Three commands per queue leave room for one
  transaction and keep a second one waiting; one transaction waits before them.
* `MaxAccess` accesses between adjustments, with more tags than ways, so that
  shadow tags are evicted.
* Turns of two cycles, packets of one, three and four cycles: shorter than a
  turn, ending in the next turn, and as long as a round of turns. Ways and addresses that are
  interchangeable are symmetry sets.

### Fairness

`FairSpec` of `CDynamicCache` makes sends and responses weakly fair: they are
scheduled events, and the memory answers every request. Requests from above,
evictions and resizes are never forced. `FairSpec` of `RRBusLayer` makes the
event queue serve due events and lets time pass; ports are not forced to send.

`FairSpec` of `CachePort` is weakly fair to the event queue and to time. It is
strongly fair to sends and responses: a miss that can be sent again and again is
sent, because the bus to the memory is free between two packets, and a miss that was
sent is answered, though only one response comes in a tick. Weak fairness would
not do, since a full write buffer or a response of another line disables them for a
while. The enabling conditions are written out, and new requests are never forced.

`Fairness` of `DramIsolation` is weak fairness of `Cycle`: the simulator's clock
advances until the program ends. `Cycle` is enabled exactly while `exit` is "no", which
is written out, since TLC would have to compute a whole cycle to find out.

### Deadlock

Deadlock is checked in `monitor`, `umon_dec`, `port`, `split`, `retry`, `dirty` and `dram`.
In the others a failed assertion really stops the simulator.

## Proofs

`CDynamicCacheProofs` proves, for every associativity, initial size, number of
sets and set of addresses, under the named assumptions of `CDynaLRU` and
`CDynamicCache`:

* `TypeCorrect`: `TypeOK`;
* `PartitionIsKept`: `Partitioned`;
* `HighIsFreeOfLow`: `NoLowLineInHigh`;
* `LowEvictsHighSilently`: `HighLineInLowIsClean`;
* `LinesKeepTheirOwner`: `OwnerTagged`.

They follow from `Invariance`: `IInv == TypeOK /\ TagInv` is inductive. None of
them is inductive alone. A victim is a block of its partition only if the array
has the length the counters say (`Partitioned`); `dec_size` decides by `threadID`
whether to invalidate, so `NoLowLineInHigh` needs that a block carries the
compartment of its tag (`OwnerTagged`); and `HighLineInLowIsClean` needs that a
fill of High never reaches a way of Low (`Partitioned` again). The argument is in
two layers. Lemmas about sequences (`CacheSetProofs`, shared with the dirty cache)
show that moveToHead, moveToTail, Append and SubSeq keep a set a permutation of its ways. `StepKeepsTags` and
`StepKeepsTypes` then go through the actions.

`CoherenceProofs` goes on from `IInv` to the data:

* `LinesStayCoherent`: `LinesCoherent`, for Low through every resize and for both
  compartments without resizing;
* `TagsAreUnique`: `UniqueTags`; `AssertionsHold`: `NoAbort`;
* `LowImplementsMemory` and `AllImplementMemory`: the refinements `LowSeesMemory` and
  `AllSeeMemory` of `LineMemory`.

They follow from `CoherenceInvariance`. Its core is `LineInv(a)`, about one line: it is
in one way at most, which is in the partition of its compartment; while its MSHR is
allocated it is not cached; a writeback on its way is the only place that has the
latest version, is alone in its buffer and keeps a miss from being sent; a block whose
line is not modified above has the latest version; and if nobody owns the line the
memory has it. None of this is inductive without the rest: `LinesCoherent` needs that a
fill finds no copy, and that needs the MSHR and the writeback. `QueueInv` adds that the
ready list holds pending misses, each once. The proof first shows which steps leave a
line alone (`Elsewhere`, `NoAccessKeepsLine`: accesses to other lines reorder the set,
and replace or move only their own block or a victim), then goes through the actions
for the line they are about. `dec_size` is the step where `Protected` is needed: a way
that comes back to High may hold an old copy (run `stale`), but never one of Low.
The refinements need no more: each step is, for the line it is about, the action of
`LineMemory` that `SeesStep` names, or a stutter.

`TurnProofs` is about the two parts that divide time. `FinishesInOwnTurn`: a transfer
that starts in a turn of a compartment ends in a turn of the same compartment, for every
number of compartments, turn length and size. `releaseLayer` relies on it, since it asks
the clock whom to release. For every number of compartments and ports, every turn length
and all packet sizes, in both layers:

* `LayerTypeCorrect`: `TypeOK`; `OwnerReleases`: `ReleasedByOwner`;
* `NobodyIsForgotten`: `WaitingIsRemembered`;
* `ResponsesFindSomeone`: `ResponsesRetrySomeone`.

The first three follow from `LayerInvariance`. `WaitingIsRemembered` is not inductive
alone: a retry event must fire in a turn of its own compartment, or `retryWaiting`, which
asks the clock whom to retry, would use up the event for another list; and the layer
must be released by its owner, or the ports of a busy compartment would wait for a
release that goes elsewhere. `RetryOutcomes` is therefore stated without recursion:
all calls of `recvRetry` in the loop of `RR_NoncoherentBus::recvRetry` work on the
active compartment, so the second and all later ones do the same.
`ResponsesFindSomeone` needs `ResponseInv` as well: while a retry event is scheduled the
list of its compartment has a port, and the event is due in the first cycle of that
compartment's next turn, so that nothing can shorten the list before it fires.

For every device timing, number of ranks and processes, turn length and offset of the
DRAM channel:

* `PidIffInt`: for every clock, `getCurrentPID` is the number of a process exactly if
  the clock less the offset is not negative as an `int`, or the number of the turn,
  counted backwards, is a multiple of the number of processes;
* `PidInRange`: so it is one in the first `IntRange \div 2` cycles from `offset` on;
* `ActivateEndsInItsTurn`: in a cycle in which `isBufferTime` allows an activate, the
  turn goes on for `WORST_CASE_DELAY` cycles, and for `TP_BUFFER_TIME` if a refresh
  falls in it. That is the time an activate, its access and the precharge take, and
  the reason why turns keep processes apart; `RowsClosedAtTurn` and `ServedAsIfAlone`
  check the same in the whole channel.

`DirtyCacheProofs` proves, for every associativity above one and every set of lines:

* `DirtyTypeCorrect`: `TypeOK`, which includes that the two labels share out the ways;
* `LineIsCachedOnce`: `SingleCopy`;
* `StoresAreKept`: `NoStoreLost`; `SharedCopiesAreClean`: `SharedIsUnmodified`.

`DirtyInvariance` adds to the first two that a valid block has the tag of a line, without
which a victim could be written back to no address. `LineIsCachedOnce` goes through
the two kinds of fill: `FindBlkFinds` and `FindBlkMisses` say that a lookup that
fails in both labels leaves no copy, so a new block is the only one, and that a fake
miss finds the one copy of High, which it invalidates. Neither theorem needs
`busFree`. The other two hold while `busFree` and follow from `DataInvariance`: the
latest version of a line is in its one copy, in its one writeback, or below (`LineOK`);
no writeback is under way during an access (`BusOK`); and what a waiting access was
answered is still so when the answer is filled in (`MissOK`), which is why a late
answer cannot overwrite a store.

`UtilityMonitorProofs` proves, for every associativity, number of sets, set of tags,
miss curve and length of an interval:

* `MonitorTypeCorrect`: `TypeOK`; `ShadowTagsAreLRU`: `ShadowIsInclusive`;
* `CountersAreMarginalHits`: `CountersPredictHits`;
* `ResizingPaysOff`: the action property `ResizesPayOff`.

`MonitorInv` says that no tag is twice in a shadow set, that the reference cache of each
size k is the prefix of length k of it, and that more ways never hit less. An access then
does the same to all of them: the tag moves to the front from its position p, the caches
with p ways or more hit, and so counter p - 1 is the difference of two hit counts.
`ResizesPayOff` follows from the counters, and from the last conjunct where the code
reads past the last counter.

`CachePortHandlerProofs` and `CachePortProofs` are about a `Cache` behind its port
(`SplitRPort` is FALSE), for any set of caches above it and of lines, any number of MSHRs,
targets (at least two) and write buffers, and any latencies with
`hitLatency < fillLatency`:

* `PortTypeCorrect`: `TypeOK`; `AnswersAreInOrder`: `TargetsInOrder`;
  `NoWriteFromShared`: `WritesGetExclusive`;
* `OnlyTheRetryFails`: of all modelled assertions only the event queue's can fail, when
  `clearBlocked` schedules the retry event a second time;
* as long as it does not: `BlockedExactlyWhileFull` (`BlockedWhileFull`), `RejectedOnce`
  (`RejectedIsRemembered`) and `AnswersAreSent` (`AnswerIsRemembered`).

The exception is real (run `retry`), so the theorems
do not claim `NoAssertionFails`: run `port` shows it for one write buffer, packets that
occupy the bus for two ticks and hits that take two. `PortInv` has four parts. `Misses`: a
free MSHR is empty, targets are deferred only behind a request that may bring a shared
copy, no target of such a request writes, and targets followed by deferred ones are the
requesters in order. `Blocks`: the causes name the full queues. `Held`: the retry list of
the request layer is the ports with a rejected packet, each once, and the layer is busy
exactly while its release is scheduled. `Sending`: the packet queue waits with the port
alone on the list of a busy layer, or has a send event in time for its first answer. Each
handler is a function from states to states, so `CachePortHandlerProofs` has a lemma per
handler about what it does to each part and which parts it leaves alone, and
`CachePortProofs` one per action. The queue of events enters through `With`, `Without` and
`Agree`, which say what `schedule`, `reschedule` and serving an event do to each event.

Only model-checked:

* all liveness (`MissesAnswered`, `EveryoneGetsATurn`, `RequestsAnswered`, `Served`): it
  needs fairness and ENABLED, which the installed provers cannot do;
* `NoAssertionFails`, which depends on the sizes, as said above;
* the invariants of `DramIsolation`. A cycle of the channel is a composition of a dozen
  functions over nested records, and `ServedAsIfAlone` relates two copies of it; what is
  proved of the channel is the arithmetic of its turns.

## Not modelled

* Atomic and functional accesses, snoops, uncacheable accesses, prefetching, LL/SC,
  statistics and traces of the modelled parts.
* The parts that `PROJECT.json` lists as `not_modelled`, with the reason there: the
  fine-grained tag store, set and way partitioned stores without state of their own,
  the snoop layer of the coherent round-robin bus, and the DRAM policies other than time
  partitioning with turns of one length.
* Of the DRAM simulator: the open-page policy, power down, posted CAS, energy, epochs,
  traces, several channels (they share nothing) and the clock domain crossing.
* CPU models, instruction sets, devices, Ruby, the Python front end and the build
  system: the simulator that this repository inherits. By lines it is nearly all of
  the source. It has no part in the protocols above, except that it issues the
  requests and provides the event queue. The models therefore stand for about one
  percent of the lines: the files of the partitioned caches, the queues, ports and
  buses between them, and the DRAM channel.

## Plan

1. *Built*: the modules and proofs above.
2. `FDynaLRU` and the fine-grained cache as a variant of `CDynaLRU`, whose lookup of
   High goes through both partitions.
3. The snoop layer of the coherent round-robin bus.
4. `CachePort` over `RRBusLayer` instead of `BusLayer`: the packet queues per
   compartment are made for its retries, which name the compartment.
5. The DRAM port, with the packets that wait for an answer and requests that are
   refused, and turns of different lengths (`diffPeriod`).
6. Proofs: `RowsClosedAtTurn` and `CommandsAreLegal` of the DRAM channel; conditions on
   the sizes of the queues under which `NoAssertionFails` holds.
