--------------------------- MODULE CDynamicCache ----------------------------
(***************************************************************************)
(* The coarse-grained dynamically partitioned cache in timing mode: the    *)
(* handlers of Cache<LRU> and C_DynamicCache (src/mem/cache/cache_impl.hh) *)
(* over the tag store CDynaLRU, with one MSHR queue and one write buffer   *)
(* per timing compartment (split_mshr_cache.hh).                           *)
(*                                                                         *)
(* Above it, each compartment has a private cache (`l2'), the same class   *)
(* one level up, reduced to the commands it issues: ReadReq (data or       *)
(* instruction fetch), ReadExReq, UpgradeReq and Writeback.  Below it is a *)
(* memory behind a non-coherent bus: a packet that is sent is applied to   *)
(* the memory at once, its response comes back later and in any order.     *)
(* The two compartments run processes with disjoint physical pages.        *)
(*                                                                         *)
(* The contents of a line are its version: the number of writes it has     *)
(* seen.  `latest' counts the writes the program made.  `abort' names the  *)
(* assertion that stopped the simulator, "no" while it runs.  One handler  *)
(* is one action.  When the size is adjusted and in which direction is     *)
(* left open here; UtilityMonitor models how adjustPartition decides.      *)
(***************************************************************************)
EXTENDS CDynaLRU

CONSTANTS LowAddr,        \* addresses used by compartment 0
          MaxVer          \* bound: writes to one line

ASSUME LowAddrAssumption == LowAddr \subseteq Addr
ASSUME ParamAssumption == MaxVer \in Nat

VARIABLES static_cache, \* parameter: adjustEvent is never scheduled
          mshr,     \* mshr[a]: miss outstanding for a
          missq,    \* missq[tc]: ready list of the MSHR queue of tc
          wb,       \* wb[a]: versions of a pending in the write buffer
          mem,      \* mem[a]: version in memory
          l2,       \* l2[a]: the line in the private cache above
          latest,   \* latest[a]: version the last write of the program made
          abort

cacheVars == <<tagVars, mshr, missq, wb, mem, l2, latest, abort>>
vars == <<static_cache, cacheVars>>

\* The compartment an address belongs to.
tcOf(a) == IF a \in LowAddr THEN 0 ELSE 1

Cmd == {"Read", "Fetch", "ReadEx", "Upgrade"}
NoMSHR == [st |-> "none", cmd |-> "Read", ver |-> 0]
NoLine == [st |-> "I", ver |-> 0]
Line(st, v) == [st |-> st, ver |-> v]

Init ==
    /\ TagsInit
    /\ static_cache \in BOOLEAN
    /\ mshr = [a \in Addr |-> NoMSHR]
    /\ missq = [tc \in TC |-> <<>>]
    /\ wb = [a \in Addr |-> <<>>]
    /\ mem = [a \in Addr |-> 0]
    /\ l2 = [a \in Addr |-> NoLine]
    /\ latest = [a \in Addr |-> 0]
    /\ abort = "no"

----------------------------------------------------------------------------
(* Replacement *)

\* Mutant of WithWriteback: a dirty victim is dropped.
WithoutWriteback(b) == wb

\* writebackBlk and allocateWriteBuffer for a victim block.
WithWriteback(b) ==
    IF b.valid /\ b.dirty THEN [wb EXCEPT ![b.tag] = Append(@, b.data)] ELSE wb

\* allocateBlock finds an MSHR for the block it is about to replace.  Every
\* valid block is writable, so assert(!blk->isWritable()) then fails.
VictimInFlight(b) ==
    b.valid /\ b.threadID = tcOf(b.tag) /\ mshr[b.tag].st # "none"

\* The block that allocateBlock would replace for a.
Victim(a) == blk[extractSet[a]][findVictim(a, tcOf(a))]

\* An assertion fails: the simulator stops in the middle of the handler.
Stop(assertion) ==
    /\ abort' = assertion
    /\ UNCHANGED <<tagVars, mshr, missq, wb, mem, l2, latest>>

\* allocateBlock and insertBlock: a takes the place of the LRU block, which is
\* written back if it is dirty, and moves to the head of its partition.
\* `order' is the final order of the set.
Replace(a, contents, order) ==
    /\ Reorder(a, tcOf(a), order)
    /\ Update(a, findVictim(a, tcOf(a)), contents)
    /\ wb' = WithWriteback(Victim(a))
    /\ UNCHANGED <<L_assoc, H_assoc>>

\* A block is taken to the head by an access and to the tail by invalidateBlk.
HeadThenTail(set, w) == moveToTail(moveToHead(set, w), w)

----------------------------------------------------------------------------
(* Requests from the cache above: timingAccess, access *)

\* timingAccess on a miss: allocateMissBuffer.
Miss(a, cmd) ==
    /\ mshr' = [mshr EXCEPT ![a] = [st |-> "pending", cmd |-> cmd, ver |-> 0]]
    /\ missq' = [missq EXCEPT ![tcOf(a)] = Append(@, a)]
    /\ UNCHANGED <<tagVars, wb, mem, l2, latest, abort>>

\* satisfyCpuSideRequest for a data ReadReq: the requester gets an exclusive
\* copy, and with it the ownership of a dirty line.
SatisfyRead(a, w) ==
    LET b == blk[extractSet[a]][w]
    IN  /\ Reorder(a, tcOf(a), moveToHead(get_set(a, tcOf(a)), w))
        /\ Update(a, w, [b EXCEPT !.dirty = FALSE])
        /\ l2' = [l2 EXCEPT ![a] = Line(IF b.dirty THEN "M" ELSE "E", b.data)]
        /\ UNCHANGED <<L_assoc, H_assoc, mshr, missq, wb, mem, latest, abort>>

\* satisfyCpuSideRequest for an instruction fetch: only a shared copy.
SatisfyFetch(a, w) ==
    /\ Reorder(a, tcOf(a), moveToHead(get_set(a, tcOf(a)), w))
    /\ l2' = [l2 EXCEPT ![a] = Line("S", blk[extractSet[a]][w].data)]
    /\ UNCHANGED <<L_assoc, H_assoc, blk, mshr, missq, wb, mem, latest, abort>>

\* satisfyCpuSideRequest for a ReadExReq: the block is given up.
SatisfyReadEx(a, w) ==
    LET b == blk[extractSet[a]][w]
    IN  /\ Reorder(a, tcOf(a), HeadThenTail(get_set(a, tcOf(a)), w))
        /\ Update(a, w, Invalidated(b))
        /\ l2' = [l2 EXCEPT ![a] = Line(IF b.dirty THEN "M" ELSE "E", b.data)]
        /\ UNCHANGED <<L_assoc, H_assoc, mshr, missq, wb, mem, latest, abort>>

\* An upgrade is acknowledged: the cache above writes the line it holds.
UpgradeAndWrite(a) ==
    /\ l2' = [l2 EXCEPT ![a] = Line("M", l2[a].ver + 1)]
    /\ latest' = [latest EXCEPT ![a] = @ + 1]

\* satisfyCpuSideRequest for an UpgradeReq: the block is given up.
SatisfyUpgrade(a, w) ==
    /\ Reorder(a, tcOf(a), HeadThenTail(get_set(a, tcOf(a)), w))
    /\ Update(a, w, Invalidated(blk[extractSet[a]][w]))
    /\ UpgradeAndWrite(a)
    /\ UNCHANGED <<L_assoc, H_assoc, mshr, missq, wb, mem, abort>>

\* A request arrives.  The cache above has at most one miss per line.
RecvRead(a) ==
    /\ abort = "no" /\ l2[a].st = "I" /\ mshr[a].st = "none"
    /\ LET w == findBlock(a, tcOf(a))
       IN  IF w = NULL THEN Miss(a, "Read") ELSE SatisfyRead(a, w)

RecvFetch(a) ==
    /\ abort = "no" /\ l2[a].st = "I" /\ mshr[a].st = "none"
    /\ LET w == findBlock(a, tcOf(a))
       IN  IF w = NULL THEN Miss(a, "Fetch") ELSE SatisfyFetch(a, w)

RecvReadEx(a) ==
    /\ abort = "no" /\ l2[a].st = "I" /\ mshr[a].st = "none"
    /\ LET w == findBlock(a, tcOf(a))
       IN  IF w = NULL THEN Miss(a, "ReadEx") ELSE SatisfyReadEx(a, w)

RecvUpgrade(a) ==
    /\ abort = "no" /\ l2[a].st = "S" /\ mshr[a].st = "none"
    /\ latest[a] < MaxVer
    /\ LET w == findBlock(a, tcOf(a))
       IN  IF w = NULL THEN Miss(a, "Upgrade") ELSE SatisfyUpgrade(a, w)

\* Mutant of AcceptWriteback: a block is allocated on a hit, too.
AllocateAlways(a, w) ==
    /\ Replace(a, Filled(a, tcOf(a), l2[a].ver, TRUE),
               moveToHead(get_set(a, tcOf(a)), findVictim(a, tcOf(a))))
    /\ l2' = [l2 EXCEPT ![a] = NoLine]
    /\ UNCHANGED <<mshr, missq, mem, latest, abort>>

\* access for a Writeback.  On a hit the block is overwritten, on a miss one is
\* allocated.
AcceptWriteback(a, w) ==
    LET contents == Filled(a, tcOf(a), l2[a].ver, TRUE)
    IN  /\ IF w = NULL
           THEN Replace(a, contents,
                        moveToHead(get_set(a, tcOf(a)), findVictim(a, tcOf(a))))
           ELSE /\ Reorder(a, tcOf(a), moveToHead(get_set(a, tcOf(a)), w))
                /\ Update(a, w, contents)
                /\ UNCHANGED <<L_assoc, H_assoc, wb>>
        /\ l2' = [l2 EXCEPT ![a] = NoLine]
        /\ UNCHANGED <<mshr, missq, mem, latest, abort>>

\* The cache above evicts a dirty line.
RecvWriteback(a) ==
    /\ abort = "no" /\ l2[a].st = "M"
    /\ LET w == findBlock(a, tcOf(a))
       IN  IF w = NULL /\ VictimInFlight(Victim(a))
           THEN Stop("allocateBlock")
           ELSE AcceptWriteback(a, w)

\* The cache above writes a line it holds exclusively, or drops a clean one.
L2Write(a) ==
    /\ abort = "no" /\ l2[a].st \in {"E", "M"} /\ latest[a] < MaxVer
    /\ UpgradeAndWrite(a)
    /\ UNCHANGED <<tagVars, mshr, missq, wb, mem, abort>>

L2Drop(a) ==
    /\ abort = "no" /\ l2[a].st \in {"S", "E"} /\ mshr[a].st = "none"
    /\ l2' = [l2 EXCEPT ![a] = NoLine]
    /\ UNCHANGED <<tagVars, mshr, missq, wb, mem, latest, abort>>

----------------------------------------------------------------------------
(* Requests to the memory: getNextMSHR, getTimingPacket *)

\* Mutant of SendMiss: a pending writeback of the line is not looked for.
SendMissFirst(tc) ==
    /\ abort = "no" /\ missq[tc] # <<>>
    /\ LET a == Head(missq[tc])
       IN  IF findBlock(a, tc) # NULL
           THEN Stop("getBusPacket")
           ELSE /\ mshr' = [mshr EXCEPT ![a].st = "inService", ![a].ver = mem[a]]
                /\ missq' = [missq EXCEPT ![tc] = Tail(@)]
                /\ UNCHANGED <<tagVars, wb, mem, l2, latest, abort>>

\* The miss at the head of the ready list is sent, unless a writeback of the
\* same line is pending: that goes first.  Finding the block valid in the
\* partition after all fails getBusPacket's assertion.
SendMiss(tc) ==
    /\ abort = "no" /\ missq[tc] # <<>>
    /\ LET a == Head(missq[tc])
       IN  /\ wb[a] = <<>>
           /\ IF findBlock(a, tc) # NULL
              THEN Stop("getBusPacket")
              ELSE /\ mshr' = [mshr EXCEPT ![a].st = "inService",
                                           ![a].ver = mem[a]]
                   /\ missq' = [missq EXCEPT ![tc] = Tail(@)]
                   /\ UNCHANGED <<tagVars, wb, mem, l2, latest, abort>>

\* Mutant of SendWriteback: misses always go first.
SendWritebackLast(a) ==
    /\ abort = "no" /\ wb[a] # <<>> /\ missq[tcOf(a)] = <<>>
    /\ mem' = [mem EXCEPT ![a] = Head(wb[a])]
    /\ wb' = [wb EXCEPT ![a] = Tail(@)]
    /\ UNCHANGED <<tagVars, mshr, missq, l2, latest, abort>>

\* A pending writeback is sent; its entry is freed since no response comes.
\* Writebacks of one line are sent in order.
SendWriteback(a) ==
    /\ abort = "no" /\ wb[a] # <<>>
    /\ mem' = [mem EXCEPT ![a] = Head(wb[a])]
    /\ wb' = [wb EXCEPT ![a] = Tail(@)]
    /\ UNCHANGED <<tagVars, mshr, missq, l2, latest, abort>>

----------------------------------------------------------------------------
(* Responses from the memory: handleResponse, handleFill *)

\* handleFill and the satisfyCpuSideRequest that follows, for a new block.
FillNew(a) ==
    IF mshr[a].cmd = "ReadEx"
    THEN Replace(a, Invalidated(Filled(a, tcOf(a), mshr[a].ver, FALSE)),
                 HeadThenTail(get_set(a, tcOf(a)), findVictim(a, tcOf(a))))
    ELSE Replace(a, Filled(a, tcOf(a), mshr[a].ver, FALSE),
                 moveToHead(get_set(a, tcOf(a)), findVictim(a, tcOf(a))))

\* The same for a block that is already there: its status is kept.
FillExisting(a, w) ==
    LET b == [blk[extractSet[a]][w] EXCEPT !.data = mshr[a].ver]
    IN  /\ IF mshr[a].cmd = "ReadEx"
           THEN /\ Update(a, w, Invalidated(b))
                /\ Reorder(a, tcOf(a), moveToTail(get_set(a, tcOf(a)), w))
           ELSE Update(a, w, b) /\ UNCHANGED sets
        /\ UNCHANGED <<L_assoc, H_assoc, wb>>

\* What a target of the MSHR gets: a shared copy for an instruction fetch and
\* for a data read of a dirty block, since the response is deferred.
Granted(a, isDirty) ==
    CASE mshr[a].cmd = "ReadEx" -> IF isDirty THEN "M" ELSE "E"
      [] mshr[a].cmd = "Read"   -> IF isDirty THEN "S" ELSE "E"
      [] mshr[a].cmd = "Fetch"  -> "S"

\* Mutant of Fill: the MSHR is not deallocated.
FillKeepsMSHR(a, w) ==
    /\ IF w = NULL THEN FillNew(a) ELSE FillExisting(a, w)
    /\ l2' = [l2 EXCEPT ![a] =
          Line(Granted(a, w # NULL /\ blk[extractSet[a]][w].dirty), mshr[a].ver)]
    /\ UNCHANGED <<mshr, missq, mem, latest, abort>>

Fill(a, w) ==
    /\ IF w = NULL THEN FillNew(a) ELSE FillExisting(a, w)
    /\ l2' = [l2 EXCEPT ![a] =
          Line(Granted(a, w # NULL /\ blk[extractSet[a]][w].dirty), mshr[a].ver)]
    /\ mshr' = [mshr EXCEPT ![a] = NoMSHR]
    /\ UNCHANGED <<missq, mem, latest, abort>>

RecvFill(a) ==
    /\ abort = "no" /\ mshr[a].st = "inService" /\ mshr[a].cmd # "Upgrade"
    /\ LET w == findBlock(a, tcOf(a))
       IN  IF w = NULL /\ VictimInFlight(Victim(a))
           THEN Stop("allocateBlock")
           ELSE Fill(a, w)

\* An upgrade that missed is forwarded (isForward); its response is not a fill.
RecvUpgradeResp(a) ==
    /\ abort = "no" /\ mshr[a].st = "inService" /\ mshr[a].cmd = "Upgrade"
    /\ UpgradeAndWrite(a)
    /\ mshr' = [mshr EXCEPT ![a] = NoMSHR]
    /\ UNCHANGED <<tagVars, missq, wb, mem, abort>>

----------------------------------------------------------------------------
(* adjustPartition *)

\* Mutant of IncSize: the dirty ways that move are left dirty.
IncSizeDirty ==
    /\ abort = "no" /\ ~static_cache /\ H_assoc # H_min
    /\ inc_size
    /\ UNCHANGED <<blk, wb, mshr, missq, mem, l2, latest, abort>>

\* C_DynamicCache::inc_size: the ways that move to Low are written back if they
\* are dirty, and stay valid.
IncSize ==
    /\ abort = "no" /\ ~static_cache /\ H_assoc # H_min
    /\ inc_size
    /\ LET Moved(s) == blk[s][incMoved(s)]
           Dirty == {s \in Sets : Moved(s).valid /\ Moved(s).dirty}
       IN  /\ blk' = [s \in Sets |->
                        [blk[s] EXCEPT ![incMoved(s)].dirty = FALSE]]
           /\ wb' = [a \in Addr |->
                       IF \E s \in Dirty : Moved(s).tag = a
                       THEN Append(wb[a], Moved(extractSet[a]).data)
                       ELSE wb[a]]
    /\ UNCHANGED <<mshr, missq, mem, l2, latest, abort>>

\* Mutant of DecSize: the ways that move stay valid.
DecSizeValid ==
    /\ abort = "no" /\ ~static_cache /\ L_assoc # 1
    /\ dec_size
    /\ UNCHANGED <<blk, wb, mshr, missq, mem, l2, latest, abort>>

\* C_DynamicCache::dec_size: the ways that move to High are written back and
\* invalidated if they hold a block of Low; a block of High stays valid.
DecSize ==
    /\ abort = "no" /\ ~static_cache /\ L_assoc # 1
    /\ dec_size
    /\ LET Moved(s) == blk[s][decMoved(s)]
           Low == {s \in Sets : Moved(s).threadID = 0}
           Dirty == {s \in Low : Moved(s).valid /\ Moved(s).dirty}
       IN  /\ blk' = [s \in Sets |->
                        IF s \in Low
                        THEN [blk[s] EXCEPT ![decMoved(s)] = Empty(1)]
                        ELSE blk[s]]
           /\ wb' = [a \in Addr |->
                       IF \E s \in Dirty : Moved(s).tag = a
                       THEN Append(wb[a], Moved(extractSet[a]).data)
                       ELSE wb[a]]
    /\ UNCHANGED <<mshr, missq, mem, l2, latest, abort>>

----------------------------------------------------------------------------
Request(a) ==
    \/ RecvRead(a) \/ RecvFetch(a) \/ RecvReadEx(a) \/ RecvUpgrade(a)
    \/ RecvWriteback(a) \/ L2Write(a) \/ L2Drop(a)

Response(a) == RecvFill(a) \/ RecvUpgradeResp(a)

Next ==
    /\ \/ \E a \in Addr : Request(a) \/ Response(a) \/ SendWriteback(a)
       \/ \E tc \in TC : SendMiss(tc)
       \/ IncSize \/ DecSize
    /\ UNCHANGED static_cache

Spec == Init /\ [][Next]_vars

\* The send and response events that are scheduled are processed.
Fairness ==
    /\ \A tc \in TC : WF_cacheVars(SendMiss(tc))
    /\ \A a \in Addr : WF_cacheVars(SendWriteback(a)) /\ WF_cacheVars(Response(a))

FairSpec == Spec /\ Fairness

----------------------------------------------------------------------------
(* Properties *)

\* Types of the tag store.
TagTypeOK ==
    /\ L_assoc \in Nat /\ H_assoc \in Nat
    /\ sets \in [TC -> [Sets -> Seq(Way)]]
    /\ blk \in [Sets -> [Way -> Blk]]

\* Type invariant of the cache, the caches above it and the memory.
TypeOK ==
    /\ TagTypeOK /\ static_cache \in BOOLEAN
    /\ mshr \in [Addr -> [st : {"none", "pending", "inService"}, cmd : Cmd,
                          ver : Nat]]
    /\ missq \in [TC -> Seq(Addr)]
    /\ wb \in [Addr -> Seq(Nat)]
    /\ mem \in [Addr -> Nat]
    /\ l2 \in [Addr -> [st : {"I", "S", "E", "M"}, ver : Nat]]
    /\ latest \in [Addr -> Nat]
    /\ abort \in {"no", "allocateBlock", "getBusPacket"}

\* Resizing and reordering never lose or duplicate a way: in every set each way
\* is at exactly one position of exactly one partition, the partitions have the
\* sizes the counters say, and High keeps H_min ways and Low one.
Partitioned ==
    /\ L_assoc >= 1 /\ H_assoc >= H_min /\ L_assoc + H_assoc = assoc
    /\ \A s \in Sets :
         /\ Len(sets[0][s]) = L_assoc /\ Injective(sets[0][s])
         /\ Len(sets[1][s]) = H_assoc /\ Injective(sets[1][s])
         /\ \A w \in Way : In(sets[0][s], w) <=> ~In(sets[1][s], w)

\* The High partition never holds a valid line of Low: dec_size invalidates
\* what it hands over and every fill of Low stays in the Low partition.
NoLowLineInHigh ==
    \A s \in Sets, w \in Way :
        In(sets[1][s], w) =>
            blk[s][w].threadID = 1 /\ (blk[s][w].valid => blk[s][w].tag \notin LowAddr)

\* A line of High that inc_size left in the Low partition is clean: evicting it
\* never makes Low's handler queue a writeback for High.
HighLineInLowIsClean ==
    \A s \in Sets, w \in Way :
        In(sets[0][s], w) /\ blk[s][w].valid /\ blk[s][w].tag \notin LowAddr
            => ~blk[s][w].dirty

\* The version of a line that the memory system would deliver if everything
\* above and in the buffers were written back.
Owned(a) ==
    LET w == findBlock(a, tcOf(a))
    IN  IF l2[a].st = "M" THEN l2[a].ver
        ELSE IF w # NULL /\ blk[extractSet[a]][w].dirty
             THEN blk[extractSet[a]][w].data
        ELSE IF wb[a] # <<>> THEN wb[a][Len(wb[a])]
        ELSE mem[a]

\* The owner of a line has the last version the program wrote, and so have the
\* cache above, the response in flight and the block a request hits.  At most one
\* writeback of the line is pending, so that their order is no issue.
Coherent(a) ==
    /\ Owned(a) = latest[a]
    /\ Len(wb[a]) <= 1
    /\ l2[a].st # "I" => l2[a].ver = latest[a]
    /\ mshr[a].st = "inService" /\ mshr[a].cmd # "Upgrade"
          => mshr[a].ver = latest[a]
    /\ l2[a].st \in {"I", "S"} /\ findBlock(a, tcOf(a)) # NULL
          => blk[extractSet[a]][findBlock(a, tcOf(a))].data = latest[a]

\* No write of compartment 0 is lost and no copy of it is stale where a handler can
\* read it, though misses, fills, writebacks and resizes cross; without resizing
\* the same holds for compartment 1.
LinesCoherent == \A a \in Addr : (a \in LowAddr \/ static_cache) => Coherent(a)

\* Without resizing a tag is valid in at most one way of a partition, though
\* fills, writebacks from above and requests for it cross.
UniqueTags ==
    static_cache => \A tc \in TC, s \in Sets : \A i, j \in 1..Len(sets[tc][s]) :
        LET b == blk[s][sets[tc][s][i]]
            c == blk[s][sets[tc][s][j]]
        IN  b.valid /\ c.valid /\ b.tag = c.tag => i = j

\* Without resizing no assertion of the handlers fails.
NoAbort == static_cache => abort = "no"

\* A read returns what the program wrote last: "read of %x ... returns %x,
\* expected %x" is the panic of the memory tester (memtest.cc).
ReadsReturnExpected == \A a \in Addr : l2[a].st # "I" => l2[a].ver = latest[a]

\* Every miss is answered, unless an assertion stops the simulator.
MissesAnswered ==
    \A a \in Addr : mshr[a].st # "none" ~> mshr[a].st = "none" \/ abort # "no"

----------------------------------------------------------------------------
(* The inductive invariant *)

\* A valid block is in the set of its tag and carries the compartment of its
\* tag: the code looks for the MSHR and files the writeback by threadID.
OwnerTagged ==
    \A s \in Sets, w \in Way :
        LET b == blk[s][w]
        IN  b.valid => /\ b.tag \in Addr
                       /\ extractSet[b.tag] = s
                       /\ b.threadID = tcOf(b.tag)

TagInv == /\ TagTypeOK /\ Partitioned /\ OwnerTagged
          /\ NoLowLineInHigh /\ HighLineInLowIsClean

IInv == TypeOK /\ TagInv
=============================================================================
