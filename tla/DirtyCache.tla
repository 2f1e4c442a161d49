----------------------------- MODULE DirtyCache -----------------------------
(***************************************************************************)
(* The dirty cache: DirtyCache (src/mem/cache/cache_impl.hh) over the tag  *)
(* store DCLRU (src/mem/cache/tags/dclru.cc), the private data cache of a  *)
(* CPU whose program runs with the label Low (0) or High (1) and switches  *)
(* between them.  The ways are split between the labels.  Low does not see *)
(* the lines of High: asking for one is a "fake miss", whose fill takes    *)
(* the data from High's copy.  High sees all lines.                        *)
(*                                                                         *)
(* TimingSimpleCPU has one access outstanding and sends every access with  *)
(* readLabel = writeLabel = threadID.  An MSHR queue and a write buffer    *)
(* per label lead to one bus.  The caches below are one store that keeps   *)
(* the version of each line and, once a writeback made one of them the     *)
(* owner of a dirty copy, may answer reads with shared copies.             *)
(*                                                                         *)
(* The contents of a line are its version: a store adds one to what it     *)
(* finds.  The model has one set.                                          *)
(***************************************************************************)
EXTENDS CacheSet

CONSTANTS Addr, assoc,
          MaxVer,       \* MaxVer[busFree]: bound on the stores to one line
          WriteBuffers, \* bound: writebacks that wait
          BusFree,      \* values of busFree
          NoTag         \* tag of a block that was never filled

ASSUME DirtyAssumption == assoc \in Nat /\ assoc > 1 /\ MaxVer \in [BOOLEAN -> Nat]
                          /\ WriteBuffers \in Nat \ {0}
                          /\ BusFree \subseteq BOOLEAN

VARIABLES sets,     \* sets[t]: ways of label t in MRU order
          blk,      \* blk[w]
          cpu,      \* the access in progress: its MSHR
          wb,       \* wb[t]: write buffer of label t
          below,    \* below[a]: version and ownership of a below
          latest,   \* latest[a]: stores of the program to a
          busFree   \* TRUE: the bus takes a writeback before the CPU goes on

vars == <<sets, blk, cpu, wb, below, latest, busFree>>

Label == {0, 1}
Way == 1..assoc
Op == {"Load", "Store"}

\* Mutant of assoc_of_tc: the odd way is lost.
assocRoundedDown(t) == assoc \div 2

assoc_of_tc(t) == assoc \div 2 + (IF t < assoc % 2 THEN 1 ELSE 0)

Blk == [tag : Addr \union {NoTag}, valid : BOOLEAN, writable : BOOLEAN,
        dirty : BOOLEAN, data : Nat, threadID : Label]
Empty == [tag |-> NoTag, valid |-> FALSE, writable |-> FALSE, dirty |-> FALSE,
          data |-> 0, threadID |-> 0]

Mshr == [st : {"idle", "pending", "inService"}, op : Op,
         addr : Addr \union {NoTag}, label : Label,
         cmd : {"Read", "ReadEx", "Upgrade"}, ver : Nat, shared : BOOLEAN]
Idle == [st |-> "idle", op |-> "Load", addr |-> NoTag, label |-> 0,
         cmd |-> "Read", ver |-> 0, shared |-> FALSE]

\* init_sets: the ways are dealt out label by label.
Init ==
    /\ sets = [t \in Label |->
                 [i \in 1..assoc_of_tc(t) |-> i + (IF t = 0 THEN 0 ELSE assoc_of_tc(0))]]
    /\ blk = [w \in Way |-> Empty]
    /\ cpu = Idle
    /\ wb = [t \in Label |-> <<>>]
    /\ below = [a \in Addr |-> [ver |-> 0, owned |-> FALSE]]
    /\ latest = [a \in Addr |-> 0]
    /\ busFree \in BusFree

----------------------------------------------------------------------------
(* DCLRU *)

\* LRU::findBlock looks at one label.
findIn(a, t) == findBlk(sets[t], blk, a)

\* DCLRU::findBlock and locateBlock: High finds the lines of Low first, Low
\* only its own.
findBlock(a, l) ==
    IF findIn(a, 0) # NULL \/ l = 0 THEN findIn(a, 0) ELSE findIn(a, 1)
locateBlock(a, l) == IF l = 1 /\ findIn(a, 0) = NULL THEN 1 ELSE 0

findVictim(l) == sets[l][assoc_of_tc(l)]

----------------------------------------------------------------------------
(* Accesses of the CPU: timingAccess, access *)

\* satisfyCpuSideRequest: a store adds one version to what is in the block.
Satisfied(b, op) ==
    IF op = "Store" THEN [b EXCEPT !.data = @ + 1, !.dirty = TRUE] ELSE b

\* A store is counted when it is done.
Counted(a, op) == latest' = IF op = "Store" THEN [latest EXCEPT ![a] = @ + 1] ELSE latest

\* Mutant of Hits: a store does not need an exclusive copy.
HitsReadable(w, op) == w # NULL

\* access: the block is there and has the permission.
Hits(w, op) == w # NULL /\ (op = "Store" => blk[w].writable)

\* A found block moves to the head of its set, whether or not it is a hit.  A
\* miss waits in the MSHR queue of its label.
Access(op, a, l) ==
    LET w == findBlock(a, l)
        t == locateBlock(a, l)
    IN  /\ cpu.st = "idle"
        /\ Len(wb[0]) + Len(wb[1]) < WriteBuffers
        /\ busFree => \A u \in Label : wb[u] = <<>>
        /\ op = "Store" => latest[a] < MaxVer[busFree]
        /\ sets' = IF w = NULL THEN sets ELSE [sets EXCEPT ![t] = moveToHead(@, w)]
        /\ IF Hits(w, op)
           THEN /\ blk' = [blk EXCEPT ![w] = Satisfied(@, op)]
                /\ Counted(a, op)
                /\ UNCHANGED cpu
           ELSE /\ cpu' = [Idle EXCEPT !.st = "pending", !.op = op, !.addr = a,
                                       !.label = l]
                /\ UNCHANGED <<blk, latest>>
        /\ UNCHANGED <<wb, below, busFree>>

----------------------------------------------------------------------------
(* The memory side: getNextMSHR, getTimingPacket, getBusPacket *)

\* getBusPacket: the block is looked up under the label of the request only.
Request ==
    IF findIn(cpu.addr, cpu.label) # NULL THEN "Upgrade"
    ELSE IF cpu.op = "Store" THEN "ReadEx" ELSE "Read"

\* The miss is sent once no writeback of the line waits in the write buffer of
\* its label.  A cache below that owns the line keeps it and answers a read with
\* a shared copy, or hands the ownership over with an exclusive one; requests of
\* a store always take it over.
SendMiss ==
    /\ cpu.st = "pending"
    /\ \A i \in 1..Len(wb[cpu.label]) : wb[cpu.label][i].addr # cpu.addr
    /\ \E shared \in BOOLEAN :
         /\ shared => Request = "Read" /\ below[cpu.addr].owned
         /\ cpu' = [cpu EXCEPT !.st = "inService", !.cmd = Request,
                               !.ver = below[cpu.addr].ver, !.shared = shared]
         /\ below' = [below EXCEPT ![cpu.addr].owned = shared]
    /\ UNCHANGED <<sets, blk, wb, latest, busFree>>

SendWriteback(t) ==
    /\ wb[t] # <<>>
    /\ below' = [below EXCEPT ![Head(wb[t]).addr] =
                   [ver |-> Head(wb[t]).ver, owned |-> TRUE]]
    /\ wb' = [wb EXCEPT ![t] = Tail(@)]
    /\ UNCHANGED <<sets, blk, cpu, latest, busFree>>

----------------------------------------------------------------------------
(* Responses: handleResponse, handleFill *)

\* Every fill is marked dirty; it is writable unless the response is shared.
Filled(data) ==
    [tag |-> cpu.addr, valid |-> TRUE, writable |-> ~cpu.shared, dirty |-> TRUE,
     data |-> data, threadID |-> cpu.label]

\* allocateBlock: a dirty victim goes to the write buffer of its label.
WithWriteback(b) ==
    IF b.valid /\ b.dirty
    THEN [wb EXCEPT ![b.threadID] = Append(@, [addr |-> b.tag, ver |-> b.data])]
    ELSE wb

\* Mutants of FillNew: the data of a fake miss comes from the response; High's
\* copy stays.
FillFromResponse(v, h) ==
    /\ blk' = [w \in Way |-> IF w = v THEN Satisfied(Filled(cpu.ver), cpu.op)
                             ELSE IF w = h THEN Empty ELSE blk[w]]
    /\ sets' = [sets EXCEPT ![cpu.label] = moveToHead(@, v)]
FillKeepsHigh(v, h) ==
    LET data == IF h = NULL THEN cpu.ver ELSE blk[h].data
    IN  /\ blk' = [blk EXCEPT ![v] = Satisfied(Filled(data), cpu.op)]
        /\ sets' = [sets EXCEPT ![cpu.label] = moveToHead(@, v)]

\* handleFill with a new block v; h is the copy of High that a fake miss moves.
FillNew(v, h) ==
    LET data == IF h = NULL THEN cpu.ver ELSE blk[h].data
        filled == [blk EXCEPT ![v] = Satisfied(Filled(data), cpu.op)]
        moved == [sets EXCEPT ![cpu.label] = moveToHead(@, v)]
    IN  IF h = NULL THEN blk' = filled /\ sets' = moved
        ELSE /\ blk' = [filled EXCEPT ![h] = [@ EXCEPT !.valid = FALSE,
                                              !.writable = FALSE, !.dirty = FALSE]]
             /\ sets' = [moved EXCEPT ![1] = moveToTail(@, h)]

\* handleFill with a block that is there: a read response overwrites its data.
FillExisting(w) ==
    LET b == [blk[w] EXCEPT !.dirty = TRUE, !.writable = @ \/ ~cpu.shared,
                            !.data = IF cpu.cmd = "Upgrade" THEN @ ELSE cpu.ver]
    IN  blk' = [blk EXCEPT ![w] = Satisfied(b, cpu.op)] /\ UNCHANGED sets

RecvResponse ==
    LET w == findBlock(cpu.addr, cpu.label)
        v == findVictim(cpu.label)
    IN  /\ cpu.st = "inService"
        /\ IF w = NULL
           THEN FillNew(v, findBlock(cpu.addr, 1)) /\ wb' = WithWriteback(blk[v])
           ELSE FillExisting(w) /\ UNCHANGED wb
        /\ Counted(cpu.addr, cpu.op)
        /\ cpu' = Idle
        /\ UNCHANGED <<below, busFree>>

----------------------------------------------------------------------------
Next ==
    \/ \E op \in Op, a \in Addr, l \in Label : Access(op, a, l)
    \/ SendMiss \/ RecvResponse
    \/ \E t \in Label : SendWriteback(t)

Spec == Init /\ [][Next]_vars

----------------------------------------------------------------------------
(* Properties *)

\* Type invariant; the labels share out all ways.
TypeOK ==
    /\ DOMAIN sets = Label
    /\ \A t \in Label : /\ sets[t] \in Seq(Way) /\ Injective(sets[t])
                        /\ Len(sets[t]) = assoc_of_tc(t)
    /\ \A w \in Way : In(sets[0], w) <=> ~In(sets[1], w)
    /\ blk \in [Way -> Blk]
    /\ cpu \in Mshr /\ (cpu.st # "idle" => cpu.addr \in Addr)
    /\ wb \in [Label -> Seq([addr : Addr, ver : Nat])]
    /\ below \in [Addr -> [ver : Nat, owned : BOOLEAN]]
    /\ latest \in [Addr -> Nat]
    /\ busFree \in BOOLEAN

\* Ways that hold a valid copy of a.
Copies(a) == {w \in Way : blk[w].valid /\ blk[w].tag = a}

\* A line is cached once, with Low or with High, however fake misses move it
\* and whatever the order of the labels is.  (findBlock would find one of two
\* copies and leave the other to go stale.)
SingleCopy ==
    \A a \in Addr, w \in Way :
        w \in Copies(a) => Copies(a) = {w} /\ In(sets[blk[w].threadID], w)

\* Writebacks of a in the write buffers q.
Sent(q, a) ==
    UNION {{q[t][i] : i \in {j \in 1..Len(q[t]) : q[t][j].addr = a}} : t \in Label}

\* No store is lost: the cached copy is the latest version; without one it is
\* on its way in a writeback, or below.  This needs the bus to take a writeback
\* before the CPU goes on: the two write buffers are not ordered.
NoStoreLost ==
    busFree => \A a \in Addr :
        IF Copies(a) # {} THEN \A w \in Copies(a) : blk[w].data = latest[a]
        ELSE IF Sent(wb, a) # {} THEN \A e \in Sent(wb, a) : e.ver = latest[a]
        ELSE below[a].ver = latest[a]

\* A copy without write permission, although it is marked dirty, is what the
\* caches below have.  A store of High to a shared copy of Low relies on it: it
\* is looked up under High's label only, sent as ReadEx and overwrites the copy.
SharedIsUnmodified ==
    busFree => \A w \in Way : blk[w].valid /\ ~blk[w].writable
                                => blk[w].data = below[blk[w].tag].ver

\* The inductive invariant behind the two proved ones.  A block that holds a line
\* holds one of Addr: the victim that is written back has an address.
IInv ==
    /\ TypeOK /\ SingleCopy
    /\ \A w \in Way : blk[w].valid => blk[w].tag \in Addr
=============================================================================
