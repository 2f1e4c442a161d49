-------------------------- MODULE DirtyCacheProofs --------------------------
(***************************************************************************)
(* Proofs about DirtyCache, for every associativity and set of lines.      *)
(***************************************************************************)
EXTENDS DirtyCache, CacheSetProofs, SequenceTheorems, TLAPS

\* Both labels have a way.
LEMMA AssocFacts ==
    \A t \in Label : assoc_of_tc(t) \in Nat /\ assoc_of_tc(t) >= 1
                     /\ assoc_of_tc(0) + assoc_of_tc(1) = assoc
BY DirtyAssumption DEF assoc_of_tc, Label

\* init_sets deals out every way once.
LEMMA InitIInv == Init => IInv
<1> SUFFICES ASSUME Init PROVE IInv
  OBVIOUS
<1> DEFINE n == assoc_of_tc(0)
           m == assoc_of_tc(1)
<1>1. n \in Nat /\ m \in Nat /\ n >= 1 /\ m >= 1 /\ n + m = assoc /\ assoc \in Nat
  BY AssocFacts, DirtyAssumption DEF Label
<1>2. sets[0] = [i \in 1..n |-> i + 0] /\ sets[1] = [i \in 1..m |-> i + n]
  BY DEF Init, Label
<1> HIDE DEF n, m
<1>3. sets[0] \in [1..n -> Way] /\ sets[1] \in [1..m -> Way]
  BY <1>1, <1>2 DEF Way
<1>4. /\ sets[0] \in Seq(Way) /\ Len(sets[0]) = n
      /\ sets[1] \in Seq(Way) /\ Len(sets[1]) = m
  BY <1>1, <1>3
<1>5. Injective(sets[0]) /\ Injective(sets[1])
  BY <1>1, <1>2, <1>4 DEF Injective
<1>6. ASSUME NEW w \in Way PROVE In(sets[0], w) <=> ~In(sets[1], w)
  <2>1. w \in Nat /\ 1 <= w /\ w <= n + m
    BY <1>1 DEF Way
  <2>2. CASE w <= n
    <3>1. w \in 1..Len(sets[0]) /\ sets[0][w] = w
      BY <1>1, <1>2, <1>4, <2>1, <2>2
    <3>2. \A i \in 1..Len(sets[1]) : sets[1][i] # w
      BY <1>1, <1>2, <1>4, <2>1, <2>2
    <3> QED BY <3>1, <3>2 DEF In
  <2>3. CASE w > n
    <3>1. w - n \in 1..Len(sets[1]) /\ sets[1][w - n] = w
      BY <1>1, <1>2, <1>4, <2>1, <2>3
    <3>2. \A i \in 1..Len(sets[0]) : sets[0][i] # w
      BY <1>1, <1>2, <1>4, <2>1, <2>3
    <3> QED BY <3>1, <3>2 DEF In
  <2> QED BY <1>1, <2>1, <2>2, <2>3
<1>7. TypeOK
  <2>1. blk \in [Way -> Blk] /\ cpu \in Mshr /\ cpu.st = "idle"
    BY DEF Init, Blk, Empty, Mshr, Idle, Op, Label
  <2>2. /\ wb \in [Label -> Seq([addr : Addr, ver : Nat])]
        /\ below \in [Addr -> [ver : Nat, owned : BOOLEAN]]
        /\ latest \in [Addr -> Nat] /\ busFree \in BOOLEAN
    BY DirtyAssumption DEF Init
  <2>3. \A t \in Label : /\ sets[t] \in Seq(Way) /\ Injective(sets[t])
                         /\ Len(sets[t]) = assoc_of_tc(t)
    BY <1>4, <1>5 DEF Label, n, m
  <2>4. DOMAIN sets = Label
    BY DEF Init
  <2> QED BY <1>6, <2>1, <2>2, <2>3, <2>4, ZenonT(60) DEF TypeOK
<1>8. \A w \in Way : ~blk[w].valid
  BY DEF Init, Empty
<1> QED BY <1>7, <1>8 DEF IInv, SingleCopy, Copies

----------------------------------------------------------------------------
(* DCLRU *)

\* The sets of the labels, as facts the lemmas of CacheSet need.
LEMMA SetFacts ==
    ASSUME TypeOK, NEW t \in Label
    PROVE  /\ sets[t] \in Seq(Way) /\ Injective(sets[t]) /\ Len(sets[t]) \in Nat
           /\ \A i \in 1..Len(sets[t]) : sets[t][i] # NULL /\ sets[t][i] \in Way
<1>1. sets[t] \in Seq(Way) /\ Injective(sets[t]) /\ Len(sets[t]) \in Nat
  BY DEF TypeOK
<1>2. \A i \in 1..Len(sets[t]) : sets[t][i] \in Way
  BY <1>1
<1>3. \A w \in Way : w # NULL
  BY DirtyAssumption DEF Way, NULL
<1> QED BY <1>1, <1>2, <1>3

\* What findBlock finds is a copy of the line, in the set locateBlock names.
LEMMA FindBlockFinds ==
    ASSUME IInv, NEW a \in Addr, NEW l \in Label, findBlock(a, l) # NULL
    PROVE  /\ findBlock(a, l) \in Copies(a) /\ locateBlock(a, l) \in Label
           /\ In(sets[locateBlock(a, l)], findBlock(a, l))
<1>1. PICK t \in Label : findBlock(a, l) = findIn(a, t) /\ locateBlock(a, l) = t
  BY DEF findBlock, locateBlock, Label
<1>2. /\ In(sets[t], findBlock(a, l)) /\ blk[findBlock(a, l)].tag = a
      /\ blk[findBlock(a, l)].valid
  BY <1>1, SetFacts, FindBlkFinds DEF findIn, IInv
<1>3. findBlock(a, l) \in Way
  BY <1>2, SetFacts DEF In, IInv
<1> QED BY <1>1, <1>2, <1>3 DEF Copies

\* A label under which findBlock finds nothing has no copy of the line.
LEMMA FindBlockMisses ==
    ASSUME IInv, NEW a \in Addr, NEW l \in Label, findBlock(a, l) = NULL
    PROVE  \A w \in Copies(a) : ~In(sets[0], w) /\ ~In(sets[l], w)
<1>1. findIn(a, 0) = NULL /\ findIn(a, l) = NULL
  BY DEF findBlock, Label
<1>2. ASSUME NEW t \in Label, findIn(a, t) = NULL, NEW w \in Copies(a)
      PROVE  ~In(sets[t], w)
  <2>1. \A x : In(sets[t], x) => ~(blk[x].tag = a /\ blk[x].valid)
    BY <1>2, SetFacts, FindBlkMisses DEF findIn, IInv
  <2> QED BY <1>2, <2>1 DEF Copies
<1> QED BY <1>1, <1>2 DEF Label

\* The victim of a label is one of its ways.
LEMMA VictimFacts ==
    ASSUME IInv, NEW l \in Label
    PROVE  In(sets[l], findVictim(l)) /\ findVictim(l) \in Way
<1>1. /\ Len(sets[l]) = assoc_of_tc(l) /\ assoc_of_tc(l) \in Nat
      /\ assoc_of_tc(l) >= 1
  BY AssocFacts DEF IInv, TypeOK
<1> QED BY <1>1, SetFacts DEF findVictim, In, IInv
\* What TypeOK says of the sets.
SetsOK ==
    /\ DOMAIN sets = Label
    /\ \A t \in Label : /\ sets[t] \in Seq(Way) /\ Injective(sets[t])
                        /\ Len(sets[t]) = assoc_of_tc(t)
    /\ \A w \in Way : In(sets[0], w) <=> ~In(sets[1], w)

\* Reordering the sets of the labels keeps the ways shared out.
LEMMA ReorderingKeepsSets ==
    ASSUME TypeOK, DOMAIN sets' = Label,
           \A t \in Label : IsReordering(sets'[t], sets[t], Way)
    PROVE  SetsOK'
BY DEF TypeOK, SetsOK, IsReordering, Label, assoc_of_tc

\* A set stays as it is.
LEMMA SameIsReordering ==
    ASSUME TypeOK, NEW t \in Label
    PROVE  IsReordering(sets[t], sets[t], Way)
BY DEF TypeOK, IsReordering

\* One set changes.
LEMMA OneSetReordered ==
    ASSUME TypeOK, NEW l \in Label, NEW s, sets' = [sets EXCEPT ![l] = s],
           IsReordering(s, sets[l], Way)
    PROVE  \A t \in Label : IsReordering(sets'[t], sets[t], Way)
<1> SUFFICES ASSUME NEW t \in Label PROVE IsReordering(sets'[t], sets[t], Way)
  OBVIOUS
<1>1. CASE t = l
  BY <1>1 DEF TypeOK
<1>2. CASE t # l
  BY <1>2, SameIsReordering, ZenonT(60) DEF TypeOK
<1> QED BY <1>1, <1>2

\* A store keeps everything of a block but its data.
LEMMA SatisfiedBlock ==
    ASSUME NEW b \in Blk, NEW op \in Op
    PROVE  /\ Satisfied(b, op) \in Blk
           /\ Satisfied(b, op).tag = b.tag /\ Satisfied(b, op).valid = b.valid
           /\ Satisfied(b, op).threadID = b.threadID
<1>1. CASE op = "Store"
  <2>1. Satisfied(b, op) = [b EXCEPT !.data = b.data + 1, !.dirty = TRUE]
    BY <1>1 DEF Satisfied
  <2>2. b.data + 1 \in Nat
    BY DEF Blk
  <2>3. Satisfied(b, op) \in Blk
    BY <2>1, <2>2, ZenonT(60) DEF Blk
  <2>4. Satisfied(b, op).tag = b.tag /\ Satisfied(b, op).threadID = b.threadID
    BY <2>1 DEF Blk
  <2>5. Satisfied(b, op).valid = b.valid
    BY <2>1, Zenon DEF Blk
  <2> QED BY <2>3, <2>4, <2>5
<1>2. CASE op # "Store"
  BY <1>2 DEF Satisfied
<1> QED BY <1>1, <1>2

\* The count of the stores stays well typed.
LEMMA CountedType ==
    ASSUME TypeOK, NEW a \in Addr, NEW op \in Op, Counted(a, op)
    PROVE  latest' \in [Addr -> Nat]
BY DEF TypeOK, Counted

\* A step that keeps what the blocks hold, and only reorders, keeps the
\* invariants about copies.
LEMMA SameCopies ==
    ASSUME IInv, SetsOK', blk' \in [Way -> Blk],
           \A t \in Label : IsReordering(sets'[t], sets[t], Way),
           \A w \in Way : /\ blk'[w].tag = blk[w].tag /\ blk'[w].valid = blk[w].valid
                          /\ blk'[w].threadID = blk[w].threadID
    PROVE  SingleCopy' /\ \A w \in Way : blk'[w].valid => blk'[w].tag \in Addr
<1>1. \A a : Copies(a)' = Copies(a)
  BY DEF Copies
<1>2. \A t \in Label : \A w : In(sets[t], w) => In(sets'[t], w)
  BY ZenonT(60) DEF IsReordering
<1>3. \A w \in Way : blk[w].threadID \in Label
  BY DEF IInv, TypeOK, Blk
<1> QED BY <1>1, <1>2, <1>3, ZenonT(60) DEF IInv, SingleCopy

\* Actions that leave the sets and the blocks alone.
LEMMA SameCacheKeeps ==
    ASSUME IInv, TypeOK', UNCHANGED <<sets, blk>>
    PROVE  IInv'
BY DEF IInv, SingleCopy, Copies

----------------------------------------------------------------------------
(* The actions *)

\* Access: a found block moves to the head of its set; a hit may change its data.
LEMMA AccessKeepsIInv ==
    ASSUME IInv, NEW op \in Op, NEW a \in Addr, NEW l \in Label, Access(op, a, l)
    PROVE  IInv'
<1> DEFINE w == findBlock(a, l)
           t == locateBlock(a, l)
<1>1. TypeOK
  BY DEF IInv
<1>2. /\ sets' = IF w = NULL THEN sets ELSE [sets EXCEPT ![t] = moveToHead(@, w)]
      /\ IF Hits(w, op)
         THEN /\ blk' = [blk EXCEPT ![w] = Satisfied(@, op)]
              /\ Counted(a, op)
              /\ UNCHANGED cpu
         ELSE /\ cpu' = [Idle EXCEPT !.st = "pending", !.op = op, !.addr = a,
                                     !.label = l]
              /\ UNCHANGED <<blk, latest>>
      /\ UNCHANGED <<wb, below, busFree>>
  BY DEF Access
<1>3. w # NULL => w \in Copies(a) /\ w \in Way /\ t \in Label /\ In(sets[t], w)
  BY FindBlockFinds DEF Copies
<1>4. Hits(w, op) => w # NULL
  BY DEF Hits
<1> HIDE DEF w, t
<1>5. DOMAIN sets' = Label /\ \A u \in Label : IsReordering(sets'[u], sets[u], Way)
  <2>1. CASE w = NULL
    BY <1>1, <1>2, <2>1, SameIsReordering, ZenonT(60) DEF TypeOK
  <2>2. CASE w # NULL
    <3>1. IsReordering(moveToHead(sets[t], w), sets[t], Way)
      BY <1>1, <1>3, <2>2, SetFacts, MoveToHeadReorders
    <3>2. sets' = [sets EXCEPT ![t] = moveToHead(sets[t], w)] /\ t \in Label
      BY <1>2, <1>3, <2>2
    <3> QED BY <1>1, <3>1, <3>2, OneSetReordered, ZenonT(60) DEF TypeOK
  <2> QED BY <2>1, <2>2
<1>6. SetsOK'
  BY <1>1, <1>5, ReorderingKeepsSets
<1>7. /\ blk' \in [Way -> Blk]
      /\ \A x \in Way : /\ blk'[x].tag = blk[x].tag /\ blk'[x].valid = blk[x].valid
                        /\ blk'[x].threadID = blk[x].threadID
  <2>1. CASE Hits(w, op)
    <3>1. w \in Way /\ blk' = [blk EXCEPT ![w] = Satisfied(blk[w], op)]
      BY <1>2, <1>3, <1>4, <2>1
    <3>2. blk \in [Way -> Blk] /\ blk[w] \in Blk
      BY <1>1, <3>1 DEF TypeOK
    <3>3. /\ Satisfied(blk[w], op) \in Blk
          /\ Satisfied(blk[w], op).tag = blk[w].tag
          /\ Satisfied(blk[w], op).valid = blk[w].valid
          /\ Satisfied(blk[w], op).threadID = blk[w].threadID
      BY <3>2, SatisfiedBlock
    <3>4. blk' \in [Way -> Blk]
      BY <3>1, <3>2, <3>3
    <3>5. ASSUME NEW x \in Way
          PROVE  /\ blk'[x].tag = blk[x].tag /\ blk'[x].valid = blk[x].valid
                 /\ blk'[x].threadID = blk[x].threadID
      <4>1. CASE x = w
        <5>1. blk'[x] = Satisfied(blk[w], op)
          BY <3>1, <3>2, <4>1
        <5> QED BY <3>3, <4>1, <5>1, Zenon
      <4>2. CASE x # w
        <5>1. blk'[x] = blk[x]
          BY <3>1, <3>2, <4>2
        <5> QED BY <5>1, Zenon
      <4> QED BY <4>1, <4>2
    <3> QED BY <3>4, <3>5
  <2>2. CASE ~Hits(w, op)
    BY <1>1, <1>2, <2>2 DEF TypeOK
  <2> QED BY <2>1, <2>2
<1>8. cpu' \in Mshr /\ (cpu'.st # "idle" => cpu'.addr \in Addr)
  <2>1. CASE Hits(w, op)
    BY <1>1, <1>2, <2>1 DEF TypeOK
  <2>2. CASE ~Hits(w, op)
    <3>1. cpu' = [st |-> "pending", op |-> op, addr |-> a, label |-> l,
                  cmd |-> "Read", ver |-> 0, shared |-> FALSE]
      BY <1>2, <2>2, ZenonT(60) DEF Idle
    <3> QED BY <3>1 DEF Mshr
  <2> QED BY <2>1, <2>2
<1>9. latest' \in [Addr -> Nat]
  BY <1>1, <1>2, CountedType, ZenonT(60) DEF TypeOK
<1>10. /\ wb' \in [Label -> Seq([addr : Addr, ver : Nat])]
       /\ below' \in [Addr -> [ver : Nat, owned : BOOLEAN]] /\ busFree' \in BOOLEAN
  BY <1>1, <1>2, ZenonT(60) DEF TypeOK
<1>11. TypeOK'
  BY <1>6, <1>7, <1>8, <1>9, <1>10, ZenonT(60) DEF TypeOK, SetsOK
<1>12. SingleCopy' /\ \A x \in Way : blk'[x].valid => blk'[x].tag \in Addr
  BY <1>5, <1>6, <1>7, SameCopies
<1> QED BY <1>11, <1>12 DEF IInv

\* SendMiss fixes the command and what is read; the cache stays as it is.
LEMMA SendMissKeepsIInv ==
    ASSUME IInv, SendMiss
    PROVE  IInv'
<1>1. TypeOK /\ cpu.addr \in Addr /\ cpu \in Mshr
  BY DEF IInv, TypeOK, SendMiss
<1>2. PICK shared \in BOOLEAN :
        /\ cpu' = [cpu EXCEPT !.st = "inService", !.cmd = Request,
                              !.ver = below[cpu.addr].ver, !.shared = shared]
        /\ below' = [below EXCEPT ![cpu.addr].owned = shared]
  BY ZenonT(60) DEF SendMiss
<1>3. Request \in {"Read", "ReadEx", "Upgrade"}
  BY DEF Request
<1>4. below[cpu.addr].ver \in Nat /\ below \in [Addr -> [ver : Nat, owned : BOOLEAN]]
  BY <1>1 DEF TypeOK
<1>5. cpu' \in Mshr /\ cpu'.addr \in Addr
  BY <1>1, <1>2, <1>3, <1>4, ZenonT(60) DEF Mshr
<1>6. below' \in [Addr -> [ver : Nat, owned : BOOLEAN]]
  BY <1>1, <1>2, <1>4
<1>7. UNCHANGED <<sets, blk, wb, latest, busFree>>
  BY DEF SendMiss
<1>8. TypeOK'
  BY <1>1, <1>5, <1>6, <1>7, ZenonT(60) DEF TypeOK, assoc_of_tc, Way
<1> QED BY <1>7, <1>8, SameCacheKeeps

\* SendWriteback only empties a write buffer.
LEMMA SendWritebackKeepsIInv ==
    ASSUME IInv, NEW t \in Label, SendWriteback(t)
    PROVE  IInv'
<1>1. TypeOK /\ UNCHANGED <<sets, blk, cpu, latest, busFree>>
  BY DEF IInv, SendWriteback
<1>2. wb[t] \in Seq([addr : Addr, ver : Nat]) /\ wb[t] # <<>>
  BY <1>1, ZenonT(60) DEF TypeOK, SendWriteback
<1>3. Head(wb[t]) \in [addr : Addr, ver : Nat]
      /\ Tail(wb[t]) \in Seq([addr : Addr, ver : Nat])
  <2> DEFINE S == [addr : Addr, ver : Nat]
  <2>1. wb[t] \in Seq(S) /\ wb[t] # <<>>
    BY <1>2
  <2> HIDE DEF S
  <2>2. Head(wb[t]) \in S /\ Tail(wb[t]) \in Seq(S)
    BY <2>1, HeadTailProperties
  <2> QED BY <2>2 DEF S
<1>4. wb' \in [Label -> Seq([addr : Addr, ver : Nat])]
  BY <1>1, <1>3, ZenonT(60) DEF TypeOK, SendWriteback
<1>5. below' \in [Addr -> [ver : Nat, owned : BOOLEAN]]
  BY <1>1, <1>3 DEF TypeOK, SendWriteback
<1>6. TypeOK'
  BY <1>1, <1>4, <1>5, ZenonT(60) DEF TypeOK, assoc_of_tc, Way
<1> QED BY <1>1, <1>6, SameCacheKeeps

\* The block a fill makes.
LEMMA FilledBlock ==
    ASSUME TypeOK, cpu.addr \in Addr, NEW data \in Nat
    PROVE  /\ Filled(data) \in Blk /\ Filled(data).tag = cpu.addr
           /\ Filled(data).valid /\ Filled(data).threadID = cpu.label
BY DEF TypeOK, Mshr, Filled, Blk

\* A fill of a block that is there keeps what it holds.
LEMMA FillExistingKeeps ==
    ASSUME IInv, cpu.addr \in Addr, NEW w \in Way, FillExisting(w)
    PROVE  /\ blk' \in [Way -> Blk] /\ sets' = sets
           /\ \A x \in Way : /\ blk'[x].tag = blk[x].tag
                             /\ blk'[x].valid = blk[x].valid
                             /\ blk'[x].threadID = blk[x].threadID
<1> DEFINE b == [blk[w] EXCEPT !.dirty = TRUE, !.writable = @ \/ ~cpu.shared,
                               !.data = IF cpu.cmd = "Upgrade" THEN @ ELSE cpu.ver]
           c == Satisfied(b, cpu.op)
<1>1. blk \in [Way -> Blk] /\ blk[w] \in Blk /\ cpu.op \in Op /\ cpu.ver \in Nat
  BY DEF IInv, TypeOK, Mshr
<1>2. blk' = [blk EXCEPT ![w] = c] /\ sets' = sets
  BY DEF FillExisting
<1>3. b \in Blk /\ b.tag = blk[w].tag /\ b.threadID = blk[w].threadID
  BY <1>1, ZenonT(60) DEF Blk
<1>4. b.valid = blk[w].valid
  BY <1>1, Zenon DEF Blk
<1> HIDE DEF b
<1>5. /\ c \in Blk /\ c.tag = b.tag /\ c.valid = b.valid /\ c.threadID = b.threadID
  BY <1>1, <1>3, SatisfiedBlock
<1> HIDE DEF c
<1>6. blk' \in [Way -> Blk]
  BY <1>1, <1>2, <1>5
<1>7. ASSUME NEW x \in Way
      PROVE  /\ blk'[x].tag = blk[x].tag /\ blk'[x].valid = blk[x].valid
             /\ blk'[x].threadID = blk[x].threadID
  <2>1. CASE x = w
    <3>1. blk'[x] = c
      BY <1>1, <1>2, <2>1
    <3> QED BY <1>3, <1>4, <1>5, <2>1, <3>1, Zenon
  <2>2. CASE x # w
    <3>1. blk'[x] = blk[x]
      BY <1>1, <1>2, <2>2
    <3> QED BY <3>1, Zenon
  <2> QED BY <2>1, <2>2
<1> QED BY <1>2, <1>6, <1>7

\* The blocks and the sets after a fill of a new block v, with h the copy of High
\* that a fake miss moves, or NULL.
LEMMA FillNewResult ==
    ASSUME IInv, cpu.addr \in Addr, NEW v \in Way, In(sets[cpu.label], v), NEW h,
           h # NULL => h \in Way /\ h # v /\ In(sets[1], h) /\ cpu.label = 0,
           FillNew(v, h)
    PROVE  /\ blk' \in [Way -> Blk] /\ DOMAIN sets' = Label
           /\ \A u \in Label : IsReordering(sets'[u], sets[u], Way)
           /\ blk'[v].tag = cpu.addr /\ blk'[v].threadID = cpu.label
           /\ blk'[v] = Satisfied(Filled(IF h = NULL THEN cpu.ver ELSE blk[h].data),
                                  cpu.op)
           /\ h # NULL => ~blk'[h].valid
           /\ \A x \in Way \ {v, h} : blk'[x] = blk[x]
<1> DEFINE data == IF h = NULL THEN cpu.ver ELSE blk[h].data
           c == Satisfied(Filled(data), cpu.op)
           filled == [blk EXCEPT ![v] = c]
           moved == [sets EXCEPT ![cpu.label] = moveToHead(sets[cpu.label], v)]
<1>1. TypeOK /\ blk \in [Way -> Blk] /\ cpu.op \in Op /\ cpu.ver \in Nat
      /\ cpu.label \in Label /\ DOMAIN sets = Label
  BY ZenonT(60) DEF IInv, TypeOK, Mshr
<1>2. data \in Nat
  BY <1>1 DEF Blk
<1>3. c \in Blk /\ c.tag = cpu.addr /\ c.threadID = cpu.label
  <2>1. /\ Filled(data) \in Blk /\ Filled(data).tag = cpu.addr
        /\ Filled(data).threadID = cpu.label
    BY <1>1, <1>2, FilledBlock
  <2> QED BY <1>1, <2>1, SatisfiedBlock
<1>4. IF h = NULL THEN blk' = filled /\ sets' = moved
      ELSE /\ blk' = [filled EXCEPT ![h] = [@ EXCEPT !.valid = FALSE,
                                            !.writable = FALSE, !.dirty = FALSE]]
           /\ sets' = [moved EXCEPT ![1] = moveToTail(@, h)]
  BY DEF FillNew
<1> HIDE DEF c
<1>5. filled \in [Way -> Blk] /\ filled[v] = c
      /\ \A x \in Way \ {v} : filled[x] = blk[x]
  BY <1>1, <1>3
<1>6. /\ DOMAIN moved = Label /\ \A u \in Label \ {cpu.label} : moved[u] = sets[u]
      /\ moved[cpu.label] = moveToHead(sets[cpu.label], v)
  BY <1>1
<1>7. IsReordering(moveToHead(sets[cpu.label], v), sets[cpu.label], Way)
  BY <1>1, SetFacts, MoveToHeadReorders
<1> HIDE DEF filled, moved
<1>8. CASE h = NULL
  <2>1. blk' = filled /\ sets' = moved
    BY <1>4, <1>8
  <2>2. \A u \in Label : IsReordering(sets'[u], sets[u], Way)
    BY <1>1, <1>6, <1>7, <2>1, SameIsReordering
  <2> QED BY <1>3, <1>5, <1>6, <1>8, <2>1, <2>2 DEF c
<1>9. CASE h # NULL
  <2>1. h \in Way /\ h # v /\ In(sets[1], h) /\ cpu.label = 0
    BY <1>9
  <2> DEFINE d == [filled[h] EXCEPT !.valid = FALSE, !.writable = FALSE, !.dirty = FALSE]
  <2>2. blk' = [filled EXCEPT ![h] = d]
    BY <1>4, <1>9
  <2>3. sets' = [moved EXCEPT ![1] = moveToTail(moved[1], h)]
    BY <1>4, <1>9
  <2>4. d \in Blk /\ d.valid = FALSE
    BY <1>5, <2>1, ZenonT(60) DEF Blk
  <2> HIDE DEF d
  <2>5. blk' \in [Way -> Blk] /\ blk'[h] = d /\ \A x \in Way \ {h} : blk'[x] = filled[x]
    BY <1>5, <2>1, <2>2, <2>4
  <2>6. moved[1] = sets[1] /\ 1 \in Label /\ 0 \in Label
    BY <1>6, <2>1 DEF Label
  <2>7. IsReordering(moveToTail(sets[1], h), sets[1], Way)
    BY <1>1, <2>1, <2>6, SetFacts, MoveToTailReorders
  <2>8. sets'[1] = moveToTail(sets[1], h) /\ sets'[0] = moved[0] /\ DOMAIN sets' = Label
    BY <1>6, <2>3, <2>6
  <2>9. \A u \in Label : IsReordering(sets'[u], sets[u], Way)
    BY <1>6, <1>7, <2>1, <2>7, <2>8 DEF Label
  <2>10. blk'[v] = c
    BY <1>5, <2>1, <2>5
  <2>11. \A x \in Way \ {v, h} : blk'[x] = blk[x]
    BY <1>5, <2>5
  <2>12. ~blk'[h].valid
    BY <2>4, <2>5
  <2>13. blk'[v] = Satisfied(Filled(IF h = NULL THEN cpu.ver ELSE blk[h].data), cpu.op)
    BY <2>10 DEF c
  <2> QED BY <1>3, <2>5, <2>8, <2>9, <2>10, <2>11, <2>12, <2>13
<1> QED BY <1>8, <1>9

\* A label that found nothing has no copy; a copy is with High then, and the fill
\* is a fake miss of Low.
LEMMA MissedCopies ==
    ASSUME IInv, cpu.addr \in Addr, cpu.label \in Label,
           NEW v \in Way, In(sets[cpu.label], v), NEW h,
           findBlock(cpu.addr, cpu.label) = NULL, h = findBlock(cpu.addr, 1)
    PROVE  /\ h # NULL => /\ h \in Copies(cpu.addr) /\ h \in Way /\ h # v
                          /\ Copies(cpu.addr) = {h} /\ In(sets[1], h) /\ cpu.label = 0
           /\ h = NULL => Copies(cpu.addr) = {}
<1>1. 1 \in Label /\ 0 \in Label
  BY DEF Label
<1>2. \A w \in Copies(cpu.addr) : In(sets[1], w)
  <2>1. \A w \in Copies(cpu.addr) : ~In(sets[0], w)
    BY FindBlockMisses
  <2> QED BY <2>1 DEF IInv, TypeOK, Copies
<1>3. h # NULL => /\ h \in Copies(cpu.addr) /\ h \in Way
                  /\ Copies(cpu.addr) = {h} /\ In(sets[1], h)
  <2>1. h # NULL => h \in Copies(cpu.addr)
    BY <1>1, FindBlockFinds
  <2> QED BY <1>2, <2>1 DEF Copies, IInv, SingleCopy
<1>4. h # NULL => cpu.label = 0
  BY DEF Label
<1>5. h # NULL => h # v
  <2>1. ASSUME h # NULL PROVE ~In(sets[0], h)
    BY <1>3, <2>1 DEF IInv, TypeOK
  <2> QED BY <1>4, <2>1
<1>6. h = NULL => Copies(cpu.addr) = {}
  <2>1. h = NULL => \A w \in Copies(cpu.addr) : ~In(sets[1], w)
    BY <1>1, FindBlockMisses
  <2> QED BY <1>2, <2>1
<1> QED BY <1>3, <1>4, <1>5, <1>6

\* After the fill of a new block the line is cached in that block only: a label
\* that found nothing has no copy, and the copy of High is moved.
LEMMA FillNewCopies ==
    ASSUME IInv, cpu.addr \in Addr, cpu.label \in Label,
           NEW v \in Way, In(sets[cpu.label], v), NEW h,
           findBlock(cpu.addr, cpu.label) = NULL, h = findBlock(cpu.addr, 1),
           FillNew(v, h)
    PROVE  /\ blk' \in [Way -> Blk] /\ DOMAIN sets' = Label
           /\ \A u \in Label : IsReordering(sets'[u], sets[u], Way)
           /\ SingleCopy' /\ \A w \in Way : blk'[w].valid => blk'[w].tag \in Addr
<1>1. 1 \in Label /\ 0 \in Label
  BY DEF Label
<1>2. \A w \in Way : blk[w].threadID \in Label
  BY DEF IInv, TypeOK, Blk
<1>3. /\ h # NULL => /\ h \in Copies(cpu.addr) /\ h \in Way /\ h # v
                     /\ Copies(cpu.addr) = {h} /\ In(sets[1], h) /\ cpu.label = 0
      /\ h = NULL => Copies(cpu.addr) = {}
  BY MissedCopies
<1>8. /\ blk' \in [Way -> Blk] /\ DOMAIN sets' = Label
      /\ \A u \in Label : IsReordering(sets'[u], sets[u], Way)
      /\ blk'[v].tag = cpu.addr /\ blk'[v].threadID = cpu.label
      /\ h # NULL => ~blk'[h].valid
      /\ \A x \in Way \ {v, h} : blk'[x] = blk[x]
  BY <1>3, FillNewResult
<1>9. \A u \in Label : \A w : In(sets[u], w) => In(sets'[u], w)
  BY <1>8 DEF IsReordering
<1>10. ASSUME NEW x \in Way, blk'[x].valid, x # v
       PROVE  x # h /\ blk'[x] = blk[x] /\ x \in Copies(blk[x].tag)
              /\ blk'[x].tag # cpu.addr
  <2>1. x # h
    <3>1. CASE h = NULL
      BY <3>1, DirtyAssumption DEF Way, NULL
    <3>2. CASE h # NULL
      BY <1>8, <1>10, <3>2
    <3> QED BY <3>1, <3>2
  <2>2. blk'[x] = blk[x]
    BY <1>8, <1>10, <2>1
  <2>3. x \in Copies(blk[x].tag)
    BY <1>10, <2>2 DEF Copies
  <2> QED BY <1>3, <2>1, <2>2, <2>3
<1>11. ASSUME NEW w \in Way, blk'[w].valid PROVE blk'[w].tag \in Addr
  <2>1. CASE w = v
    BY <1>8, <2>1
  <2>2. CASE w # v
    <3>1. blk'[w] = blk[w]
      BY <1>11, <1>10, <2>2
    <3>2. blk[w].valid
      BY <1>11, <3>1
    <3> QED BY <3>1, <3>2 DEF IInv
  <2> QED BY <2>1, <2>2
<1>12. SingleCopy'
  <2> SUFFICES ASSUME NEW a \in Addr, NEW w \in Way, blk'[w].valid, blk'[w].tag = a
               PROVE  /\ \A x \in Way : blk'[x].valid /\ blk'[x].tag = a => x = w
                      /\ In(sets'[blk'[w].threadID], w)
    BY DEF SingleCopy, Copies
  <2>1. CASE w = v
    <3>1. a = cpu.addr
      BY <1>8, <2>1
    <3>2. \A x \in Way : blk'[x].valid /\ blk'[x].tag = a => x = w
      BY <1>10, <2>1, <3>1
    <3> QED BY <1>8, <1>9, <2>1, <3>2
  <2>2. CASE w # v
    <3>1. blk'[w] = blk[w] /\ w \in Copies(a) /\ a # cpu.addr
      BY <1>10, <2>2
    <3>2. Copies(a) = {w} /\ In(sets[blk[w].threadID], w)
      BY <3>1 DEF IInv, SingleCopy
    <3>3. ASSUME NEW x \in Way, blk'[x].valid, blk'[x].tag = a PROVE x = w
      <4>1. x # v
        BY <1>8, <3>1, <3>3
      <4>2. x \in Copies(a)
        BY <1>10, <3>3, <4>1
      <4> QED BY <3>2, <4>2
    <3>4. In(sets'[blk'[w].threadID], w)
      BY <1>2, <1>9, <3>1, <3>2
    <3> QED BY <3>3, <3>4
  <2> QED BY <2>1, <2>2
<1> QED BY <1>8, <1>11, <1>12

\* The writeback of a victim is well typed.
LEMMA WithWritebackType ==
    ASSUME IInv, NEW w \in Way
    PROVE  WithWriteback(blk[w]) \in [Label -> Seq([addr : Addr, ver : Nat])]
<1> DEFINE S == [addr : Addr, ver : Nat]
           b == blk[w]
<1>1. wb \in [Label -> Seq(S)]
  BY ZenonT(60) DEF IInv, TypeOK
<1>2. b.threadID \in Label /\ b.data \in Nat /\ (b.valid => b.tag \in Addr)
  BY DEF IInv, TypeOK, Blk
<1>3. CASE b.valid /\ b.dirty
  <2> DEFINE e == [addr |-> b.tag, ver |-> b.data]
  <2>1. e \in S
    BY <1>2, <1>3
  <2>2. WithWriteback(b) = [wb EXCEPT ![b.threadID] = Append(wb[b.threadID], e)]
    BY <1>3 DEF WithWriteback
  <2> HIDE DEF S, e
  <2>3. Append(wb[b.threadID], e) \in Seq(S)
    BY <1>1, <1>2, <2>1, AppendProperties
  <2> QED BY <1>1, <1>2, <2>2, <2>3, ZenonT(60) DEF S
<1>4. CASE ~(b.valid /\ b.dirty)
  BY <1>1, <1>4, ZenonT(60) DEF WithWriteback
<1> QED BY <1>3, <1>4, ZenonT(60)

\* RecvResponse fills the block that is there or a new one.
LEMMA RecvResponseKeepsIInv ==
    ASSUME IInv, RecvResponse
    PROVE  IInv'
<1> DEFINE w == findBlock(cpu.addr, cpu.label)
           v == findVictim(cpu.label)
<1>1. TypeOK /\ cpu.addr \in Addr /\ cpu.label \in Label /\ cpu.op \in Op
  BY ZenonT(60) DEF IInv, TypeOK, Mshr, RecvResponse
<1>2. v \in Way /\ In(sets[cpu.label], v)
  BY <1>1, VictimFacts
<1>3. /\ IF w = NULL
         THEN FillNew(v, findBlock(cpu.addr, 1)) /\ wb' = WithWriteback(blk[v])
         ELSE FillExisting(w) /\ UNCHANGED wb
      /\ Counted(cpu.addr, cpu.op) /\ cpu' = Idle /\ UNCHANGED <<below, busFree>>
  BY DEF RecvResponse
<1>4. /\ blk' \in [Way -> Blk] /\ DOMAIN sets' = Label
      /\ \A u \in Label : IsReordering(sets'[u], sets[u], Way)
      /\ SingleCopy' /\ \A x \in Way : blk'[x].valid => blk'[x].tag \in Addr
  <2>1. CASE w = NULL
    BY <1>1, <1>2, <1>3, <2>1, FillNewCopies
  <2>2. CASE w # NULL
    <3>1. w \in Way
      BY <1>1, <2>2, FindBlockFinds DEF Copies
    <3> HIDE DEF w
    <3>2. /\ blk' \in [Way -> Blk] /\ sets' = sets
          /\ \A x \in Way : /\ blk'[x].tag = blk[x].tag
                            /\ blk'[x].valid = blk[x].valid
                            /\ blk'[x].threadID = blk[x].threadID
      BY <1>1, <1>3, <2>2, <3>1, FillExistingKeeps
    <3>3. DOMAIN sets' = Label /\ \A u \in Label : IsReordering(sets'[u], sets[u], Way)
      BY <1>1, <3>2, SameIsReordering, ZenonT(60) DEF TypeOK
    <3>4. SetsOK'
      BY <1>1, <3>3, ReorderingKeepsSets
    <3> QED BY <3>2, <3>3, <3>4, SameCopies
  <2> QED BY <2>1, <2>2, ZenonT(60)
<1>5. SetsOK'
  BY <1>1, <1>4, ReorderingKeepsSets
<1>6. wb' \in [Label -> Seq([addr : Addr, ver : Nat])]
  BY <1>1, <1>2, <1>3, WithWritebackType, ZenonT(60) DEF TypeOK
<1>7. latest' \in [Addr -> Nat]
  BY <1>1, <1>3, CountedType
<1>8. cpu' \in Mshr /\ cpu'.st = "idle"
  BY <1>3 DEF Idle, Mshr, Op, Label
<1>9. below' \in [Addr -> [ver : Nat, owned : BOOLEAN]] /\ busFree' \in BOOLEAN
  BY <1>1, <1>3 DEF TypeOK
<1>10. TypeOK'
  BY <1>4, <1>5, <1>6, <1>7, <1>8, <1>9, ZenonT(60) DEF TypeOK, SetsOK
<1> QED BY <1>4, <1>10 DEF IInv

----------------------------------------------------------------------------
(* Theorems *)

\* The inductive invariant: types, the ways shared out between the labels, and
\* at most one copy of a line.
THEOREM DirtyInvariance == Spec => []IInv
<1>1. Init => IInv
  BY InitIInv
<1>2. IInv /\ [Next]_vars => IInv'
  <2> SUFFICES ASSUME IInv, [Next]_vars PROVE IInv'
    OBVIOUS
  <2>1. CASE \E op \in Op, a \in Addr, l \in Label : Access(op, a, l)
    BY <2>1, AccessKeepsIInv
  <2>2. CASE SendMiss
    BY <2>2, SendMissKeepsIInv
  <2>3. CASE RecvResponse
    BY <2>3, RecvResponseKeepsIInv
  <2>4. CASE \E t \in Label : SendWriteback(t)
    BY <2>4, SendWritebackKeepsIInv
  <2>5. CASE UNCHANGED vars
    BY <2>5, ZenonT(60) DEF vars, IInv, TypeOK, SingleCopy, Copies, assoc_of_tc, Way
  <2> QED BY <2>1, <2>2, <2>3, <2>4, <2>5 DEF Next
<1> QED BY <1>1, <1>2, PTL DEF Spec

\* Every way belongs to one label, whatever lines move between them.
THEOREM DirtyTypeCorrect == Spec => []TypeOK
BY DirtyInvariance, PTL DEF IInv

\* However the program switches labels, a line is cached once: a fake miss moves
\* the copy of High, and High never fetches what Low has.
THEOREM LineIsCachedOnce == Spec => []SingleCopy
BY DirtyInvariance, PTL DEF IInv

----------------------------------------------------------------------------
(* The data, when the bus takes a writeback before the CPU goes on *)

\* The line a: its copy is the latest version, and so is a writeback, which is
\* on its way only without a copy.  A cache below that owns the line knows of no
\* writable copy, and a copy that is not writable is what is below.
LineOK(a) ==
    /\ \A w \in Copies(a) : /\ blk[w].data = latest[a] /\ blk[w].dirty
                            /\ blk[w].writable => ~below[a].owned
                            /\ ~blk[w].writable => blk[w].data = below[a].ver
    /\ \A e \in Sent(wb, a) : Copies(a) = {} /\ e.ver = latest[a]
    /\ Copies(a) = {} /\ Sent(wb, a) = {} => below[a].ver = latest[a]

\* One writeback at most is on its way, and none during an access.
BusOK ==
    \/ wb[0] = <<>> /\ wb[1] = <<>>
    \/ /\ cpu.st = "idle"
       /\ \E t \in Label : Len(wb[t]) = 1 /\ wb[1 - t] = <<>>

\* An access that waits found no copy, or lacks the permission for its store.  What it
\* was answered is still so below.
MissOK ==
    /\ cpu.st # "idle" =>
          \A w \in Copies(cpu.addr) : In(sets[0], w) \/ In(sets[cpu.label], w) =>
              cpu.op = "Store" /\ ~blk[w].writable
    /\ cpu.st = "inService" =>
          /\ cpu.ver = below[cpu.addr].ver /\ cpu.shared = below[cpu.addr].owned
          /\ cpu.shared => cpu.op = "Load"

DataInv == busFree => BusOK /\ MissOK /\ \A a \in Addr : LineOK(a)

\* Without a writeback in the buffers none is on its way.
LEMMA NothingSent ==
    ASSUME NEW q, q[0] = <<>>, q[1] = <<>>, NEW a
    PROVE  Sent(q, a) = {}
<1>1. \A t \in Label : q[t] = <<>>
  BY DEF Label
<1>2. Len(<<>>) = 0 /\ 1..0 = {}
  OBVIOUS
<1>3. \A t \in Label : 1..Len(q[t]) = {}
  BY <1>1, <1>2
<1>4. \A t \in Label : {q[t][i] : i \in {j \in 1..Len(q[t]) : q[t][j].addr = a}} = {}
  BY <1>3
<1> QED BY <1>4, ZenonT(60) DEF Sent

\* One writeback in the buffers.
LEMMA OneSent ==
    ASSUME NEW q, NEW t \in Label, Len(q[t]) = 1, q[1 - t] = <<>>, NEW a
    PROVE  Sent(q, a) = IF q[t][1].addr = a THEN {q[t][1]} ELSE {}
<1>1. 1 - t \in Label /\ \A u \in Label : u = t \/ u = 1 - t
  BY DEF Label
<1>2. 1..Len(q[t]) = {1}
  OBVIOUS
<1>3. Len(q[1 - t]) = 0
  OBVIOUS
<1>4. 1..Len(q[1 - t]) = {}
  BY <1>3
<1>5. \A e : e \in Sent(q, a) <=>
            \E u \in Label : \E i \in 1..Len(q[u]) : q[u][i].addr = a /\ e = q[u][i]
  BY DEF Sent
<1>6. \A e : e \in Sent(q, a) <=> q[t][1].addr = a /\ e = q[t][1]
  BY <1>1, <1>2, <1>4, <1>5
<1> QED BY <1>6

\* The line keeps its copies, and nothing about them changes.
LEMMA LineStays ==
    ASSUME NEW a, LineOK(a), Copies(a)' = Copies(a), Sent(wb', a) = Sent(wb, a),
           \A w \in Copies(a) : blk'[w] = blk[w],
           latest'[a] = latest[a], below'[a] = below[a]
    PROVE  LineOK(a)'
BY DEF LineOK

\* Copies(a) is a set of ways, with one element at most.
LEMMA CopiesFacts ==
    ASSUME IInv, NEW a
    PROVE  \A w \in Copies(a) : /\ w \in Way /\ blk[w].valid /\ blk[w].tag = a
                                /\ a \in Addr /\ Copies(a) = {w}
BY DEF IInv, SingleCopy, Copies

\* A store in a block.
LEMMA StoredBlock ==
    ASSUME NEW b \in Blk
    PROVE  /\ Satisfied(b, "Store").data = b.data + 1 /\ Satisfied(b, "Store").dirty
           /\ Satisfied(b, "Store").writable = b.writable
           /\ Satisfied(b, "Load") = b
<1>1. Satisfied(b, "Store") = [b EXCEPT !.data = b.data + 1, !.dirty = TRUE]
  BY DEF Satisfied
<1>2. Satisfied(b, "Store").writable = b.writable
  BY <1>1, Zenon DEF Blk
<1> QED BY <1>1, <1>2 DEF Blk, Satisfied

\* What the invariants say when the bus is free.
LEMMA DataFacts ==
    ASSUME IInv, DataInv, busFree
    PROVE  /\ TypeOK /\ BusOK /\ MissOK /\ \A a \in Addr : LineOK(a)
           /\ cpu.st # "idle" => wb[0] = <<>> /\ wb[1] = <<>>
           /\ blk \in [Way -> Blk] /\ latest \in [Addr -> Nat]
           /\ below \in [Addr -> [ver : Nat, owned : BOOLEAN]]
BY ZenonT(60) DEF IInv, DataInv, BusOK, TypeOK

\* Access: a store hits a writable copy only; a miss waits for what it lacks.
LEMMA AccessKeepsData ==
    ASSUME IInv, DataInv, NEW op \in Op, NEW a \in Addr, NEW l \in Label, Access(op, a, l)
    PROVE  DataInv'
<1> SUFFICES ASSUME busFree PROVE BusOK' /\ MissOK' /\ \A b \in Addr : LineOK(b)'
  BY DEF DataInv, Access
<1> DEFINE w == findBlock(a, l)
           t == locateBlock(a, l)
<1>1. /\ TypeOK /\ BusOK /\ MissOK /\ \A b \in Addr : LineOK(b)
      /\ blk \in [Way -> Blk] /\ latest \in [Addr -> Nat]
  BY DataFacts
<1>2. /\ cpu.st = "idle" /\ wb[0] = <<>> /\ wb[1] = <<>>
      /\ wb' = wb /\ below' = below
      /\ sets' = IF w = NULL THEN sets ELSE [sets EXCEPT ![t] = moveToHead(@, w)]
  BY DEF Access, Label
<1>3. \/ /\ Hits(w, op) /\ blk' = [blk EXCEPT ![w] = Satisfied(blk[w], op)]
         /\ Counted(a, op) /\ cpu' = cpu
      \/ /\ ~Hits(w, op) /\ blk' = blk /\ latest' = latest
         /\ cpu' = [st |-> "pending", op |-> op, addr |-> a, label |-> l,
                    cmd |-> "Read", ver |-> 0, shared |-> FALSE]
  BY ZenonT(60) DEF Access, Idle
<1>4. w # NULL => w \in Copies(a) /\ w \in Way /\ t \in Label /\ In(sets[t], w)
  BY FindBlockFinds DEF Copies
<1>5. w = NULL => \A x \in Copies(a) : ~In(sets[0], x) /\ ~In(sets[l], x)
  BY FindBlockMisses
<1> HIDE DEF w, t
<1>6. BusOK'
  BY <1>2 DEF BusOK
<1>7. CASE Hits(w, op) /\ blk' = [blk EXCEPT ![w] = Satisfied(blk[w], op)]
           /\ Counted(a, op) /\ cpu' = cpu
  <2>1. w \in Copies(a) /\ w \in Way /\ (op = "Store" => blk[w].writable)
    BY <1>4, <1>7 DEF Hits
  <2>2. Copies(a) = {w} /\ blk[w] \in Blk
    BY <1>1, <2>1, CopiesFacts
  <2>3. blk'[w] = Satisfied(blk[w], op) /\ \A x \in Way \ {w} : blk'[x] = blk[x]
    BY <1>1, <1>7, <2>1
  <2>4. /\ Satisfied(blk[w], op).tag = blk[w].tag
        /\ Satisfied(blk[w], op).valid = blk[w].valid
    BY <2>2, SatisfiedBlock
  <2>5. \A b : Copies(b)' = Copies(b)
    <3>1. \A x \in Way : blk'[x].tag = blk[x].tag /\ blk'[x].valid = blk[x].valid
      <4> SUFFICES ASSUME NEW x \in Way
                   PROVE  blk'[x].tag = blk[x].tag /\ blk'[x].valid = blk[x].valid
        OBVIOUS
      <4>1. CASE x = w
        BY <2>3, <2>4, <4>1, Zenon
      <4>2. CASE x # w
        <5>1. blk'[x] = blk[x]
          BY <2>3, <4>2, ZenonT(60)
        <5> QED BY <5>1, Zenon
      <4> QED BY <4>1, <4>2
    <3> QED BY <3>1 DEF Copies, Way
  <2>6. MissOK'
    BY <1>2, <1>7, ZenonT(60) DEF MissOK
  <2>7. ASSUME NEW b \in Addr, b # a PROVE LineOK(b)'
    <3>1. \A x \in Copies(b) : x \in Way /\ x # w
      BY <2>1, <2>7, CopiesFacts
    <3>2. latest'[b] = latest[b]
      BY <1>1, <1>7, <2>7 DEF Counted
    <3> QED BY <1>1, <1>2, <2>3, <2>5, <3>1, <3>2, LineStays
  <2>8. LineOK(a)'
    <3>1. CASE op = "Load"
      <4>1. blk'[w] = blk[w]
        BY <2>2, <2>3, <3>1, StoredBlock
      <4>2. latest'[a] = latest[a]
        BY <1>7, <3>1, ZenonT(60) DEF Counted
      <4> QED BY <1>1, <1>2, <2>2, <2>5, <4>1, <4>2, LineStays
    <3>2. CASE op = "Store"
      <4>1. /\ blk'[w].data = blk[w].data + 1 /\ blk'[w].dirty
            /\ blk'[w].writable = blk[w].writable
        BY <2>2, <2>3, <3>2, StoredBlock
      <4>2. latest'[a] = latest[a] + 1
        BY <1>1, <1>7, <3>2 DEF Counted
      <4>3. blk[w].data = latest[a] /\ (blk[w].writable => ~below[a].owned)
        BY <1>1, <2>1 DEF LineOK
      <4>4. blk'[w].writable
        BY <2>1, <3>2, <4>1, Zenon
      <4>5. Sent(wb, a) = {}
        BY <1>2, NothingSent, SMTT(60)
      <4>6. Copies(a)' = {w} /\ Sent(wb', a) = {} /\ ~below'[a].owned
        BY <1>2, <2>1, <2>2, <2>5, <3>2, <4>3, <4>5
      <4>7. blk'[w].data = latest'[a]
        BY <4>1, <4>2, <4>3
      <4> QED BY <4>1, <4>4, <4>6, <4>7, SMTT(60) DEF LineOK
    <3> QED BY <3>1, <3>2, ZenonT(60) DEF Op
  <2> QED BY <1>6, <2>6, <2>7, <2>8
<1>8. CASE /\ ~Hits(w, op) /\ blk' = blk /\ latest' = latest
           /\ cpu' = [st |-> "pending", op |-> op, addr |-> a, label |-> l,
                      cmd |-> "Read", ver |-> 0, shared |-> FALSE]
  <2>1. \A b : Copies(b)' = Copies(b)
    BY <1>8, ZenonT(60) DEF Copies, Way
  <2>2. \A b \in Addr : LineOK(b)'
    BY <1>1, <1>2, <1>8, <2>1, LineStays
  <2>3. \A u \in Label : \A x : In(sets'[u], x) => In(sets[u], x)
    <3>1. CASE w = NULL
      BY <1>2, <3>1, ZenonT(60)
    <3>2. CASE w # NULL
      <4>1. IsReordering(moveToHead(sets[t], w), sets[t], Way)
        BY <1>1, <1>4, <3>2, SetFacts, MoveToHeadReorders
      <4>2. sets' = [sets EXCEPT ![t] = moveToHead(sets[t], w)] /\ t \in Label
        BY <1>2, <1>4, <3>2
      <4>3. \A u \in Label : IsReordering(sets'[u], sets[u], Way)
        BY <1>1, <4>1, <4>2, OneSetReordered, ZenonT(60)
      <4> QED BY <4>3, ZenonT(60) DEF IsReordering
    <3> QED BY <3>1, <3>2
  <2>4. cpu'.st = "pending" /\ cpu'.addr = a /\ cpu'.label = l /\ cpu'.op = op
    BY <1>8
  <2>5. ASSUME NEW x \in Copies(a), In(sets'[0], x) \/ In(sets'[l], x)
        PROVE  op = "Store" /\ ~blk[x].writable
    <3>1. In(sets[0], x) \/ In(sets[l], x)
      BY <2>3, <2>5 DEF Label
    <3>2. w # NULL
      BY <1>5, <3>1
    <3>3. x = w
      BY <1>4, <2>5, <3>2, CopiesFacts, SMTT(60)
    <3> QED BY <1>8, <3>2, <3>3 DEF Hits
  <2>6. MissOK'
    BY <1>8, <2>1, <2>4, <2>5 DEF MissOK
  <2> QED BY <1>6, <2>2, <2>6
<1> QED BY <1>3, <1>7, <1>8

\* SendMiss: an answer that is shared comes from the owner below.
LEMMA SendMissKeepsData ==
    ASSUME IInv, DataInv, SendMiss
    PROVE  DataInv'
<1> SUFFICES ASSUME busFree PROVE BusOK' /\ MissOK' /\ \A b \in Addr : LineOK(b)'
  BY DEF DataInv, SendMiss
<1>1. /\ TypeOK /\ MissOK /\ \A b \in Addr : LineOK(b)
      /\ wb[0] = <<>> /\ wb[1] = <<>> /\ cpu.st = "pending"
      /\ below \in [Addr -> [ver : Nat, owned : BOOLEAN]]
  BY DataFacts DEF SendMiss
<1>2. cpu.addr \in Addr /\ cpu \in Mshr /\ cpu.op \in Op
  BY <1>1 DEF TypeOK, Mshr
<1>3. PICK shared \in BOOLEAN :
        /\ shared => Request = "Read" /\ below[cpu.addr].owned
        /\ cpu' = [cpu EXCEPT !.st = "inService", !.cmd = Request,
                              !.ver = below[cpu.addr].ver, !.shared = shared]
        /\ below' = [below EXCEPT ![cpu.addr].owned = shared]
  BY ZenonT(60) DEF SendMiss
<1>4. UNCHANGED <<sets, blk, wb, latest>>
  BY DEF SendMiss
<1>5. /\ below'[cpu.addr].owned = shared /\ below'[cpu.addr].ver = below[cpu.addr].ver
      /\ \A b \in Addr \ {cpu.addr} : below'[b] = below[b]
  BY <1>1, <1>2, <1>3
<1>6. /\ cpu'.addr = cpu.addr /\ cpu'.label = cpu.label /\ cpu'.op = cpu.op
      /\ cpu'.ver = below[cpu.addr].ver /\ cpu'.shared = shared
  BY <1>2, <1>3 DEF Mshr
<1>7. \A b : Copies(b)' = Copies(b)
  BY <1>4 DEF Copies, Way
<1>8. BusOK'
  BY <1>1, <1>4 DEF BusOK
<1>9. shared => cpu.op = "Load"
  BY <1>2, <1>3, ZenonT(60) DEF Request, Op
<1>10. MissOK'
  BY <1>1, <1>4, <1>5, <1>6, <1>7, <1>9, ZenonT(60) DEF MissOK
<1>11. ASSUME NEW b \in Addr, b # cpu.addr PROVE LineOK(b)'
  BY <1>1, <1>4, <1>5, <1>7, <1>11, LineStays, ZenonT(60)
<1>12. LineOK(cpu.addr)'
  <2>1. LineOK(cpu.addr)
    BY <1>1, <1>2
  <2>2. \A w \in Copies(cpu.addr) : blk[w].writable => ~shared
    BY <1>3, <2>1, SMTT(60) DEF LineOK
  <2> DEFINE c == cpu.addr
  <2>3. /\ \A w \in Copies(c) : /\ blk'[w].data = latest'[c] /\ blk'[w].dirty
                                /\ blk'[w].writable => ~below'[c].owned
                                /\ ~blk'[w].writable => blk'[w].data = below'[c].ver
        /\ \A e \in Sent(wb', c) : Copies(c) = {} /\ e.ver = latest'[c]
        /\ Copies(c) = {} /\ Sent(wb', c) = {} => below'[c].ver = latest'[c]
    BY <1>4, <1>5, <2>1, <2>2 DEF LineOK
  <2> QED BY <1>6, <1>7, <2>3 DEF LineOK
<1> QED BY <1>6, <1>8, <1>10, <1>11, <1>12

\* SendWriteback: the one writeback on its way arrives.
LEMMA SendWritebackKeepsData ==
    ASSUME IInv, DataInv, NEW t \in Label, SendWriteback(t)
    PROVE  DataInv'
<1> SUFFICES ASSUME busFree PROVE BusOK' /\ MissOK' /\ \A b \in Addr : LineOK(b)'
  BY DEF DataInv, SendWriteback
<1> DEFINE e == wb[t][1]
<1>1. /\ TypeOK /\ BusOK /\ \A b \in Addr : LineOK(b)
      /\ below \in [Addr -> [ver : Nat, owned : BOOLEAN]]
  BY DataFacts
<1>2. /\ wb[t] # <<>> /\ UNCHANGED <<sets, blk, cpu, latest>>
      /\ below' = [below EXCEPT ![Head(wb[t]).addr] =
                     [ver |-> Head(wb[t]).ver, owned |-> TRUE]]
      /\ wb' = [wb EXCEPT ![t] = Tail(wb[t])]
  BY DEF SendWriteback
<1>3. wb \in [Label -> Seq([addr : Addr, ver : Nat])]
  BY <1>1, ZenonT(60) DEF TypeOK
<1>4. cpu.st = "idle" /\ Len(wb[t]) = 1 /\ wb[1 - t] = <<>>
  <2>1. PICK u \in Label : Len(wb[u]) = 1 /\ wb[1 - u] = <<>> /\ cpu.st = "idle"
    BY <1>1, <1>2 DEF BusOK, Label
  <2>2. u = t
    BY <1>2, <2>1 DEF Label
  <2> QED BY <2>1, <2>2
<1>5. Head(wb[t]) = e /\ Tail(wb[t]) = <<>> /\ e \in [addr : Addr, ver : Nat]
  <2> DEFINE S == [addr : Addr, ver : Nat]
  <2>1. wb[t] \in Seq(S)
    BY <1>3, ZenonT(60)
  <2> HIDE DEF S
  <2>2. Head(wb[t]) = e /\ e \in S
    BY <1>2, <1>4, <2>1
  <2>3. Tail(wb[t]) \in Seq(S) /\ Len(Tail(wb[t])) = 0
    BY <1>2, <1>4, <2>1, HeadTailProperties
  <2>4. Tail(wb[t]) = <<>>
    BY <2>3, EmptySeq, ZenonT(60)
  <2> QED BY <2>2, <2>4 DEF S
<1> HIDE DEF e
<1>6. wb'[0] = <<>> /\ wb'[1] = <<>>
  BY <1>2, <1>3, <1>4, <1>5 DEF Label
<1>7. BusOK'
  BY <1>6 DEF BusOK
<1>8. MissOK'
  BY <1>2, <1>4 DEF MissOK
<1>9. e.addr \in Addr /\ e.ver \in Nat
  BY <1>5, SMTT(60)
<1>10. below'[e.addr].ver = e.ver /\ \A b \in Addr \ {e.addr} : below'[b] = below[b]
  BY <1>1, <1>2, <1>5, <1>9
<1>11. \A b : Copies(b)' = Copies(b)
  BY <1>2 DEF Copies, Way
<1>12. \A b : Sent(wb', b) = {}
  BY <1>6, NothingSent
<1>13. \A b : Sent(wb, b) = IF e.addr = b THEN {e} ELSE {}
  BY <1>4, OneSent DEF e
<1>14. ASSUME NEW b \in Addr PROVE LineOK(b)'
  <2>1. CASE b = e.addr
    <3>1. Copies(b) = {} /\ e.ver = latest[b]
      BY <1>1, <1>13, <2>1 DEF LineOK
    <3> QED BY <1>2, <1>10, <1>11, <1>12, <2>1, <3>1, ZenonT(60) DEF LineOK
  <2>2. CASE b # e.addr
    <3>1. Sent(wb', b) = Sent(wb, b)
      BY <1>12, <1>13, <2>2
    <3> QED BY <1>1, <1>2, <1>10, <1>11, <2>2, <3>1, LineStays, ZenonT(60)
  <2> QED BY <2>1, <2>2
<1> QED BY <1>7, <1>8, <1>14

\* A response for a block that is there: the store had lacked the permission, the
\* data in the block is what is below.
LEMMA FillExistingKeepsData ==
    ASSUME IInv, DataInv, busFree, RecvResponse, NEW w,
           w = findBlock(cpu.addr, cpu.label), w # NULL
    PROVE  BusOK' /\ \A b \in Addr : LineOK(b)'
<1>1. /\ TypeOK /\ MissOK /\ \A b \in Addr : LineOK(b)
      /\ wb[0] = <<>> /\ wb[1] = <<>> /\ cpu.st = "inService"
      /\ blk \in [Way -> Blk] /\ latest \in [Addr -> Nat]
  BY DataFacts DEF RecvResponse
<1>2. cpu.addr \in Addr /\ cpu.label \in Label
  BY <1>1 DEF TypeOK, Mshr
<1>3. /\ FillExisting(w) /\ wb' = wb /\ below' = below /\ Counted(cpu.addr, cpu.op)
  BY DEF RecvResponse
<1> DEFINE c == cpu.addr
<1>4. w \in Copies(c) /\ (In(sets[0], w) \/ In(sets[cpu.label], w))
  <2>1. w \in Copies(c) /\ In(sets[locateBlock(c, cpu.label)], w)
    BY <1>2, FindBlockFinds
  <2>2. locateBlock(c, cpu.label) = 0 \/ locateBlock(c, cpu.label) = cpu.label
    BY DEF locateBlock
  <2> QED BY <2>1, <2>2
<1>5. cpu.op = "Store" /\ ~blk[w].writable /\ ~cpu.shared
  BY <1>1, <1>4, SMTT(60) DEF MissOK
<1>6. /\ w \in Way /\ Copies(c) = {w} /\ blk[w] \in Blk
  BY <1>1, <1>4, CopiesFacts, ZenonT(60)
<1>7. /\ blk[w].data = latest[c] /\ blk[w].data = below[c].ver /\ cpu.ver = blk[w].data
      /\ ~below[c].owned
  BY <1>1, <1>2, <1>4, <1>5 DEF LineOK, MissOK
<1> DEFINE b0 == [blk[w] EXCEPT !.dirty = TRUE, !.writable = @ \/ ~cpu.shared,
                                !.data = IF cpu.cmd = "Upgrade" THEN @ ELSE cpu.ver]
<1>8. blk' = [blk EXCEPT ![w] = Satisfied(b0, "Store")]
  BY <1>3, <1>5 DEF FillExisting
<1>9. b0 \in Blk /\ b0.data = latest[c] /\ b0.writable = TRUE
  BY <1>1, <1>2, <1>5, <1>6, <1>7, ZenonT(60) DEF Blk
<1> HIDE DEF b0
<1>10. blk'[w] = Satisfied(b0, "Store") /\ \A x \in Way \ {w} : blk'[x] = blk[x]
  BY <1>1, <1>6, <1>8
<1>11. blk'[w].data = latest[c] + 1 /\ blk'[w].dirty /\ blk'[w].writable
  BY <1>9, <1>10, StoredBlock
<1>12. latest'[c] = latest[c] + 1 /\ \A b \in Addr \ {c} : latest'[b] = latest[b]
  BY <1>1, <1>2, <1>3, <1>5 DEF Counted
<1>13. \A b : Copies(b)' = Copies(b)
  <2>1. \A x \in Way : blk'[x].tag = blk[x].tag /\ blk'[x].valid = blk[x].valid
    BY <1>2, <1>3, <1>6, FillExistingKeeps
  <2> QED BY <2>1 DEF Copies, Way
<1>14. BusOK'
  BY <1>1, <1>3 DEF BusOK
<1>15. ASSUME NEW b \in Addr PROVE LineOK(b)'
  <2>1. CASE b = c
    <3>1. Copies(b)' = {w} /\ ~below'[b].owned /\ blk'[w].data = latest'[b]
      BY <1>3, <1>6, <1>7, <1>11, <1>12, <1>13, <2>1, ZenonT(60)
    <3>2. Sent(wb', b) = {}
      BY <1>1, <1>3, NothingSent, ZenonT(60)
    <3> QED BY <1>11, <3>1, <3>2 DEF LineOK
  <2>2. CASE b # c
    <3>1. \A x \in Copies(b) : x \in Way /\ x # w
      BY <1>4, <2>2, CopiesFacts, SMTT(60)
    <3> QED BY <1>1, <1>3, <1>10, <1>12, <1>13, <2>2, <3>1, LineStays
  <2> QED BY <2>1, <2>2, ZenonT(60)
<1> QED BY <1>14, <1>15, ZenonT(60)

\* The block that a fill makes, with the data of the response or of High's copy.
LEMMA FilledData ==
    ASSUME TypeOK, cpu.addr \in Addr, NEW data \in Nat,
           NEW c, c = Satisfied(Filled(data), cpu.op)
    PROVE  /\ c.tag = cpu.addr /\ c.valid /\ c.dirty
           /\ c.writable <=> ~cpu.shared
           /\ c.data = IF cpu.op = "Store" THEN data + 1 ELSE data
<1>1. /\ Filled(data) \in Blk /\ Filled(data).tag = cpu.addr
      /\ Filled(data).valid
  BY FilledBlock
<1>2. Filled(data).dirty /\ Filled(data).data = data
      /\ (Filled(data).writable <=> ~cpu.shared)
  BY ZenonT(60) DEF Filled
<1>3. cpu.op \in Op
  BY DEF TypeOK, Mshr
<1>4. c.tag = cpu.addr /\ c.valid
  BY <1>1, <1>3, SatisfiedBlock
<1>5. CASE cpu.op = "Store"
  <2>1. c.dirty /\ c.data = data + 1 /\ c.writable = Filled(data).writable
    BY <1>1, <1>2, <1>5, StoredBlock
  <2>2. c.writable <=> ~cpu.shared
    BY <1>2, <2>1, Zenon
  <2> QED BY <1>4, <1>5, <2>1, <2>2
<1>6. CASE cpu.op = "Load"
  <2>1. c = Filled(data)
    BY <1>1, <1>6, StoredBlock
  <2> QED BY <1>1, <1>2, <1>6, <2>1
<1> QED BY <1>3, <1>5, <1>6 DEF Op

\* A response for which a block is allocated: the victim is written back, and the
\* data of a fake miss is that of High's copy.
LEMMA FillNewKeepsData ==
    ASSUME IInv, DataInv, busFree, RecvResponse, NEW c, c = cpu.addr,
           findBlock(c, cpu.label) = NULL
    PROVE  BusOK' /\ \A b \in Addr : LineOK(b)'
<1> DEFINE v == findVictim(cpu.label)
           h == findBlock(c, 1)
           data == IF h = NULL THEN cpu.ver ELSE blk[h].data
<1>1. /\ TypeOK /\ MissOK /\ \A b \in Addr : LineOK(b)
      /\ wb[0] = <<>> /\ wb[1] = <<>> /\ cpu.st = "inService"
      /\ blk \in [Way -> Blk] /\ latest \in [Addr -> Nat]
  BY DataFacts DEF RecvResponse
<1>2. c \in Addr /\ cpu.label \in Label /\ cpu.op \in Op /\ cpu.ver \in Nat
  BY <1>1 DEF TypeOK, Mshr
<1>3. /\ FillNew(v, h) /\ wb' = WithWriteback(blk[v]) /\ below' = below
      /\ Counted(c, cpu.op) /\ cpu' = Idle
  BY DEF RecvResponse
<1>4. v \in Way /\ In(sets[cpu.label], v)
  BY <1>2, VictimFacts
<1> HIDE DEF v, h
<1>5. /\ h # NULL => /\ h \in Copies(c) /\ h \in Way /\ h # v
                     /\ Copies(c) = {h} /\ In(sets[1], h) /\ cpu.label = 0
      /\ h = NULL => Copies(c) = {}
  BY <1>2, <1>4, MissedCopies DEF h
<1>6. /\ blk'[v] = Satisfied(Filled(data), cpu.op)
      /\ h # NULL => ~blk'[h].valid
      /\ \A x \in Way \ {v, h} : blk'[x] = blk[x]
  BY <1>2, <1>3, <1>4, <1>5, FillNewResult, ZenonT(60)
<1>7. Sent(wb, c) = {}
  BY <1>1, NothingSent
<1>8. data = latest[c] /\ (cpu.shared => data = below[c].ver)
      /\ (cpu.shared <=> below[c].owned)
  BY <1>1, <1>2, <1>5, <1>7, ZenonT(60) DEF LineOK, MissOK
<1>9. data \in Nat
  BY <1>1, <1>2, <1>8
<1> HIDE DEF data
<1>10. /\ blk'[v].tag = c /\ blk'[v].valid /\ blk'[v].dirty
       /\ blk'[v].writable <=> ~cpu.shared
       /\ blk'[v].data = IF cpu.op = "Store" THEN data + 1 ELSE data
  BY <1>1, <1>2, <1>6, <1>9, FilledData, ZenonT(60)
<1>11. /\ latest'[c] = IF cpu.op = "Store" THEN latest[c] + 1 ELSE latest[c]
       /\ \A b \in Addr \ {c} : latest'[b] = latest[b]
  BY <1>1, <1>2, <1>3, ZenonT(60) DEF Counted
<1>12. v \notin Copies(c)
  BY <1>5
<1>13. NULL \notin Way
  BY DirtyAssumption DEF Way, NULL
<1>14. Way' = Way
  BY SMTT(60) DEF Way
<1>15. \A b : b # c => Copies(b)' = Copies(b) \ {v}
  <2> SUFFICES ASSUME NEW b, b # c, NEW x \in Way
               PROVE  blk'[x].valid /\ blk'[x].tag = b
                        <=> blk[x].valid /\ blk[x].tag = b /\ x # v
    BY <1>14, ZenonT(60) DEF Copies
  <2>1. CASE x = v
    BY <1>10, <2>1
  <2>2. CASE x = h
    <3>1. h # NULL /\ ~blk'[x].valid /\ blk[x].tag = c
      BY <1>5, <1>6, <1>13, <2>2, ZenonT(60) DEF Copies
    <3> QED BY <3>1, ZenonT(60)
  <2>3. CASE x # v /\ x # h
    BY <1>6, <2>3
  <2> QED BY <2>1, <2>2, <2>3
<1>16. Copies(c)' = {v}
  <2>1. \A x \in Way : blk'[x].valid /\ blk'[x].tag = c <=> x = v
    <3> SUFFICES ASSUME NEW x \in Way PROVE blk'[x].valid /\ blk'[x].tag = c <=> x = v
      OBVIOUS
    <3>1. CASE x = v
      BY <1>10, <3>1
    <3>2. CASE x # v /\ x = h
      BY <1>6, <1>13, <3>2
    <3>3. CASE x # v /\ x # h
      <4>1. blk'[x] = blk[x]
        BY <1>6, <3>3
      <4>2. x \notin Copies(c)
        BY <1>5, <3>3
      <4> QED BY <3>3, <4>1, <4>2 DEF Copies
    <3> QED BY <3>1, <3>2, <3>3
  <2>2. Copies(c)' = {x \in Way : blk'[x].valid /\ blk'[x].tag = c}
    BY <1>14 DEF Copies
  <2> QED BY <1>4, <2>1, <2>2, SMTT(60)
<1>17. ASSUME NEW b \in Addr, b # c, v \notin Copies(b), Sent(wb', b) = {}
       PROVE  LineOK(b)'
  <2>1. Copies(b)' = Copies(b) /\ \A x \in Copies(b) : x \in Way /\ x # v /\ x # h
    <3>1. \A x \in Copies(b) : x # h
      BY <1>5, <1>13, <1>17, ZenonT(60) DEF Copies
    <3> QED BY <1>15, <1>17, <3>1, ZenonT(60) DEF Copies
  <2>2. Sent(wb, b) = {}
    BY <1>1, NothingSent, ZenonT(60)
  <2> QED BY <1>1, <1>3, <1>6, <1>11, <1>17, <2>1, <2>2, LineStays, ZenonT(60)
<1>18. ASSUME Sent(wb', c) = {} PROVE LineOK(c)'
  <2>1. blk'[v].data = latest'[c]
    BY <1>8, <1>10, <1>11, ZenonT(60)
  <2>2. blk'[v].writable => ~below'[c].owned
    BY <1>3, <1>8, <1>10, ZenonT(60)
  <2>3. ~blk'[v].writable => blk'[v].data = below'[c].ver
    <3>1. cpu.shared => cpu.op = "Load"
      BY <1>1 DEF MissOK
    <3> QED BY <1>3, <1>8, <1>10, <3>1, ZenonT(60)
  <2> QED BY <1>10, <1>16, <1>18, <2>1, <2>2, <2>3, ZenonT(60) DEF LineOK
<1>19. CASE ~blk[v].valid
  <2>1. wb' = wb
    BY <1>3, <1>19 DEF WithWriteback
  <2>2. BusOK'
    BY <1>1, <2>1, ZenonT(60) DEF BusOK
  <2>3. \A b : Sent(wb', b) = {} /\ v \notin Copies(b)
    BY <1>1, <1>19, <2>1, NothingSent DEF Copies
  <2> QED BY <1>17, <1>18, <2>2, <2>3
<1>20. CASE blk[v].valid
  <2> DEFINE x == blk[v].tag
             t == blk[v].threadID
             e == [addr |-> x, ver |-> blk[v].data]
  <2>1. v \in Copies(x) /\ x \in Addr /\ Copies(x) = {v} /\ x # c /\ t \in Label
    <3>1. v \in Copies(x)
      BY <1>4, <1>20 DEF Copies
    <3>2. t \in Label
      BY <1>1, <1>4, ZenonT(60) DEF Blk
    <3> QED BY <1>12, <3>1, <3>2, CopiesFacts, SMTT(60)
  <2>2. blk[v].dirty /\ blk[v].data = latest[x]
    BY <1>1, <2>1, ZenonT(60) DEF LineOK
  <2>3. wb' = [wb EXCEPT ![t] = Append(wb[t], e)]
    BY <1>3, <1>20, <2>2, SMTT(60) DEF WithWriteback
  <2>4. e.addr = x /\ e.ver = latest[x]
    BY <2>2, ZenonT(60)
  <2> HIDE DEF x, e, t
  <2>5. wb[t] = <<>> /\ wb[1 - t] = <<>> /\ 1 - t \in Label /\ t # 1 - t
    BY <1>1, <2>1 DEF Label
  <2>6. Append(<<>>, e) = <<e>> /\ Len(<<e>>) = 1 /\ <<e>>[1] = e
    OBVIOUS
  <2>7. wb'[t] = <<e>> /\ wb'[1 - t] = <<>>
    <3>1. wb \in [Label -> Seq([addr : Addr, ver : Nat])]
      BY <1>1, ZenonT(60) DEF TypeOK
    <3> QED BY <2>1, <2>3, <2>5, <2>6, <3>1
  <2>8. Len(wb'[t]) = 1 /\ wb'[t][1] = e
    BY <2>6, <2>7
  <2>9. BusOK'
    <3>1. cpu'.st = "idle"
      BY <1>3 DEF Idle
    <3> QED BY <2>1, <2>7, <2>8, <3>1, ZenonT(60) DEF BusOK, Label
  <2>10. \A b : Sent(wb', b) = IF x = b THEN {e} ELSE {}
    BY <2>1, <2>4, <2>7, <2>8, OneSent, ZenonT(60)
  <2>11. ASSUME NEW b \in Addr, b # x, b # c PROVE LineOK(b)'
    <3>1. v \notin Copies(b)
      BY <2>11, ZenonT(60) DEF Copies, x
    <3> QED BY <1>17, <2>10, <2>11, <3>1
  <2>12. ASSUME NEW b, b = x PROVE LineOK(b)'
    <3>1. Copies(b)' = {}
      BY <1>15, <2>1, <2>12, ZenonT(60)
    <3>2. Sent(wb', b) = {e} /\ e.ver = latest'[b]
      BY <1>11, <2>1, <2>4, <2>10, <2>12
    <3> QED BY <3>1, <3>2 DEF LineOK
  <2>13. LineOK(c)'
    BY <1>18, <2>1, <2>10
  <2> QED BY <2>9, <2>11, <2>12, <2>13, ZenonT(60)
<1> QED BY <1>19, <1>20, ZenonT(60)

\* RecvResponse completes the access.
LEMMA RecvResponseKeepsData ==
    ASSUME IInv, DataInv, RecvResponse
    PROVE  DataInv'
<1> SUFFICES ASSUME busFree PROVE BusOK' /\ MissOK' /\ \A b \in Addr : LineOK(b)'
  BY SMTT(60) DEF DataInv, RecvResponse
<1>1. cpu'.st = "idle"
  BY DEF RecvResponse, Idle
<1>2. MissOK'
  BY <1>1 DEF MissOK
<1>3. BusOK' /\ \A b \in Addr : LineOK(b)'
  BY FillNewKeepsData, FillExistingKeepsData
<1> QED BY <1>2, <1>3

\* The data invariant.
THEOREM DataInvariance == Spec => [](IInv /\ DataInv)
<1>1. Init => IInv /\ DataInv
  <2> SUFFICES ASSUME Init PROVE DataInv
    BY InitIInv, SMTT(60)
  <2>1. /\ wb[0] = <<>> /\ wb[1] = <<>> /\ cpu.st = "idle"
        /\ \A a \in Addr : below[a].ver = 0 /\ latest[a] = 0
    BY DEF Init, Label, Idle
  <2>2. \A a : Copies(a) = {} /\ Sent(wb, a) = {}
    <3>1. \A w \in Way : ~blk[w].valid
      BY DEF Init, Empty
    <3> QED BY <2>1, <3>1, NothingSent DEF Copies
  <2> QED BY <2>1, <2>2 DEF DataInv, BusOK, MissOK, LineOK
<1>2. IInv /\ DataInv /\ [Next]_vars => DataInv'
  <2> SUFFICES ASSUME IInv, DataInv, [Next]_vars PROVE DataInv'
    OBVIOUS
  <2>1. CASE \E op \in Op, a \in Addr, l \in Label : Access(op, a, l)
    BY <2>1, AccessKeepsData
  <2>2. CASE SendMiss
    BY <2>2, SendMissKeepsData
  <2>3. CASE RecvResponse
    BY <2>3, RecvResponseKeepsData
  <2>4. CASE \E t \in Label : SendWriteback(t)
    BY <2>4, SendWritebackKeepsData
  <2>5. CASE UNCHANGED vars
    <3>1. UNCHANGED <<sets, blk, cpu, wb, below, latest, busFree>>
      BY <2>5 DEF vars
    <3>2. \A a : Copies(a)' = Copies(a)
      BY <3>1 DEF Copies, Way
    <3> QED BY <3>1, <3>2, ZenonT(60) DEF DataInv, BusOK, MissOK, LineOK
  <2> QED BY <2>1, <2>2, <2>3, <2>4, <2>5 DEF Next
<1> QED BY <1>1, <1>2, DirtyInvariance, PTL DEF Spec

\* No store is lost when the bus takes a writeback before the CPU goes on: however
\* the program switches labels, the latest version of a line is in its copy, in a
\* writeback on its way or below.
THEOREM StoresAreKept == Spec => []NoStoreLost
<1>1. DataInv => NoStoreLost
  BY DEF DataInv, LineOK, NoStoreLost
<1> QED BY <1>1, DataInvariance, PTL

\* Then a copy without write permission is what the caches below have, so that
\* the ReadEx of High over a shared copy of Low brings the same data.
THEOREM SharedCopiesAreClean == Spec => []SharedIsUnmodified
<1>1. IInv /\ DataInv => SharedIsUnmodified
  <2> SUFFICES ASSUME IInv, DataInv, busFree,
                      NEW w \in Way, blk[w].valid, ~blk[w].writable
               PROVE  blk[w].data = below[blk[w].tag].ver
    BY DEF SharedIsUnmodified
  <2>1. blk[w].tag \in Addr /\ w \in Copies(blk[w].tag)
    BY DEF IInv, Copies
  <2> QED BY <2>1, ZenonT(60) DEF DataInv, LineOK
<1> QED BY <1>1, DataInvariance, PTL
=============================================================================
