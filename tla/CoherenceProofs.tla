-------------------------- MODULE CoherenceProofs ---------------------------
(***************************************************************************)
(* The shared cache is coherent and implements a memory, for every number  *)
(* of ways, sets, addresses and writes.  Both rest on an invariant of a    *)
(* single line: where it is cached, and who has its last version.  It      *)
(* holds of the lines of Low, and of every line if there is no resizing.   *)
(***************************************************************************)
EXTENDS CDynamicCacheRefinement, CDynamicCacheProofs

Protected(a) == a \in LowAddr \/ static_cache

\* The ways that hold a, in either partition.
Copies(a) == {w \in Way : /\ blk[extractSet[a]][w].valid
                          /\ blk[extractSet[a]][w].tag = a}

\* The state of a line is consistent.  C are the ways that hold it, b the blocks
\* of its set, m its MSHR, q its pending writebacks, l the line above, v the
\* version in memory and last the version written last.
LineOK(C, b, m, q, l, v, last) ==
    /\ \A w, x \in C : w = x
    \* While a request is outstanding the line is not cached, and the cache above
    \* waits for it or for the right to write it.
    /\ m.st # "none" => /\ C = {}
                        /\ l.st = IF m.cmd = "Upgrade" THEN "S" ELSE "I"
    /\ m.st = "inService" /\ m.cmd # "Upgrade" => m.ver = last
    \* A line on its way to the memory is nowhere else, except shared above, and
    \* is not asked for.
    /\ q # <<>> => /\ Len(q) = 1 /\ q[1] = last
                   /\ C = {} /\ l.st \in {"I", "S"} /\ m.st # "inService"
    /\ \A w \in C : /\ b[w].dirty => l.st \in {"I", "S"}
                    /\ l.st # "M" => b[w].data = last
    /\ l.st # "I" => l.ver = last
    \* Nobody owns the line: the memory has it.
    /\ l.st # "M" /\ q = <<>> /\ (\A w \in C : ~b[w].dirty) => v = last

LineInv(a) ==
    /\ \A w \in Copies(a) : In(get_set(a, tcOf(a)), w)
    /\ LineOK(Copies(a), blk[extractSet[a]], mshr[a], wb[a], l2[a], mem[a], latest[a])

\* The ready list of a compartment holds its pending misses, each once.
QueueInv ==
    \A tc \in TC :
        /\ Injective(missq[tc])
        /\ \A i \in 1..Len(missq[tc]) : /\ tcOf(missq[tc][i]) = tc
                                        /\ mshr[missq[tc][i]].st = "pending"

CoherenceInv ==
    /\ QueueInv
    /\ \A a \in Addr : Protected(a) => LineInv(a)
    /\ NoAbort

----------------------------------------------------------------------------
(* One line *)

\* Only the empty sequence has no elements.
LEMMA NoLength ==
    ASSUME NEW S, NEW q \in Seq(S)
    PROVE  q = <<>> <=> Len(q) = 0
BY SMTT(60)

\* Nothing happened to the line.
LEMMA LineOKSame ==
    ASSUME NEW C, NEW b, NEW m, NEW q, NEW l, NEW v, NEW last,
           LineOK(C, b, m, q, l, v, last),
           NEW d, \A w \in C : d[w] = b[w]
    PROVE  LineOK(C, d, m, q, l, v, last)
BY DEF LineOK

\* A copy is evicted, and written back if it is dirty.
LEMMA LineOKEvict ==
    ASSUME NEW C, NEW b, NEW m, NEW q \in Seq(Nat), NEW l, NEW v, NEW last,
           LineOK(C, b, m, q, l, v, last),
           NEW x \in C, b[x].data \in Nat, NEW d,
           NEW r, b[x].dirty => r = Append(q, b[x].data), ~b[x].dirty => r = q
    PROVE  LineOK(C \ {x}, d, m, r, l, v, last)
<1>1. C = {x} /\ q = <<>> /\ m.st = "none"
  BY DEF LineOK
<1>2. C \ {x} = {}
  BY <1>1
<1>3. CASE b[x].dirty
  <2>1. r = <<b[x].data>> /\ Len(r) = 1 /\ r[1] = b[x].data
    BY <1>1, <1>3
  <2>2. l.st \in {"I", "S"} /\ b[x].data = last
    BY <1>1, <1>3 DEF LineOK
  <2> QED BY <1>1, <1>2, <2>1, <2>2 DEF LineOK
<1>4. CASE ~b[x].dirty
  BY <1>1, <1>2, <1>4 DEF LineOK
<1> QED BY <1>3, <1>4

\* An access that hits finds the only copy; if it misses there is none.
LEMMA FoundCopy ==
    ASSUME TagInv, NEW a \in Addr, LineInv(a), NEW w, w = findBlock(a, tcOf(a))
    PROVE  /\ w = NULL => Copies(a) = {}
           /\ w # NULL => Copies(a) = {w}
<1>1. CASE w = NULL
  <2> DEFINE q == get_set(a, tcOf(a))
  <2>1. q \in Seq(Way) /\ Len(q) \in Nat
    BY OwnSet
  <2>2. \A i \in 1..Len(q) : q[i] # NULL
    BY <2>1, WayAssumption
  <2>3. findBlk(q, blk[extractSet[a]], a) = NULL
    BY <1>1 DEF findBlock
  <2> HIDE DEF q
  <2>4. \A u : In(q, u) => ~(blk[extractSet[a]][u].tag = a /\ blk[extractSet[a]][u].valid)
    BY <2>1, <2>2, <2>3, FindBlkMisses
  <2> QED BY <1>1, <2>4 DEF LineInv, Copies, q
<1>2. CASE w # NULL
  <2>1. w \in Copies(a)
    BY <1>2, FoundBlock DEF Copies
  <2> QED BY <1>2, <2>1 DEF LineInv, LineOK
<1> QED BY <1>1, <1>2

\* What an access of line x does to the copies of lines: way w of its set now
\* holds c.
LEMMA AccessCopies ==
    ASSUME TagInv, NEW x \in Addr, NEW w \in Way, NEW c \in Blk,
           c.valid => c.tag = x, Update(x, w, c)
    PROVE  /\ \A a \in Addr \ {x} :
                /\ Copies(a)' = IF extractSet[a] = extractSet[x]
                                THEN Copies(a) \ {w} ELSE Copies(a)
                /\ \A u \in Copies(a)' :
                     blk'[extractSet[a]][u] = blk[extractSet[a]][u]
           /\ Copies(x)' = IF c.valid THEN Copies(x) \union {w}
                           ELSE Copies(x) \ {w}
           /\ \A u \in Way :
                blk'[extractSet[x]][u] = IF u = w THEN c ELSE blk[extractSet[x]][u]
<1> DEFINE t == extractSet[x]
<1>1. \A a \in Addr : extractSet[a] \in Sets
  BY AddrAssumption
<1>2. \A s \in Sets, u \in Way :
        blk'[s][u] = IF s = t /\ u = w THEN c ELSE blk[s][u]
  BY <1>1 DEF Update, TagInv, TagTypeOK
<1>3. c.valid \in BOOLEAN
  BY DEF Blk
<1> HIDE DEF t
<1>4. ASSUME NEW a \in Addr \ {x}
      PROVE  /\ Copies(a)' = IF extractSet[a] = t THEN Copies(a) \ {w} ELSE Copies(a)
             /\ \A u \in Copies(a)' :
                  blk'[extractSet[a]][u] = blk[extractSet[a]][u]
  <2>1. \A u \in Way : u \in Copies(a)' <=> /\ blk'[extractSet[a]][u].valid
                                           /\ blk'[extractSet[a]][u].tag = a
    BY DEF Copies
  <2>2. \A u \in Way : u \in Copies(a)' <=>
                          u \in Copies(a) /\ ~(extractSet[a] = t /\ u = w)
    BY <1>1, <1>2, <1>3, <2>1 DEF Copies
  <2>3. Copies(a) \subseteq Way /\ Copies(a)' \subseteq Way
    BY DEF Copies
  <2> QED BY <1>1, <1>2, <2>2, <2>3, ZenonT(60)
<1>5. Copies(x)' = IF c.valid THEN Copies(x) \union {w} ELSE Copies(x) \ {w}
  <2>1. \A u \in Way : u \in Copies(x)' <=> blk'[t][u].valid /\ blk'[t][u].tag = x
    BY DEF Copies, t
  <2>2. \A u \in Way : u \in Copies(x) <=> blk[t][u].valid /\ blk[t][u].tag = x
    BY DEF Copies, t
  <2>3. \A u \in Way : u # w => (u \in Copies(x)' <=> u \in Copies(x))
    BY <1>1, <1>2, <2>1, <2>2 DEF t
  <2>4. w \in Copies(x)' <=> c.valid
    BY <1>1, <1>2, <1>3, <2>1 DEF t
  <2>5. Copies(x) \subseteq Way /\ Copies(x)' \subseteq Way
    BY DEF Copies
  <2> QED BY <1>3, <2>3, <2>4, <2>5
<1> QED BY <1>1, <1>2, <1>4, <1>5 DEF t

\* Reordering a partition does not move a block to the other one.
LEMMA ReorderKeepsPlace ==
    ASSUME TagInv, NEW x \in Addr, NEW order,
           IsReordering(order, get_set(x, tcOf(x)), Way),
           Reorder(x, tcOf(x), order), NEW a \in Addr, NEW u
    PROVE  In(get_set(a, tcOf(a))', u) <=> In(get_set(a, tcOf(a)), u)
<1>1. /\ tcOf(x) \in TC /\ extractSet[x] \in Sets
      /\ tcOf(a) \in TC /\ extractSet[a] \in Sets
  BY OwnSet
<1>2. sets' = [sets EXCEPT ![tcOf(x)][extractSet[x]] = order]
  BY DEF Reorder
<1>3. CASE tcOf(a) = tcOf(x) /\ extractSet[a] = extractSet[x]
  <2>1. sets'[tcOf(a)][extractSet[a]] = order
    BY <1>1, <1>2, <1>3 DEF TagInv, TagTypeOK
  <2> QED BY <1>3, <2>1 DEF get_set, IsReordering
<1>4. CASE ~(tcOf(a) = tcOf(x) /\ extractSet[a] = extractSet[x])
  <2>1. sets'[tcOf(a)][extractSet[a]] = sets[tcOf(a)][extractSet[a]]
    BY <1>1, <1>2, <1>4, SMTT(60) DEF TagInv, TagTypeOK
  <2> QED BY <2>1 DEF get_set
<1> QED BY <1>3, <1>4

\* An access of x, whatever it does, keeps the invariant of every line: the block
\* that loses its place is written back if it is dirty, and the new contents of
\* the block fit what else is known of x.
LEMMA AccessKeepsLine ==
    ASSUME IInv, NEW a \in Addr, LineInv(a),
           NEW x \in Addr, NEW w, In(get_set(x, tcOf(x)), w),
           NEW c \in Blk, c.valid => c.tag = x,
           NEW order, IsReordering(order, get_set(x, tcOf(x)), Way),
           Reorder(x, tcOf(x), order), Update(x, w, c),
           a # x => /\ mshr'[a] = mshr[a] /\ l2'[a] = l2[a]
                    /\ mem'[a] = mem[a] /\ latest'[a] = latest[a]
                    /\ LET b == blk[extractSet[x]][w]
                       IN  wb'[a] = IF b.valid /\ b.tag = a /\ b.dirty
                                    THEN Append(wb[a], b.data) ELSE wb[a],
           a = x => /\ Copies(x) \subseteq {w}
                    /\ LineOK(IF c.valid THEN {w} ELSE {}, [u \in {w} |-> c],
                              mshr'[x], wb'[x], l2'[x], mem'[x], latest'[x])
    PROVE  LineInv(a)'
<1>1. TagInv /\ w \in Way
  <2>1. TagInv
    BY ZenonT(60) DEF IInv
  <2> QED BY <2>1, OwnSet, SMTT(60) DEF In
<1>2. \A u : In(get_set(a, tcOf(a))', u) <=> In(get_set(a, tcOf(a)), u)
  BY <1>1, ReorderKeepsPlace, ZenonT(60)
<1>3. /\ a # x => /\ Copies(a)' = IF extractSet[a] = extractSet[x]
                                  THEN Copies(a) \ {w} ELSE Copies(a)
                  /\ \A u \in Copies(a)' :
                       blk'[extractSet[a]][u] = blk[extractSet[a]][u]
      /\ Copies(x)' = IF c.valid THEN Copies(x) \union {w} ELSE Copies(x) \ {w}
      /\ \A u \in Way :
           blk'[extractSet[x]][u] = IF u = w THEN c ELSE blk[extractSet[x]][u]
  BY <1>1, AccessCopies, SMTT(60)
<1> DEFINE C == Copies(a)
           D == Copies(a)'
           b == blk[extractSet[a]]
           d == blk'[extractSet[a]]
<1>4. LineOK(C, b, mshr[a], wb[a], l2[a], mem[a], latest[a])
  BY ZenonT(60) DEF LineInv
<1>5. CASE a = x
  <2>1. D = IF c.valid THEN {w} ELSE {}
    <3>1. c.valid \in BOOLEAN /\ Copies(x) \subseteq {w}
      BY <1>5, SMTT(60) DEF Blk
    <3> QED BY <1>3, <1>5, <3>1
  <2>2. d[w] = c
    BY <1>1, <1>3, <1>5, SMTT(60)
  <2>3. LineOK(D, [u \in {w} |-> c], mshr'[a], wb'[a], l2'[a], mem'[a], latest'[a])
    BY <1>5, <2>1, ZenonT(60)
  <2>4. \A u \in D : d[u] = [y \in {w} |-> c][u]
    <3>1. \A u \in D : u = w
      BY <2>1, SMTT(60)
    <3> QED BY <2>2, <3>1, ZenonT(60)
  <2> HIDE DEF C, D, b, d
  <2>5. LineOK(D, d, mshr'[a], wb'[a], l2'[a], mem'[a], latest'[a])
    BY <2>3, <2>4, LineOKSame, SMTT(60)
  <2>6. \A u \in D : In(get_set(a, tcOf(a))', u)
    BY <1>2, <1>5, <2>1
  <2> QED BY <2>5, <2>6, ZenonT(60) DEF LineInv, D, d
<1>6. CASE a # x /\ extractSet[a] = extractSet[x] /\ w \in C
  <2>1. D = C \ {w} /\ b[w].valid /\ b[w].tag = a /\ b[w].data \in Nat
    <3>1. b[w] \in Blk
      BY <1>1, <1>6, AddrAssumption, Zenon DEF TagInv, TagTypeOK
    <3> QED BY <1>3, <1>6, <3>1, Zenon DEF Copies, Blk
  <2>2. /\ b[w].dirty => wb'[a] = Append(wb[a], b[w].data)
        /\ ~b[w].dirty => wb'[a] = wb[a]
    BY <1>6, <2>1, Zenon
  <2>3. wb[a] \in Seq(Nat)
    BY Zenon DEF IInv, TypeOK
  <2>4. \A u \in D : In(get_set(a, tcOf(a))', u)
    BY <1>2, <2>1, Zenon DEF LineInv
  <2> HIDE DEF C, D, b, d
  <2>5. LineOK(C \ {w}, d, mshr[a], wb'[a], l2[a], mem[a], latest[a])
    BY <1>4, <1>6, <2>1, <2>2, <2>3, LineOKEvict, Zenon
  <2> QED BY <1>6, <2>1, <2>4, <2>5, Zenon DEF LineInv, D, d
<1>7. CASE a # x /\ ~(extractSet[a] = extractSet[x] /\ w \in C)
  <2>1. D = C /\ \A u \in C : d[u] = b[u]
    BY <1>3, <1>7, Zenon
  <2>2. wb'[a] = wb[a]
    <3>1. blk[extractSet[x]][w].valid /\ blk[extractSet[x]][w].tag = a
             => extractSet[a] = extractSet[x] /\ w \in C
      BY <1>1, AddrAssumption DEF TagInv, OwnerTagged, Copies
    <3> QED BY <1>7, <3>1, ZenonT(60)
  <2>3. \A u \in D : In(get_set(a, tcOf(a))', u)
    BY <1>2, <2>1, ZenonT(60) DEF LineInv
  <2> HIDE DEF C, D, b, d
  <2>4. LineOK(D, d, mshr[a], wb[a], l2[a], mem[a], latest[a])
    BY <1>4, <2>1, LineOKSame
  <2> QED BY <1>7, <2>2, <2>3, <2>4, Zenon DEF LineInv, D, d
<1> QED BY <1>5, <1>6, <1>7

\* A step that leaves the tag store alone.
LEMMA NoAccessKeepsLine ==
    ASSUME UNCHANGED tagVars, NEW a \in Addr, LineInv(a),
           LineOK(Copies(a), blk[extractSet[a]], mshr'[a], wb'[a], l2'[a],
                  mem'[a], latest'[a])
    PROVE  LineInv(a)'
<1>1. sets' = sets /\ blk' = blk
  BY DEF tagVars
<1>2. Copies(a)' = Copies(a) /\ get_set(a, tcOf(a))' = get_set(a, tcOf(a))
  BY <1>1 DEF Copies, get_set
<1> QED BY <1>1, <1>2 DEF LineInv

----------------------------------------------------------------------------
(* The handlers *)

\* A request that misses.
LEMMA MissKeepsLine ==
    ASSUME IInv, NEW a \in Addr, LineInv(a), NEW x \in Addr, NEW cmd \in Cmd,
           mshr[x].st = "none", findBlock(x, tcOf(x)) = NULL,
           l2[x].st = IF cmd = "Upgrade" THEN "S" ELSE "I", Miss(x, cmd)
    PROVE  LineInv(a)'
<1> DEFINE new == [st |-> "pending", cmd |-> cmd, ver |-> 0]
<1>1. /\ UNCHANGED tagVars /\ UNCHANGED <<wb, mem, l2, latest>>
      /\ mshr' = [mshr EXCEPT ![x] = new] /\ mshr \in [Addr -> [st : {"none", "pending", "inService"}, cmd : Cmd, ver : Nat]]
  BY DEF Miss, IInv, TypeOK
<1> DEFINE OK(m) == LineOK(Copies(a), blk[extractSet[a]], m, wb[a], l2[a], mem[a],
                           latest[a])
<1>2. OK(mshr[a])
  BY ZenonT(60) DEF LineInv
<1>3. OK(mshr'[a])
  <2>1. CASE a # x
    BY <1>1, <1>2, <2>1, Zenon
  <2>2. CASE a = x
    <3>1. Copies(a) = {}
      BY <2>2, FoundCopy, ZenonT(60) DEF IInv
    <3>2. /\ mshr'[a].st = "pending" /\ mshr'[a].cmd = cmd
          /\ mshr[a].st = "none" /\ l2[a].st = IF cmd = "Upgrade" THEN "S" ELSE "I"
      BY <1>1, <2>2
    <3> HIDE DEF new
    <3> QED BY <1>2, <3>1, <3>2, Zenon DEF LineOK
  <2> QED BY <2>1, <2>2
<1> HIDE DEF OK
<1>4. LineOK(Copies(a), blk[extractSet[a]], mshr'[a], wb'[a], l2'[a], mem'[a],
             latest'[a])
  BY <1>1, <1>3 DEF OK
<1> QED BY <1>1, <1>4, NoAccessKeepsLine

\* The cache above gets a line, and writes none but this one.
LEMMA Elsewhere ==
    ASSUME IInv, NEW x \in Addr, NEW a \in Addr, a # x
    PROVE  /\ \A l : l2' = [l2 EXCEPT ![x] = l] => l2'[a] = l2[a]
           /\ \A m : mshr' = [mshr EXCEPT ![x] = m] => mshr'[a] = mshr[a]
           /\ \A v : latest' = [latest EXCEPT ![x] = v] => latest'[a] = latest[a]
           /\ \A v : mem' = [mem EXCEPT ![x] = v] => mem'[a] = mem[a]
           /\ \A q : wb' = [wb EXCEPT ![x] = q] => wb'[a] = wb[a]
BY ZenonT(60) DEF IInv, TypeOK

\* The line that an action does change.
LEMMA Here ==
    ASSUME IInv, NEW x \in Addr
    PROVE  /\ \A l : l2' = [l2 EXCEPT ![x] = l] => l2'[x] = l
           /\ \A m : mshr' = [mshr EXCEPT ![x] = m] => mshr'[x] = m
           /\ \A v : latest' = [latest EXCEPT ![x] = v] => latest'[x] = v
           /\ \A v : mem' = [mem EXCEPT ![x] = v] => mem'[x] = v
           /\ \A q : wb' = [wb EXCEPT ![x] = q] => wb'[x] = q
BY DEF IInv, TypeOK

\* A request that hits.
LEMMA HitKeepsLine ==
    ASSUME IInv, NEW a \in Addr, LineInv(a), NEW x \in Addr,
           NEW w, w = findBlock(x, tcOf(x)), w # NULL,
           mshr[x].st = "none",
           \/ l2[x].st = "I" /\ SatisfyRead(x, w)
           \/ l2[x].st = "I" /\ SatisfyFetch(x, w)
           \/ l2[x].st = "I" /\ SatisfyReadEx(x, w)
           \/ l2[x].st = "S" /\ SatisfyUpgrade(x, w)
    PROVE  LineInv(a)'
<1> DEFINE b == blk[extractSet[x]][w]
           q == get_set(x, tcOf(x))
<1>1. TagInv
  BY DEF IInv
<1>2. /\ In(q, w) /\ w \in Way /\ b \in Blk /\ b.tag = x /\ b.valid
      /\ b.threadID = tcOf(x)
  BY <1>1, FoundBlock, Zenon
<1>3. /\ IsReordering(moveToHead(q, w), q, Way)
      /\ IsReordering(HeadThenTail(q, w), q, Way)
  BY <1>1, <1>2, OwnSet, MoveToHeadReorders, HeadThenTailReorders, Zenon
<1>4. a = x => Copies(x) = {w}
  BY <1>1, FoundCopy
<1>5. a = x => LineOK({w}, blk[extractSet[x]], mshr[x], wb[x], l2[x], mem[x], latest[x])
  BY <1>4, ZenonT(60) DEF LineInv
<1>6. UNCHANGED <<mshr, wb, mem>>
  BY ZenonT(60) DEF SatisfyRead, SatisfyFetch, SatisfyReadEx, SatisfyUpgrade
<1>7. a # x => l2'[a] = l2[a] /\ latest'[a] = latest[a]
  BY Elsewhere DEF SatisfyRead, SatisfyFetch, SatisfyReadEx, SatisfyUpgrade,
                   UpgradeAndWrite
<1>8. a # x => wb'[a] = IF b.valid /\ b.tag = a /\ b.dirty
                        THEN Append(wb[a], b.data) ELSE wb[a]
  BY <1>2, <1>6, Zenon
<1> HIDE DEF b, q
<1>9. ASSUME NEW c \in Blk, c.valid => c.tag = x, Update(x, w, c),
             NEW order, IsReordering(order, q, Way), Reorder(x, tcOf(x), order),
             a = x => LineOK(IF c.valid THEN {w} ELSE {}, [u \in {w} |-> c],
                             mshr[x], wb[x], l2'[x], mem[x], latest'[x])
      PROVE  LineInv(a)'
  <2>1. a = x => Copies(x) \subseteq {w}
    BY <1>4, Zenon
  <2> QED BY <1>2, <1>6, <1>7, <1>8, <1>9, <2>1, AccessKeepsLine, Zenon DEF b, q
<1>10. CASE l2[x].st = "I" /\ SatisfyRead(x, w)
  <2> DEFINE c == [b EXCEPT !.dirty = FALSE]
             l == Line(IF b.dirty THEN "M" ELSE "E", b.data)
  <2>1. c \in Blk /\ c.tag = x /\ c.valid /\ ~c.dirty /\ c.data = b.data
    BY <1>2, Zenon DEF Blk
  <2>2. /\ Update(x, w, c) /\ Reorder(x, tcOf(x), moveToHead(q, w))
        /\ l2'[x] = l /\ latest'[x] = latest[x]
    BY <1>10, Here, Zenon DEF SatisfyRead, b, q
  <2>3. l.st \in {"E", "M"} /\ l.ver = b.data
    BY Zenon DEF Line
  <2>4. ASSUME a = x
        PROVE  LineOK({w}, [u \in {w} |-> c], mshr[x], wb[x], l, mem[x], latest[x])
    <3> HIDE DEF c
    <3>1. b.data = latest[x] /\ wb[x] = <<>> /\ (~b.dirty => mem[x] = latest[x])
      BY <1>5, <1>10, <2>4, Zenon DEF LineOK, b
    <3>2. l.st # "M" => ~b.dirty
      BY DEF Line
    <3> HIDE DEF l
    <3> QED BY <2>1, <2>3, <3>1, <3>2, Zenon DEF LineOK
  <2> HIDE DEF c, l
  <2> QED BY <1>3, <1>9, <2>1, <2>2, <2>4, Zenon
<1>11. CASE l2[x].st = "I" /\ SatisfyFetch(x, w)
  <2> DEFINE l == Line("S", b.data)
  <2>1. /\ Reorder(x, tcOf(x), moveToHead(q, w)) /\ blk' = blk
        /\ l2'[x] = l /\ latest'[x] = latest[x]
    BY <1>11, Here, Zenon DEF SatisfyFetch, b, q
  <2>2. Update(x, w, b)
    <3>1. blk = [blk EXCEPT ![extractSet[x]][w] = b]
      BY <1>1, <1>2, OwnSet, Zenon DEF TagInv, TagTypeOK, b
    <3> QED BY <2>1, <3>1 DEF Update
  <2>3. l.st = "S" /\ l.ver = b.data
    BY Zenon DEF Line
  <2>4. ASSUME a = x
        PROVE  LineOK({w}, [u \in {w} |-> b], mshr[x], wb[x], l, mem[x], latest[x])
    <3>1. b.data = latest[x] /\ wb[x] = <<>> /\ (~b.dirty => mem[x] = latest[x])
      BY <1>5, <1>11, <2>4, Zenon DEF LineOK, b
    <3> HIDE DEF l
    <3> QED BY <2>3, <3>1, Zenon DEF LineOK
  <2> HIDE DEF l
  <2> QED BY <1>2, <1>3, <1>9, <2>1, <2>2, <2>4, Zenon
<1>12. CASE l2[x].st = "I" /\ SatisfyReadEx(x, w)
  <2> DEFINE c == Invalidated(b)
             l == Line(IF b.dirty THEN "M" ELSE "E", b.data)
  <2>1. c \in Blk /\ ~c.valid
    BY <1>2, InvalidatedBlock, Zenon
  <2>2. /\ Update(x, w, c) /\ Reorder(x, tcOf(x), HeadThenTail(q, w))
        /\ l2'[x] = l /\ latest'[x] = latest[x]
    BY <1>12, Here, Zenon DEF SatisfyReadEx, b, q
  <2>3. ASSUME a = x
        PROVE  LineOK({}, [u \in {w} |-> c], mshr[x], wb[x], l, mem[x], latest[x])
    <3> HIDE DEF c
    <3>1. b.data = latest[x] /\ wb[x] = <<>> /\ (~b.dirty => mem[x] = latest[x])
      BY <1>5, <1>12, <2>3, Zenon DEF LineOK, b
    <3>2. l.st \in {"E", "M"} /\ l.ver = b.data /\ (l.st # "M" => ~b.dirty)
      BY DEF Line
    <3> HIDE DEF l
    <3> QED BY <3>1, <3>2, Zenon DEF LineOK
  <2> HIDE DEF c, l
  <2> QED BY <1>3, <1>9, <2>1, <2>2, <2>3, Zenon
<1>13. CASE l2[x].st = "S" /\ SatisfyUpgrade(x, w)
  <2> DEFINE c == Invalidated(b)
             l == Line("M", l2[x].ver + 1)
  <2>1. c \in Blk /\ ~c.valid
    BY <1>2, InvalidatedBlock, Zenon
  <2>2. /\ Update(x, w, c) /\ Reorder(x, tcOf(x), HeadThenTail(q, w))
        /\ l2'[x] = l /\ latest'[x] = latest[x] + 1
    BY <1>13, Here, Zenon DEF SatisfyUpgrade, UpgradeAndWrite, b, q
  <2>3. ASSUME a = x
        PROVE  LineOK({}, [u \in {w} |-> c], mshr[x], wb[x], l, mem[x], latest[x] + 1)
    <3> HIDE DEF c
    <3>1. l2[x].ver = latest[x] /\ wb[x] = <<>>
      BY <1>5, <1>13, <2>3, Zenon DEF LineOK
    <3>2. l.st = "M" /\ l.ver = latest[x] + 1
      BY <3>1 DEF Line
    <3> HIDE DEF l
    <3> QED BY <3>1, <3>2, Zenon DEF LineOK
  <2> HIDE DEF c, l
  <2> QED BY <1>3, <1>9, <2>1, <2>2, <2>3, Zenon
<1> QED BY <1>10, <1>11, <1>12, <1>13

\* A line takes the place of a victim.
LEMMA ReplaceKeepsLine ==
    ASSUME IInv, NEW a \in Addr, LineInv(a), NEW x \in Addr,
           findBlock(x, tcOf(x)) = NULL,
           NEW c \in Blk, c.valid => c.tag = x,
           NEW order, IsReordering(order, get_set(x, tcOf(x)), Way),
           Replace(x, c, order),
           a # x => /\ mshr'[a] = mshr[a] /\ l2'[a] = l2[a]
                    /\ mem'[a] = mem[a] /\ latest'[a] = latest[a],
           a = x => \A v : LineOK(IF c.valid THEN {v} ELSE {}, [u \in {v} |-> c],
                                  mshr'[x], wb[x], l2'[x], mem'[x], latest'[x])
    PROVE  LineInv(a)'
<1> DEFINE v == findVictim(x, tcOf(x))
           b == blk[extractSet[x]][v]
<1>1. TagInv
  BY ZenonT(60) DEF IInv
<1>2. In(get_set(x, tcOf(x)), v) /\ v \in Way /\ b \in Blk
  BY <1>1, VictimBlock DEF Victim
<1>3. /\ Reorder(x, tcOf(x), order) /\ Update(x, v, c)
      /\ wb' = IF b.valid /\ b.dirty THEN [wb EXCEPT ![b.tag] = Append(@, b.data)]
               ELSE wb
  BY ZenonT(60) DEF Replace, WithWriteback, Victim
<1> HIDE DEF v, b
<1>4. b.valid => b.tag \in Addr
  BY <1>1, <1>2, OwnSet, ZenonT(60) DEF TagInv, OwnerTagged, b
<1>5. \A y \in Addr : wb'[y] = IF b.valid /\ b.tag = y /\ b.dirty
                              THEN Append(wb[y], b.data) ELSE wb[y]
  BY <1>3, <1>4, ZenonT(60) DEF IInv, TypeOK
<1>6. ASSUME a = x PROVE Copies(x) = {} /\ wb'[x] = wb[x]
  <2>1. Copies(x) = {}
    BY <1>1, <1>6, FoundCopy, ZenonT(60)
  <2>2. ~(b.valid /\ b.tag = x)
    BY <1>2, <2>1, ZenonT(60) DEF Copies, b
  <2> QED BY <1>5, <2>1, <2>2
<1>7. a = x => /\ Copies(x) \subseteq {v}
               /\ LineOK(IF c.valid THEN {v} ELSE {}, [u \in {v} |-> c],
                         mshr'[x], wb'[x], l2'[x], mem'[x], latest'[x])
  BY <1>6, ZenonT(60)
<1>8. a # x => /\ mshr'[a] = mshr[a] /\ l2'[a] = l2[a]
               /\ mem'[a] = mem[a] /\ latest'[a] = latest[a]
               /\ wb'[a] = IF b.valid /\ b.tag = a /\ b.dirty
                           THEN Append(wb[a], b.data) ELSE wb[a]
  BY <1>5, ZenonT(60)
<1> QED BY <1>2, <1>3, <1>7, <1>8, AccessKeepsLine, ZenonT(60) DEF b

\* A step that changes nothing of a.
LEMMA SameLine ==
    ASSUME UNCHANGED tagVars, NEW a \in Addr, LineInv(a),
           mshr'[a] = mshr[a] /\ wb'[a] = wb[a] /\ l2'[a] = l2[a],
           mem'[a] = mem[a] /\ latest'[a] = latest[a]
    PROVE  LineInv(a)'
<1>1. LineOK(Copies(a), blk[extractSet[a]], mshr'[a], wb'[a], l2'[a], mem'[a],
             latest'[a])
  BY DEF LineInv
<1> QED BY <1>1, NoAccessKeepsLine, ZenonT(60)

\* A writeback from above.
LEMMA WritebackKeepsLine ==
    ASSUME IInv, NEW a \in Addr, LineInv(a), NEW x \in Addr, RecvWriteback(x)
    PROVE  LineInv(a)'
<1> DEFINE w == findBlock(x, tcOf(x))
           q == get_set(x, tcOf(x))
           v == findVictim(x, tcOf(x))
           c == Filled(x, tcOf(x), l2[x].ver, TRUE)
<1>1. TagInv /\ l2[x].ver \in Nat /\ l2[x].st = "M"
  BY DEF IInv, TypeOK, RecvWriteback
<1>2. CASE Stop("allocateBlock")
  BY <1>2, SameLine DEF Stop
<1>3. CASE AcceptWriteback(x, w)
  <2>1. /\ c \in Blk /\ c.tag = x /\ c.valid = TRUE /\ c.dirty = TRUE /\ c.data = l2[x].ver
    BY <1>1, FilledBlock, Zenon DEF Filled
  <2>2. /\ UNCHANGED <<mshr, mem, latest>>
        /\ l2'[x] = NoLine /\ (a # x => l2'[a] = l2[a])
    BY <1>3, Here, Elsewhere, ZenonT(60) DEF AcceptWriteback
  <2>3. ASSUME a = x, NEW u
        PROVE  LineOK({u}, [y \in {u} |-> c], mshr[x], wb[x], NoLine, mem[x], latest[x])
    <3>1. NoLine.st = "I"
      BY DEF NoLine
    <3>2. wb[x] = <<>> /\ l2[x].ver = latest[x] /\ mshr[x].st = "none"
      BY <1>1, <2>3, ZenonT(60) DEF LineInv, LineOK, IInv, TypeOK
    <3> HIDE DEF c
    <3> QED BY <2>1, <3>1, <3>2 DEF LineOK
  <2>4. CASE w = NULL
    <3>1. Replace(x, c, moveToHead(q, v))
      BY <1>3, <2>4, Zenon DEF AcceptWriteback
    <3>2. IsReordering(moveToHead(q, v), q, Way)
      BY <1>1, VictimBlock, OwnSet, MoveToHeadReorders, ZenonT(60)
    <3>3. a = x => \A u : LineOK(IF c.valid THEN {u} ELSE {}, [y \in {u} |-> c],
                                 mshr'[x], wb[x], l2'[x], mem'[x], latest'[x])
      <4> HIDE DEF c
      <4> QED BY <2>1, <2>2, <2>3
    <3> HIDE DEF c, q
    <3> QED BY <2>1, <2>2, <2>4, <3>1, <3>2, <3>3, ReplaceKeepsLine, ZenonT(60) DEF q
  <2>5. CASE w # NULL
    <3>1. /\ Reorder(x, tcOf(x), moveToHead(q, w)) /\ Update(x, w, c) /\ wb' = wb
      BY <1>3, <2>5, Zenon DEF AcceptWriteback
    <3>2. In(q, w) /\ blk[extractSet[x]][w].tag = x
      BY <1>1, <2>5, FoundBlock, ZenonT(60)
    <3>3. IsReordering(moveToHead(q, w), q, Way)
      BY <1>1, <3>2, OwnSet, MoveToHeadReorders
    <3>4. a = x => Copies(x) \subseteq {w}
      BY <1>1, <2>5, FoundCopy, Zenon
    <3>5. a = x => /\ Copies(x) \subseteq {w}
                   /\ LineOK(IF c.valid THEN {w} ELSE {}, [y \in {w} |-> c],
                             mshr'[x], wb'[x], l2'[x], mem'[x], latest'[x])
      <4> HIDE DEF c
      <4> QED BY <2>1, <2>2, <2>3, <3>1, <3>4, ZenonT(60)
    <3>6. a # x => /\ mshr'[a] = mshr[a] /\ l2'[a] = l2[a]
                   /\ mem'[a] = mem[a] /\ latest'[a] = latest[a]
                   /\ LET b == blk[extractSet[x]][w]
                      IN  wb'[a] = IF b.valid /\ b.tag = a /\ b.dirty
                                   THEN Append(wb[a], b.data) ELSE wb[a]
      BY <2>2, <3>1, <3>2
    <3> HIDE DEF c, q, w
    <3> QED BY <2>1, <3>1, <3>2, <3>3, <3>5, <3>6, AccessKeepsLine, Zenon DEF q
  <2> QED BY <2>4, <2>5
<1> QED BY <1>2, <1>3 DEF RecvWriteback

\* A fill.  The line is not cached yet if the invariant holds of it.
LEMMA FillKeepsLine ==
    ASSUME IInv, NEW a \in Addr, LineInv(a), NEW x \in Addr, RecvFill(x)
    PROVE  LineInv(a)'
<1> DEFINE w == findBlock(x, tcOf(x))
           q == get_set(x, tcOf(x))
           v == findVictim(x, tcOf(x))
           f == Filled(x, tcOf(x), mshr[x].ver, FALSE)
           g == Granted(x, w # NULL /\ blk[extractSet[x]][w].dirty)
           l == Line(g, mshr[x].ver)
<1>1. /\ TagInv /\ mshr[x].ver \in Nat /\ mshr[x].cmd \in Cmd
      /\ mshr[x].st = "inService" /\ mshr[x].cmd # "Upgrade"
  BY DEF IInv, TypeOK, RecvFill
<1>2. CASE Stop("allocateBlock")
  BY <1>2, SameLine DEF Stop
<1>3. CASE Fill(x, w)
  <2>1. /\ f \in Blk /\ f.tag = x /\ f.valid /\ ~f.dirty /\ f.data = mshr[x].ver
        /\ Invalidated(f) \in Blk /\ ~Invalidated(f).valid
    BY <1>1, FilledBlock, Zenon DEF Filled
  <2>2. /\ mem' = mem /\ latest' = latest
        /\ l2'[x] = l /\ mshr'[x] = NoMSHR
        /\ (a # x => l2'[a] = l2[a] /\ mshr'[a] = mshr[a])
    BY <1>3, Here, Elsewhere, ZenonT(60) DEF Fill
  <2>3. ASSUME a = x
        PROVE  /\ w = NULL /\ l.st \in {"S", "E"} /\ l.ver = latest[x]
               /\ wb[x] = <<>> /\ mem[x] = latest[x] /\ mshr[x].ver = latest[x]
    <3>1. Copies(x) = {} /\ wb[x] = <<>> /\ mem[x] = latest[x]
          /\ mshr[x].ver = latest[x]
      BY <1>1, <2>3 DEF LineInv, LineOK
    <3>2. w = NULL
      <4>1. w # NULL => Copies(x) = {w}
        BY <1>1, <2>3, FoundCopy
      <4> HIDE DEF w
      <4> QED BY <3>1, <4>1
    <3>3. g \in {"S", "E"}
      BY <1>1, <3>2 DEF Granted, Cmd
    <3> QED BY <3>1, <3>2, <3>3, ZenonT(60) DEF Line
  <2> HIDE DEF l
  <2>4. CASE w = NULL
    <3>1. /\ IsReordering(moveToHead(q, v), q, Way)
          /\ IsReordering(HeadThenTail(q, v), q, Way)
      BY <1>1, VictimBlock, OwnSet, MoveToHeadReorders, HeadThenTailReorders
    <3>2. NoMSHR.st = "none"
      BY DEF NoMSHR
    <3>3. CASE mshr[x].cmd = "ReadEx"
      <4>1. Replace(x, Invalidated(f), HeadThenTail(q, v))
        BY <1>3, <2>4, <3>3, Zenon DEF Fill, FillNew
      <4> DEFINE c == Invalidated(f)
      <4>2. a = x => \A u : LineOK(IF c.valid THEN {u} ELSE {}, [y \in {u} |-> c],
                                   mshr'[x], wb[x], l2'[x], mem'[x], latest'[x])
        <5> HIDE DEF c
        <5> QED BY <2>1, <2>2, <2>3, <3>2, Zenon DEF LineOK, c
      <4>3. c \in Blk /\ ~c.valid
        BY <2>1, Zenon
      <4> HIDE DEF c, q
      <4> QED BY <2>2, <2>4, <3>1, <4>1, <4>2, <4>3, ReplaceKeepsLine, Zenon DEF q, c
    <3>4. CASE mshr[x].cmd # "ReadEx"
      <4>1. Replace(x, f, moveToHead(q, v))
        BY <1>3, <2>4, <3>4, ZenonT(60) DEF Fill, FillNew
      <4> HIDE DEF f, q
      <4>2. a = x => \A u : LineOK(IF f.valid THEN {u} ELSE {}, [y \in {u} |-> f],
                                   mshr'[x], wb[x], l2'[x], mem'[x], latest'[x])
        BY <2>1, <2>2, <2>3, <3>2 DEF LineOK
      <4> QED BY <2>1, <2>2, <2>4, <3>1, <4>1, <4>2, ReplaceKeepsLine, Zenon DEF q
    <3> QED BY <3>3, <3>4, ZenonT(60)
  <2>5. CASE w # NULL
    <3> DEFINE b == blk[extractSet[x]][w]
               n == [b EXCEPT !.data = mshr[x].ver]
    <3>1. a # x
      BY <2>3, <2>5, ZenonT(60)
    <3>2. In(q, w) /\ b \in Blk /\ b.tag = x
      BY <1>1, <2>5, FoundBlock
    <3>3. n \in Blk /\ n.tag = x /\ Invalidated(n) \in Blk /\ ~Invalidated(n).valid
      <4>1. n \in Blk /\ n.tag = x
        BY <1>1, <3>2, SMTT(60) DEF Blk
      <4> QED BY <4>1, InvalidatedBlock
    <3>4. /\ mshr'[a] = mshr[a] /\ l2'[a] = l2[a]
          /\ mem'[a] = mem[a] /\ latest'[a] = latest[a]
          /\ wb'[a] = IF b.valid /\ b.tag = a /\ b.dirty
                      THEN Append(wb[a], b.data) ELSE wb[a]
      BY <1>3, <2>2, <2>5, <3>1, <3>2 DEF Fill, FillExisting
    <3>5. CASE mshr[x].cmd = "ReadEx"
      <4>1. Update(x, w, Invalidated(n)) /\ Reorder(x, tcOf(x), moveToTail(q, w))
        BY <1>3, <2>5, <3>5 DEF Fill, FillExisting
      <4>2. IsReordering(moveToTail(q, w), q, Way)
        BY <1>1, <3>2, OwnSet, MoveToTailReorders, Zenon
      <4> DEFINE c == Invalidated(n)
      <4>3. c \in Blk /\ ~c.valid
        BY <3>3
      <4> HIDE DEF c, n, q, w
      <4> QED BY <3>1, <3>2, <3>4, <4>1, <4>2, <4>3, AccessKeepsLine, Zenon DEF q, c
    <3>6. CASE mshr[x].cmd # "ReadEx"
      <4>1. Update(x, w, n) /\ sets' = sets
        BY <1>3, <2>5, <3>6 DEF Fill, FillExisting
      <4>2. IsReordering(q, q, Way) /\ Reorder(x, tcOf(x), q)
        BY <1>1, <4>1, OwnSet DEF IsReordering, Reorder, get_set, TagInv, TagTypeOK
      <4> HIDE DEF n, q, w
      <4> QED BY <3>1, <3>2, <3>3, <3>4, <4>1, <4>2, AccessKeepsLine, Zenon DEF q
    <3> QED BY <3>5, <3>6
  <2> QED BY <2>4, <2>5
<1> QED BY <1>2, <1>3 DEF RecvFill

\* The cache above writes or drops a line, or an upgrade is answered.
LEMMA AboveKeepsLine ==
    ASSUME IInv, NEW a \in Addr, LineInv(a), NEW x \in Addr,
           L2Write(x) \/ L2Drop(x) \/ RecvUpgradeResp(x)
    PROVE  LineInv(a)'
<1>1. UNCHANGED <<tagVars, wb, mem>>
  BY ZenonT(60) DEF L2Write, L2Drop, RecvUpgradeResp
<1>2. CASE a # x
  <2>1. mshr'[a] = mshr[a] /\ l2'[a] = l2[a] /\ latest'[a] = latest[a]
    BY <1>2, Elsewhere DEF L2Write, L2Drop, RecvUpgradeResp, UpgradeAndWrite
  <2> QED BY <1>1, <2>1, SameLine
<1>3. CASE a = x
  <2> DEFINE OK(m, l, last) ==
               LineOK(Copies(a), blk[extractSet[a]], m, wb[a], l, mem[a], last)
  <2>1. OK(mshr[a], l2[a], latest[a]) /\ latest[a] \in Nat
    BY DEF LineInv, IInv, TypeOK
  <2>2. CASE L2Write(x)
    <3> DEFINE l == Line("M", l2[x].ver + 1)
    <3>1. /\ mshr' = mshr /\ l2'[a] = l /\ latest'[a] = latest[a] + 1
          /\ l2[a].st \in {"E", "M"}
      BY <1>3, <2>2, Here, Zenon DEF L2Write, UpgradeAndWrite
    <3>2. l.st = "M" /\ l.ver = l2[a].ver + 1
      BY <1>3 DEF Line
    <3> HIDE DEF l
    <3>3. OK(mshr[a], l, latest[a] + 1)
      BY <2>1, <3>1, <3>2, Zenon DEF LineOK
    <3> QED BY <1>1, <3>1, <3>3, NoAccessKeepsLine, Zenon
  <2>3. CASE L2Drop(x)
    <3>1. /\ mshr' = mshr /\ l2'[a] = NoLine /\ latest' = latest
          /\ l2[a].st \in {"S", "E"} /\ mshr[a].st = "none" /\ NoLine.st = "I"
      BY <1>3, <2>3, Here, Zenon DEF L2Drop, NoLine
    <3>2. OK(mshr[a], NoLine, latest[a])
      BY <2>1, <3>1, Zenon DEF LineOK
    <3> QED BY <1>1, <3>1, <3>2, NoAccessKeepsLine, Zenon
  <2>4. CASE RecvUpgradeResp(x)
    <3> DEFINE l == Line("M", l2[x].ver + 1)
    <3>1. /\ mshr'[a] = NoMSHR /\ l2'[a] = l /\ latest'[a] = latest[a] + 1
          /\ mshr[a].st = "inService" /\ mshr[a].cmd = "Upgrade"
      BY <1>3, <2>4, Here, Zenon DEF RecvUpgradeResp, UpgradeAndWrite
    <3>2. l.st = "M" /\ l.ver = l2[a].ver + 1 /\ NoMSHR.st = "none"
      BY <1>3 DEF Line, NoMSHR
    <3> HIDE DEF l
    <3>3. OK(NoMSHR, l, latest[a] + 1)
      BY <2>1, <3>1, <3>2, Zenon DEF LineOK
    <3> QED BY <1>1, <3>1, <3>3, NoAccessKeepsLine, Zenon
  <2> QED BY <2>2, <2>3, <2>4, SMTT(60)
<1> QED BY <1>2, <1>3

\* A writeback reaches the memory.
LEMMA SendWritebackKeepsLine ==
    ASSUME IInv, NEW a \in Addr, LineInv(a), NEW x \in Addr, SendWriteback(x)
    PROVE  LineInv(a)'
<1>1. UNCHANGED tagVars /\ UNCHANGED <<mshr, l2, latest>>
  BY Zenon DEF SendWriteback
<1>2. CASE a # x
  <2>1. mem'[a] = mem[a] /\ wb'[a] = wb[a]
    BY <1>2, Elsewhere, SMTT(60) DEF SendWriteback
  <2> QED BY <1>1, <2>1, SameLine
<1>3. CASE a = x
  <2>1. /\ wb[a] # <<>> /\ mem'[a] = Head(wb[a]) /\ wb'[a] = Tail(wb[a])
        /\ wb[a] \in Seq(Nat)
    BY <1>3, Here, ZenonT(60) DEF SendWriteback, IInv, TypeOK
  <2>2. LineOK(Copies(a), blk[extractSet[a]], mshr[a], wb[a], l2[a], mem[a], latest[a])
    BY SMTT(60) DEF LineInv
  <2>3. Len(wb[a]) = 1 /\ wb[a][1] = latest[a]
    BY <2>1, <2>2 DEF LineOK
  <2>4. mem'[a] = latest[a] /\ wb'[a] = <<>>
    <3>1. Tail(wb[a]) \in Seq(Nat) /\ Len(Tail(wb[a])) = 0
      BY <2>1, <2>3
    <3>2. Tail(wb[a]) = <<>>
      BY <3>1, NoLength, ZenonT(60)
    <3> QED BY <2>1, <2>3, <3>2
  <2>5. LineOK(Copies(a), blk[extractSet[a]], mshr[a], <<>>, l2[a], latest[a], latest[a])
    BY <2>2 DEF LineOK
  <2>6. LineOK(Copies(a), blk[extractSet[a]], mshr'[a], wb'[a], l2'[a], mem'[a],
               latest'[a])
    BY <1>1, <2>4, <2>5, Zenon
  <2> QED BY <1>1, <2>6, NoAccessKeepsLine
<1> QED BY <1>2, <1>3

\* The miss at the head of a ready list.
LEMMA HeadOfQueue ==
    ASSUME IInv, QueueInv, NEW tc \in TC, missq[tc] # <<>>, NEW x, x = Head(missq[tc])
    PROVE  x \in Addr /\ tcOf(x) = tc /\ mshr[x].st = "pending"
<1>1. missq[tc] \in Seq(Addr)
  BY DEF IInv, TypeOK
<1>2. 1 \in 1..Len(missq[tc]) /\ x = missq[tc][1]
  BY <1>1
<1> QED BY <1>1, <1>2 DEF QueueInv

\* A miss is sent.  No writeback of the line is pending then, so that the memory
\* answers with the last version.
LEMMA SendMissKeepsLine ==
    ASSUME IInv, QueueInv, NEW a \in Addr, LineInv(a), NEW tc \in TC, SendMiss(tc)
    PROVE  LineInv(a)'
<1> DEFINE x == Head(missq[tc])
<1>1. x \in Addr /\ mshr[x].st = "pending" /\ wb[x] = <<>>
  BY HeadOfQueue DEF SendMiss
<1>2. CASE Stop("getBusPacket")
  BY <1>2, SameLine DEF Stop
<1> HIDE DEF x
<1>3. CASE /\ mshr' = [mshr EXCEPT ![x].st = "inService", ![x].ver = mem[x]]
           /\ UNCHANGED <<tagVars, wb, mem, l2, latest, abort>>
  <2>1. CASE a # x
    <3>1. mshr'[a] = mshr[a]
      BY <1>1, <1>3, <2>1 DEF IInv, TypeOK
    <3> QED BY <1>3, <3>1, SameLine, Zenon
  <2>2. CASE a = x
    <3>1. /\ mshr'[a].st = "inService" /\ mshr'[a].cmd = mshr[a].cmd
          /\ mshr'[a].ver = mem[a]
      BY <1>1, <1>3, <2>2 DEF IInv, TypeOK
    <3>2. LineOK(Copies(a), blk[extractSet[a]], mshr'[a], wb[a], l2[a], mem[a], latest[a])
      BY <1>1, <2>2, <3>1, Zenon DEF LineInv, LineOK
    <3>3. LineOK(Copies(a), blk[extractSet[a]], mshr'[a], wb'[a], l2'[a], mem'[a],
                 latest'[a])
      BY <1>3, <3>2
    <3> QED BY <1>3, <3>3, NoAccessKeepsLine, Zenon
  <2> QED BY <2>1, <2>2
<1> QED BY <1>2, <1>3 DEF SendMiss, x

\* inc_size does not touch the lines of Low: what it hands over holds none.
LEMMA IncSizeKeepsLine ==
    ASSUME IInv, NEW a \in LowAddr, LineInv(a), IncSize
    PROVE  LineInv(a)'
<1> DEFINE t == extractSet[a]
           m == sets[1][t][H_assoc]
           q == sets[0][t]
<1>1. a \in Addr /\ t \in Sets /\ tcOf(a) = 0 /\ TagInv
  BY AddrAssumption, LowAddrAssumption, ZenonT(60) DEF tcOf, IInv
<1>2. /\ q \in Seq(Way) /\ sets[1][t] \in Seq(Way) /\ Len(sets[1][t]) = H_assoc
      /\ H_assoc \in Nat /\ H_assoc >= 1 /\ blk \in [Sets -> [Way -> Blk]]
      /\ wb \in [Addr -> Seq(Nat)]
  BY <1>1, AssocAssumption, SMTT(60) DEF TagInv, TagTypeOK, Partitioned, TC, IInv, TypeOK
<1>3. m \in Way /\ In(sets[1][t], m)
  BY <1>2 DEF In
<1>4. /\ blk' = [s \in Sets |-> [blk[s] EXCEPT ![sets[1][s][H_assoc]].dirty = FALSE]]
      /\ UNCHANGED <<mshr, mem, l2, latest>>
      /\ sets'[0][t] = Append(q, m)
  BY <1>1, Zenon DEF IncSize, inc_size, incMoved, TC
<1>5. wb'[a] = wb[a]
  <2>1. ASSUME NEW s \in Sets, blk[s][incMoved(s)].valid,
               blk[s][incMoved(s)].tag = a
        PROVE  FALSE
    <3>1. /\ sets[1][s] \in Seq(Way) /\ Len(sets[1][s]) = H_assoc
          /\ H_assoc \in Nat /\ H_assoc >= 1
      BY <1>1, <1>2 DEF TagInv, TagTypeOK, Partitioned, TC
    <3>2. incMoved(s) \in Way /\ In(sets[1][s], incMoved(s))
      BY <3>1 DEF In, incMoved
    <3> QED BY <1>1, <2>1, <3>2 DEF TagInv, NoLowLineInHigh
  <2> QED BY <1>1, <2>1, ZenonT(60) DEF IncSize
<1> HIDE DEF m
<1>6. \A u \in Way : blk'[t][u] = IF u = m THEN [blk[t][u] EXCEPT !.dirty = FALSE]
                                 ELSE blk[t][u]
  BY <1>1, <1>2, <1>3, <1>4, Zenon DEF m
<1>7. m \notin Copies(a) /\ blk'[t][m].tag = blk[t][m].tag
      /\ blk'[t][m].valid = blk[t][m].valid
  <2>1. m \notin Copies(a)
    BY <1>1, <1>3 DEF TagInv, NoLowLineInHigh, Copies
  <2>2. blk[t][m] \in Blk
    BY <1>1, <1>2, <1>3
  <2> QED BY <1>3, <1>6, <2>1, <2>2, Zenon DEF Blk
<1>8. Copies(a)' = Copies(a)
  BY <1>3, <1>6, <1>7, Zenon DEF Copies, t
<1>9. \A u \in Copies(a) : blk'[t][u] = blk[t][u]
  BY <1>6, <1>7, Zenon DEF Copies
<1>10. \A u : In(q, u) => In(Append(q, m), u)
  <2>1. /\ Len(q) \in Nat /\ Len(Append(q, m)) = Len(q) + 1
        /\ \A i \in 1..Len(q) : Append(q, m)[i] = q[i]
    BY <1>2, <1>3, SMTT(60)
  <2> HIDE DEF q
  <2> QED BY <2>1, SMTT(60) DEF In
<1>11. \A u \in Copies(a)' : In(get_set(a, tcOf(a))', u)
  BY <1>1, <1>4, <1>8, <1>10, ZenonT(60) DEF LineInv, get_set
<1>12. LineOK(Copies(a), blk'[t], mshr[a], wb[a], l2[a], mem[a], latest[a])
  BY <1>9, LineOKSame DEF LineInv
<1>13. LineOK(Copies(a)', blk'[t], mshr'[a], wb'[a], l2'[a], mem'[a], latest'[a])
  BY <1>4, <1>5, <1>8, <1>12, Zenon
<1> QED BY <1>11, <1>13, Zenon DEF LineInv

\* dec_size evicts the lines of Low that it takes away from Low.
LEMMA DecSizeKeepsLine ==
    ASSUME IInv, NEW a \in LowAddr, LineInv(a), DecSize
    PROVE  LineInv(a)'
<1> DEFINE t == extractSet[a]
           m == sets[0][t][L_assoc]
           q == sets[0][t]
           b == blk[t][m]
<1>1. a \in Addr /\ t \in Sets /\ tcOf(a) = 0 /\ TagInv
  BY AddrAssumption, LowAddrAssumption, SMTT(60) DEF tcOf, IInv
<1>2. /\ q \in Seq(Way) /\ Injective(q) /\ Len(q) = L_assoc
      /\ L_assoc \in Nat /\ L_assoc >= 1 /\ blk \in [Sets -> [Way -> Blk]]
      /\ wb \in [Addr -> Seq(Nat)]
  BY <1>1, ZenonT(60) DEF TagInv, TagTypeOK, Partitioned, TC, IInv, TypeOK
<1>3. m \in Way /\ \A u : In(SubSeq(q, 1, L_assoc - 1), u) <=> In(q, u) /\ u # m
  <2> HIDE DEF q, m
  <2>1. /\ q[L_assoc] \in Way
        /\ \A u : In(SubSeq(q, 1, L_assoc - 1), u) <=> In(q, u) /\ u # q[L_assoc]
    BY <1>2, DropBlock
  <2>2. m = q[L_assoc]
    BY DEF m, q
  <2> QED BY <2>1, <2>2
<1>4. /\ blk' = [s \in Sets |-> IF blk[s][sets[0][s][L_assoc]].threadID = 0
                                THEN [blk[s] EXCEPT ![sets[0][s][L_assoc]] = Empty(1)]
                                ELSE blk[s]]
      /\ UNCHANGED <<mshr, mem, l2, latest>>
      /\ sets'[0][t] = SubSeq(q, 1, L_assoc - 1)
  <2>1. sets'[0][t] = SubSeq(q, 1, L_assoc - 1)
    <3>1. dec_size
      BY Zenon DEF DecSize
    <3> QED BY <1>1, <3>1 DEF dec_size, TC
  <2>2. /\ blk' = [s \in Sets |-> IF blk[s][decMoved(s)].threadID = 0
                                  THEN [blk[s] EXCEPT ![decMoved(s)] = Empty(1)]
                                  ELSE blk[s]]
        /\ UNCHANGED <<mshr, mem, l2, latest>>
    BY DEF DecSize
  <2> QED BY <2>1, <2>2, ZenonT(60) DEF decMoved
<1>5. /\ b.valid /\ b.tag = a /\ b.dirty => wb'[a] = Append(wb[a], b.data)
      /\ ~(b.valid /\ b.tag = a /\ b.dirty) => wb'[a] = wb[a]
  <2>1. \A s \in Sets : /\ sets[0][s] \in Seq(Way) /\ Len(sets[0][s]) = L_assoc
    BY <1>1 DEF TagInv, TagTypeOK, Partitioned, TC
  <2>2. \A s \in Sets : decMoved(s) \in Way
    BY <1>2, <2>1, SMTT(60) DEF decMoved
  <2>3. \A s \in Sets : blk[s][decMoved(s)].valid /\ blk[s][decMoved(s)].tag = a
                           => s = t /\ blk[s][decMoved(s)].threadID = 0
    BY <1>1, <2>2 DEF TagInv, OwnerTagged
  <2>4. decMoved(t) = m
    BY DEF decMoved
  <2> QED BY <1>1, <2>3, <2>4, ZenonT(60) DEF DecSize
<1> HIDE DEF m, b
<1>6. \A u \in Way : blk'[t][u] = IF u = m /\ b.threadID = 0 THEN Empty(1)
                                 ELSE blk[t][u]
  BY <1>1, <1>2, <1>3, <1>4, Zenon DEF m, b
<1>7. m \in Copies(a) <=> b.valid /\ b.tag = a
  BY <1>3, ZenonT(60) DEF Copies, b
<1>8. b \in Blk /\ (b.valid /\ b.tag = a => b.threadID = 0)
  BY <1>1, <1>2, <1>3, SMTT(60) DEF b, TagInv, OwnerTagged
<1>9. Copies(a)' = Copies(a) \ {m}
  <2>1. ~Empty(1).valid
    BY ZenonT(60) DEF Empty
  <2>2. \A u \in Way : u \in Copies(a)' <=> u \in Copies(a) /\ u # m
    BY <1>6, <1>7, <1>8, <2>1, SMTT(60) DEF Copies, t, b
  <2> QED BY <2>2 DEF Copies
<1>10. \A u \in Copies(a)' : blk'[t][u] = blk[t][u]
  BY <1>6, <1>9 DEF Copies
<1>11. \A u \in Copies(a)' : In(get_set(a, tcOf(a))', u)
  BY <1>1, <1>3, <1>4, <1>9, Zenon DEF LineInv, get_set
<1> DEFINE C == Copies(a)
<1>12. LineOK(C, blk[t], mshr[a], wb[a], l2[a], mem[a], latest[a])
  BY ZenonT(60) DEF LineInv
<1>13. LineOK(Copies(a)', blk'[t], mshr[a], wb'[a], l2[a], mem[a], latest[a])
  <2>1. CASE m \in C
    <3>1. blk[t][m].data \in Nat /\ wb[a] \in Seq(Nat)
          /\ (blk[t][m].dirty => wb'[a] = Append(wb[a], blk[t][m].data))
          /\ (~blk[t][m].dirty => wb'[a] = wb[a])
      BY <1>1, <1>2, <1>5, <1>7, <1>8, <2>1, Zenon DEF Blk, b
    <3> HIDE DEF C, t
    <3>2. LineOK(C \ {m}, blk'[t], mshr[a], wb'[a], l2[a], mem[a], latest[a])
      BY <1>12, <2>1, <3>1, LineOKEvict, Zenon
    <3> QED BY <1>9, <3>2 DEF C
  <2>2. CASE m \notin C
    <3>1. Copies(a)' = C /\ wb'[a] = wb[a] /\ \A u \in C : blk'[t][u] = blk[t][u]
      BY <1>5, <1>7, <1>9, <1>10, <2>2
    <3> HIDE DEF C, t
    <3> QED BY <1>12, <3>1, LineOKSame, Zenon
  <2> QED BY <2>1, <2>2, SMTT(60)
<1>14. LineOK(Copies(a)', blk'[t], mshr'[a], wb'[a], l2'[a], mem'[a], latest'[a])
  BY <1>4, <1>13, Zenon
<1> QED BY <1>11, <1>14, Zenon DEF LineInv

\* Every step keeps the invariant of every protected line: one case per handler.
LEMMA StepKeepsLines ==
    ASSUME IInv, QueueInv, [Next]_vars,
           NEW a \in Addr, Protected(a), LineInv(a)
    PROVE  LineInv(a)'
<1>1. ASSUME NEW x \in Addr, RecvRead(x) PROVE LineInv(a)'
  BY <1>1, MissKeepsLine, HitKeepsLine, Zenon DEF RecvRead, Cmd
<1>2. ASSUME NEW x \in Addr, RecvFetch(x) PROVE LineInv(a)'
  BY <1>2, MissKeepsLine, HitKeepsLine, Zenon DEF RecvFetch, Cmd
<1>3. ASSUME NEW x \in Addr, RecvReadEx(x) PROVE LineInv(a)'
  BY <1>3, MissKeepsLine, HitKeepsLine, ZenonT(60) DEF RecvReadEx, Cmd
<1>4. ASSUME NEW x \in Addr, RecvUpgrade(x) PROVE LineInv(a)'
  BY <1>4, MissKeepsLine, HitKeepsLine DEF RecvUpgrade, Cmd
<1>5. ASSUME NEW x \in Addr, RecvWriteback(x) PROVE LineInv(a)'
  BY <1>5, WritebackKeepsLine
<1>6. ASSUME NEW x \in Addr, L2Write(x) \/ L2Drop(x) \/ RecvUpgradeResp(x)
      PROVE  LineInv(a)'
  BY <1>6, AboveKeepsLine
<1>7. ASSUME NEW x \in Addr, RecvFill(x) PROVE LineInv(a)'
  BY <1>7, FillKeepsLine
<1>8. ASSUME NEW x \in Addr, SendWriteback(x) PROVE LineInv(a)'
  BY <1>8, SendWritebackKeepsLine
<1>9. ASSUME NEW tc \in TC, SendMiss(tc) PROVE LineInv(a)'
  BY <1>9, SendMissKeepsLine
<1>10. CASE IncSize
  BY <1>10, IncSizeKeepsLine, Zenon DEF IncSize, Protected
<1>11. CASE DecSize
  BY <1>11, DecSizeKeepsLine, ZenonT(60) DEF DecSize, Protected
<1>12. CASE UNCHANGED vars
  BY <1>12, SameLine DEF vars, cacheVars
<1> QED BY <1>1, <1>2, <1>3, <1>4, <1>5, <1>6, <1>7, <1>8, <1>9, <1>10, <1>11,
           <1>12 DEF Next, Request, Response

----------------------------------------------------------------------------
(* The ready lists and the assertions *)

\* The ready lists stay in order: a line is queued when it has no MSHR, leaves the
\* list when it is sent, and its MSHR is freed only after that.
LEMMA StepKeepsQueues ==
    ASSUME IInv, QueueInv, [Next]_vars
    PROVE  QueueInv'
<1>1. /\ missq \in [TC -> Seq(Addr)] /\ \A a \in Addr : tcOf(a) \in TC
      /\ mshr \in [Addr -> [st : {"none", "pending", "inService"}, cmd : Cmd,
                            ver : Nat]]
  BY DEF IInv, TypeOK, tcOf, TC
<1>2. ASSUME missq' = missq,
             \A a \in Addr : mshr[a].st = "pending" => mshr'[a].st = "pending"
      PROVE  QueueInv'
  BY <1>1, <1>2, SMTT(60) DEF QueueInv
<1>3. ASSUME NEW x \in Addr, NEW cmd \in Cmd, mshr[x].st = "none", Miss(x, cmd)
      PROVE  QueueInv'
  <2> DEFINE q == missq[tcOf(x)]
  <2>1. /\ mshr'[x].st = "pending" /\ \A a \in Addr \ {x} : mshr'[a] = mshr[a]
        /\ missq'[tcOf(x)] = Append(q, x)
        /\ \A tc \in TC : tc # tcOf(x) => missq'[tc] = missq[tc]
    BY <1>1, <1>3 DEF Miss
  <2>2. q \in Seq(Addr) /\ ~In(q, x) /\ Injective(q)
    BY <1>1, <1>3 DEF In, QueueInv
  <2>3. LET r == Append(q, x)
        IN  /\ r \in Seq(Addr) /\ Len(r) = Len(q) + 1 /\ Injective(r)
            /\ \A v : In(r, v) <=> In(q, v) \/ v = x
    <3> HIDE DEF q
    <3> QED BY <2>2, AppendBlock
  <2>4. ASSUME NEW tc \in TC, NEW i \in 1..Len(missq'[tc])
        PROVE  tcOf(missq'[tc][i]) = tc /\ mshr'[missq'[tc][i]].st = "pending"
    <3>1. CASE tc = tcOf(x)
      <4> DEFINE y == missq'[tc][i]
      <4>1. In(q, y) \/ y = x
        <5>1. In(Append(q, x), y)
          BY <2>1, <3>1, ZenonT(60) DEF In
        <5> QED BY <2>3, <5>1
      <4>2. In(q, y) => y \in Addr /\ tcOf(y) = tc /\ mshr[y].st = "pending"
        BY <1>1, <3>1, SMTT(60) DEF In, QueueInv
      <4> HIDE DEF y, q
      <4>3. tcOf(y) = tc /\ mshr'[y].st = "pending"
        BY <1>3, <2>1, <3>1, <4>1, <4>2, SMTT(60)
      <4> QED BY <4>3 DEF y
    <3>2. CASE tc # tcOf(x)
      <4>1. missq'[tc] = missq[tc]
        BY <2>1, <3>2
      <4>2. missq[tc][i] \in Addr /\ tcOf(missq[tc][i]) = tc
            /\ mshr[missq[tc][i]].st = "pending"
        <5>1. missq[tc] \in Seq(Addr) /\ i \in 1..Len(missq[tc])
          BY <1>1, <4>1, ZenonT(60)
        <5>2. missq[tc][i] \in Addr
          BY <5>1
        <5> QED BY <5>1, <5>2, ZenonT(60) DEF QueueInv
      <4>3. missq[tc][i] # x
        BY <3>2, <4>2
      <4> QED BY <2>1, <4>1, <4>2, <4>3
    <3> QED BY <3>1, <3>2
  <2>5. \A tc \in TC : Injective(missq'[tc])
    BY <2>1, <2>3, Zenon DEF QueueInv
  <2> QED BY <2>4, <2>5 DEF QueueInv
<1>4. ASSUME NEW x \in Addr,
             RecvRead(x) \/ RecvFetch(x) \/ RecvReadEx(x) \/ RecvUpgrade(x)
      PROVE  QueueInv'
  <2>1. CASE UNCHANGED <<mshr, missq>>
    BY <1>2, <2>1
  <2>2. mshr[x].st = "none"
    BY <1>4, Zenon DEF RecvRead, RecvFetch, RecvReadEx, RecvUpgrade
  <2>3. CASE \E cmd \in Cmd : Miss(x, cmd)
    BY <1>3, <2>2, <2>3, ZenonT(60)
  <2>4. UNCHANGED <<mshr, missq>> \/ \E cmd \in Cmd : Miss(x, cmd)
    BY <1>4 DEF RecvRead, RecvFetch, RecvReadEx, RecvUpgrade, Cmd,
                SatisfyRead, SatisfyFetch, SatisfyReadEx, SatisfyUpgrade
  <2> QED BY <2>1, <2>3, <2>4
<1>5. ASSUME NEW x \in Addr,
             RecvWriteback(x) \/ L2Write(x) \/ L2Drop(x) \/ SendWriteback(x)
      PROVE  QueueInv'
  <2>1. UNCHANGED <<mshr, missq>>
    BY <1>5, Zenon DEF RecvWriteback, AcceptWriteback, Stop, L2Write, L2Drop, SendWriteback
  <2> QED BY <1>2, <2>1
<1>6. ASSUME NEW x \in Addr, RecvFill(x) \/ RecvUpgradeResp(x)
      PROVE  QueueInv'
  <2>1. missq' = missq /\ mshr[x].st = "inService"
        /\ (mshr' = mshr \/ mshr' = [mshr EXCEPT ![x] = NoMSHR])
    BY <1>6, Zenon DEF RecvFill, Fill, Stop, RecvUpgradeResp
  <2>2. \A a \in Addr : mshr[a].st = "pending" => mshr'[a].st = "pending"
    BY <1>1, <2>1, Zenon
  <2> QED BY <1>2, <2>1, <2>2
<1>7. ASSUME NEW tc \in TC, SendMiss(tc) PROVE QueueInv'
  <2> DEFINE x == Head(missq[tc])
             q == missq[tc]
  <2>1. CASE Stop("getBusPacket")
    BY <1>2, <2>1, Zenon DEF Stop
  <2>2. x \in Addr /\ tcOf(x) = tc /\ q # <<>>
    BY <1>7, HeadOfQueue DEF SendMiss
  <2>3. /\ q \in Seq(Addr) /\ Len(q) \in Nat /\ Len(q) >= 1 /\ x = q[1] /\ Injective(q)
        /\ Tail(q) \in Seq(Addr) /\ Len(Tail(q)) = Len(q) - 1
        /\ \A i \in 1..(Len(q) - 1) : Tail(q)[i] = q[i + 1]
    BY <1>1, <2>2 DEF QueueInv
  <2>4. \A y \in TC : \A i \in 1..Len(missq[y]) :
           missq[y][i] \in Addr /\ tcOf(missq[y][i]) = y /\ mshr[missq[y][i]].st = "pending"
    BY <1>1, SMTT(60) DEF QueueInv
  <2> HIDE DEF x
  <2>5. CASE /\ mshr' = [mshr EXCEPT ![x].st = "inService", ![x].ver = mem[x]]
             /\ missq' = [missq EXCEPT ![tc] = Tail(@)]
    <3>1. /\ \A a \in Addr \ {x} : mshr'[a] = mshr[a]
          /\ missq'[tc] = Tail(q) /\ \A y \in TC \ {tc} : missq'[y] = missq[y]
      BY <1>1, <2>2, <2>5
    <3>2. \A y \in TC : Injective(missq'[y])
      <4>1. Injective(Tail(q))
        <5> HIDE DEF q
        <5> SUFFICES ASSUME NEW i \in 1..(Len(q) - 1), NEW j \in 1..(Len(q) - 1),
                            Tail(q)[i] = Tail(q)[j]
                     PROVE  i = j
          BY <2>3 DEF Injective
        <5>1. i + 1 \in 1..Len(q) /\ j + 1 \in 1..Len(q) /\ q[i + 1] = q[j + 1]
          BY <2>3
        <5>2. i + 1 = j + 1
          BY <2>3, <5>1 DEF Injective
        <5> QED BY <5>2
      <4> QED BY <3>1, <4>1 DEF QueueInv
    <3>3. ASSUME NEW y \in TC, NEW i \in 1..Len(missq'[y])
          PROVE  tcOf(missq'[y][i]) = y /\ mshr'[missq'[y][i]].st = "pending"
      <4>1. CASE y = tc
        <5>1. i \in 1..(Len(q) - 1) /\ missq'[y][i] = q[i + 1]
          BY <2>3, <3>1, <4>1, Zenon
        <5>2. i + 1 \in 1..Len(q) /\ 1 \in 1..Len(q) /\ i + 1 # 1
          BY <2>3, <5>1
        <5>3. q[i + 1] # x
          BY <2>3, <5>2, SMTT(60) DEF Injective
        <5> QED BY <2>4, <3>1, <4>1, <5>1, <5>2, <5>3
      <4>2. CASE y # tc
        <5>1. missq'[y] = missq[y]
          BY <3>1, <4>2
        <5>2. missq[y][i] # x
          BY <2>2, <2>4, <4>2, <5>1, ZenonT(60)
        <5> QED BY <2>4, <3>1, <5>1, <5>2
      <4> QED BY <4>1, <4>2, ZenonT(60)
    <3> QED BY <3>2, <3>3 DEF QueueInv
  <2> QED BY <1>7, <2>1, <2>5 DEF SendMiss, x
<1>8. CASE IncSize \/ DecSize \/ UNCHANGED vars
  BY <1>2, <1>8 DEF IncSize, DecSize, vars, cacheVars
<1> QED BY <1>4, <1>5, <1>6, <1>7, <1>8 DEF Next, Request, Response

\* Without resizing a block that is replaced has no MSHR, and a line whose miss is
\* sent is not cached: the assertions of the handlers hold.
LEMMA StepKeepsNoAbort ==
    ASSUME IInv, CoherenceInv, [Next]_vars
    PROVE  NoAbort'
<1> SUFFICES ASSUME static_cache PROVE abort' = "no"
  BY Zenon DEF NoAbort, Next, vars
<1>1. abort = "no" /\ TagInv /\ \A a \in Addr : LineInv(a)
  BY DEF CoherenceInv, NoAbort, Protected, IInv
<1>2. ASSUME NEW x \in Addr PROVE ~VictimInFlight(Victim(x))
  <2> DEFINE v == findVictim(x, tcOf(x))
             b == blk[extractSet[x]][v]
  <2>1. v \in Way /\ extractSet[x] \in Sets
    BY <1>1, VictimBlock, OwnSet
  <2> SUFFICES ASSUME b.valid, mshr[b.tag].st # "none" PROVE FALSE
    BY Zenon DEF VictimInFlight, Victim
  <2>2. b.tag \in Addr /\ extractSet[b.tag] = extractSet[x]
    BY <1>1, <2>1, Zenon DEF TagInv, OwnerTagged
  <2>3. v \in Copies(b.tag)
    BY <2>1, <2>2, ZenonT(60) DEF Copies
  <2>4. LineInv(b.tag)
    BY <1>1, <2>2
  <2> QED BY <2>3, <2>4, Zenon DEF LineInv, LineOK
<1>3. ASSUME NEW x \in Addr, RecvWriteback(x) \/ RecvFill(x) PROVE abort' = "no"
  BY <1>1, <1>2, <1>3, Zenon DEF RecvWriteback, AcceptWriteback, RecvFill, Fill
<1>4. ASSUME NEW tc \in TC, SendMiss(tc) PROVE abort' = "no"
  <2> DEFINE x == Head(missq[tc])
             w == findBlock(x, tcOf(x))
  <2>1. x \in Addr /\ tcOf(x) = tc /\ mshr[x].st = "pending"
    BY <1>4, HeadOfQueue DEF SendMiss, CoherenceInv
  <2>2. LineInv(x) /\ Copies(x) = {}
    BY <1>1, <2>1, Zenon DEF LineInv, LineOK
  <2>3. w # NULL => Copies(x) = {w}
    BY <1>1, <2>1, <2>2, FoundCopy, Zenon
  <2> HIDE DEF w
  <2>4. w = NULL
    BY <2>2, <2>3, ZenonT(60)
  <2> QED BY <1>1, <1>4, <2>1, <2>4 DEF SendMiss, w
<1>5. ASSUME NEW x \in Addr,
             \/ RecvRead(x) \/ RecvFetch(x) \/ RecvReadEx(x) \/ RecvUpgrade(x)
             \/ L2Write(x) \/ L2Drop(x) \/ RecvUpgradeResp(x) \/ SendWriteback(x)
      PROVE  abort' = "no"
  BY <1>1, <1>5 DEF RecvRead, RecvFetch, RecvReadEx, RecvUpgrade, Miss, SatisfyRead,
                    SatisfyFetch, SatisfyReadEx, SatisfyUpgrade, L2Write, L2Drop,
                    RecvUpgradeResp, SendWriteback
<1>6. CASE IncSize \/ DecSize \/ UNCHANGED vars
  BY <1>1, <1>6 DEF IncSize, DecSize, vars, cacheVars
<1> QED BY <1>3, <1>4, <1>5, <1>6, Zenon DEF Next, Request, Response

----------------------------------------------------------------------------
(* Coherence *)

\* The inductive invariant: a line of Low, and every line if there is no resizing,
\* is in at most one way, is in its partition, and everyone who may use its
\* contents has the last version.
THEOREM CoherenceInvariance == Spec => [](IInv /\ CoherenceInv)
<1>1. Init => CoherenceInv
  <2> SUFFICES ASSUME Init PROVE CoherenceInv
    OBVIOUS
  <2>1. QueueInv /\ NoAbort
    BY SMTT(60) DEF Init, QueueInv, NoAbort, Injective
  <2>2. ASSUME NEW a \in Addr PROVE LineInv(a)
    <3>1. \A w \in Way : ~blk[extractSet[a]][w].valid
      <4>1. \A s \in Sets, w \in Way : ~blk[s][w].valid
        BY DEF Init, TagsInit, Empty
      <4> QED BY <4>1, AddrAssumption, ZenonT(60)
    <3>2. Copies(a) = {}
      BY <3>1 DEF Copies
    <3>3. /\ mshr[a].st = "none" /\ wb[a] = <<>> /\ l2[a].st = "I"
          /\ mem[a] = 0 /\ latest[a] = 0
      BY DEF Init, NoMSHR, NoLine
    <3> QED BY <3>2, <3>3 DEF LineInv, LineOK
  <2> QED BY <2>1, <2>2 DEF CoherenceInv
<1>2. IInv /\ CoherenceInv /\ [Next]_vars => CoherenceInv'
  <2> SUFFICES ASSUME IInv, CoherenceInv, [Next]_vars PROVE CoherenceInv'
    OBVIOUS
  <2>1. static_cache' = static_cache
    BY DEF Next, vars
  <2>2. \A a \in Addr : Protected(a)' => LineInv(a)'
    BY <2>1, StepKeepsLines DEF CoherenceInv, Protected
  <2>3. QueueInv'
    BY StepKeepsQueues DEF CoherenceInv
  <2> QED BY <2>2, <2>3, StepKeepsNoAbort DEF CoherenceInv
<1> QED BY <1>1, <1>2, Invariance, PTL DEF Spec

\* A consistent line is coherent.
LEMMA LineIsCoherent ==
    ASSUME IInv, NEW a \in Addr, LineInv(a)
    PROVE  Coherent(a)
<1> DEFINE w == findBlock(a, tcOf(a))
           b == blk[extractSet[a]]
<1>1. LineOK(Copies(a), b, mshr[a], wb[a], l2[a], mem[a], latest[a])
  BY Zenon DEF LineInv
<1>2. wb[a] \in Seq(Nat)
  BY DEF IInv, TypeOK
<1>3. (w = NULL => Copies(a) = {}) /\ (w # NULL => Copies(a) = {w})
  BY FoundCopy DEF IInv
<1> HIDE DEF w, b
<1>4. Owned(a) = latest[a]
  <2>1. Owned(a) = IF l2[a].st = "M" THEN l2[a].ver
                   ELSE IF w # NULL /\ b[w].dirty THEN b[w].data
                   ELSE IF wb[a] # <<>> THEN wb[a][Len(wb[a])] ELSE mem[a]
    BY Zenon DEF Owned, w, b
  <2>2. CASE l2[a].st = "M"
    BY <1>1, <2>1, <2>2, ZenonT(60) DEF LineOK
  <2>3. CASE l2[a].st # "M" /\ w # NULL /\ b[w].dirty
    BY <1>1, <1>3, <2>1, <2>3 DEF LineOK
  <2>4. CASE l2[a].st # "M" /\ ~(w # NULL /\ b[w].dirty) /\ wb[a] # <<>>
    BY <1>1, <2>1, <2>4, ZenonT(60) DEF LineOK
  <2>5. CASE l2[a].st # "M" /\ ~(w # NULL /\ b[w].dirty) /\ wb[a] = <<>>
    BY <1>1, <1>3, <2>1, <2>5 DEF LineOK
  <2> QED BY <2>2, <2>3, <2>4, <2>5, Zenon
<1>5. Len(wb[a]) <= 1
  <2>1. wb[a] = <<>> \/ Len(wb[a]) = 1
    BY <1>1, Zenon DEF LineOK
  <2>2. CASE wb[a] = <<>>
    <3>1. Len(wb[a]) = 0
      BY <2>2
    <3> QED BY <3>1
  <2>3. CASE Len(wb[a]) = 1
    BY <2>3, SMTT(60)
  <2> QED BY <2>1, <2>2, <2>3
<1>6. /\ l2[a].st # "I" => l2[a].ver = latest[a]
      /\ mshr[a].st = "inService" /\ mshr[a].cmd # "Upgrade"
            => mshr[a].ver = latest[a]
      /\ l2[a].st \in {"I", "S"} /\ w # NULL => b[w].data = latest[a]
  BY <1>1, <1>3 DEF LineOK
<1> QED BY <1>4, <1>5, <1>6, Zenon DEF Coherent, w, b

\* No write of Low is lost and no copy of it is stale where a handler can read it,
\* however its misses, fills, writebacks and the resizes cross; without resizing
\* the same holds for High.
THEOREM LinesStayCoherent == Spec => []LinesCoherent
<1>1. IInv /\ CoherenceInv => LinesCoherent
  BY LineIsCoherent DEF CoherenceInv, LinesCoherent, Protected
<1> QED BY <1>1, CoherenceInvariance, PTL

\* Without resizing no tag is valid twice in a partition.
THEOREM TagsAreUnique == Spec => []UniqueTags
<1>1. ASSUME IInv, CoherenceInv PROVE UniqueTags
  <2> SUFFICES ASSUME static_cache, NEW tc \in TC, NEW s \in Sets,
                      NEW i \in 1..Len(sets[tc][s]), NEW j \in 1..Len(sets[tc][s]),
                      blk[s][sets[tc][s][i]].valid, blk[s][sets[tc][s][j]].valid,
                      blk[s][sets[tc][s][i]].tag = blk[s][sets[tc][s][j]].tag
               PROVE  i = j
    BY Zenon DEF UniqueTags
  <2> DEFINE v == sets[tc][s][i]
             w == sets[tc][s][j]
             a == blk[s][v].tag
  <2>1. v \in Way /\ w \in Way /\ Injective(sets[tc][s])
    <3>1. sets[tc][s] \in Seq(Way)
      BY <1>1, Zenon DEF IInv, TagInv, TagTypeOK
    <3>2. Injective(sets[tc][s])
      BY <1>1, ZenonT(60) DEF IInv, TagInv, Partitioned, TC
    <3>3. v \in Way /\ w \in Way
      BY <3>1
    <3> QED BY <3>2, <3>3, Zenon
  <2>2. a \in Addr /\ extractSet[a] = s
    BY <1>1, <2>1, Zenon DEF IInv, TagInv, OwnerTagged
  <2>3. v \in Copies(a) /\ w \in Copies(a)
    BY <2>1, <2>2, Zenon DEF Copies
  <2>4. LineInv(a)
    BY <1>1, <2>2, Zenon DEF CoherenceInv, Protected
  <2>5. v = w
    BY <2>3, <2>4, Zenon DEF LineInv, LineOK
  <2> QED BY <2>1, <2>5 DEF Injective
<1> QED BY <1>1, CoherenceInvariance, PTL

\* Without resizing no assertion of allocateBlock or getBusPacket fails.
THEOREM AssertionsHold == Spec => []NoAbort
BY CoherenceInvariance, PTL DEF CoherenceInv

----------------------------------------------------------------------------
(* The cache implements a memory *)

Pending(a) == mshr[a].st # "none"

\* What a step may do to a line as LineMemory sees it: nothing, or the action of
\* the same name.
SeesNothing(a) ==
    /\ latest'[a] = latest[a] /\ Copy(a)' = Copy(a) /\ (Pending(a)' <=> Pending(a))

SeesRequest(a) ==
    /\ ~Pending(a) /\ Pending(a)' /\ latest'[a] = latest[a] /\ Copy(a)' = Copy(a)

SeesLoad(a) ==
    /\ Copy(a) = <<>> /\ Copy(a)' = <<latest[a]>>
    /\ ~Pending(a)' /\ latest'[a] = latest[a]

SeesStore(a) ==
    /\ Copy(a) = <<latest[a]>> /\ Copy(a)' = <<latest[a] + 1>>
    /\ ~Pending(a)' /\ latest'[a] = latest[a] + 1

SeesEvict(a) ==
    /\ Copy(a) # <<>> /\ Copy(a)' = <<>>
    /\ ~Pending(a) /\ ~Pending(a)' /\ latest'[a] = latest[a]

SeesStep(a) == SeesNothing(a) \/ SeesRequest(a) \/ SeesLoad(a) \/ SeesStore(a)
               \/ SeesEvict(a)

\* A line whose MSHR, version and line above do not change.
LEMMA SameIsNothing ==
    ASSUME NEW a \in Addr, latest'[a] = latest[a], l2'[a] = l2[a],
           mshr'[a].st # "none" <=> mshr[a].st # "none"
    PROVE  SeesNothing(a)
BY DEF SeesNothing, Copy, Pending

\* The fields of the line above that an action changes.
LEMMA LineHere ==
    ASSUME IInv, NEW x \in Addr
    PROVE  \A st, v : l2' = [l2 EXCEPT ![x] = Line(st, v)] => l2'[x].st = st /\ l2'[x].ver = v
<1> SUFFICES ASSUME NEW st, NEW v, l2' = [l2 EXCEPT ![x] = Line(st, v)]
             PROVE  l2'[x].st = st /\ l2'[x].ver = v
  BY ZenonT(60)
<1> DEFINE r == l2'[x]
<1>1. r = Line(st, v)
  BY Here, Zenon
<1> HIDE DEF r
<1>2. r.st = st /\ r.ver = v
  BY <1>1 DEF Line
<1> QED BY <1>2, Zenon DEF r

\* A request that hits, or that misses.
LEMMA RequestStep ==
    ASSUME IInv, NEW x \in Addr, mshr[x].st = "none", NEW cmd \in Cmd,
           NEW w, w = findBlock(x, tcOf(x)),
           \/ w = NULL /\ Miss(x, cmd)
           \/ /\ w # NULL /\ l2[x].st = "I"
              /\ SatisfyRead(x, w) \/ SatisfyFetch(x, w) \/ SatisfyReadEx(x, w)
           \/ w # NULL /\ l2[x].st = "S" /\ SatisfyUpgrade(x, w)
    PROVE  /\ \A a \in Addr \ {x} : SeesNothing(a)
           /\ LineInv(x) => SeesStep(x)
<1> DEFINE b == blk[extractSet[x]][w]
<1>1. CASE w = NULL /\ Miss(x, cmd)
  <2> DEFINE m == [st |-> "pending", cmd |-> cmd, ver |-> 0]
  <2>1. latest' = latest /\ l2' = l2 /\ mshr' = [mshr EXCEPT ![x] = m]
    BY <1>1, ZenonT(60) DEF Miss
  <2> HIDE DEF m
  <2>2. \A a \in Addr \ {x} : mshr'[a] = mshr[a]
    BY <2>1, Elsewhere
  <2>3. mshr'[x] = m /\ m.st = "pending"
    BY <2>1, Here, ZenonT(60) DEF m
  <2>4. SeesRequest(x)
    BY <2>1, <2>3, ZenonT(60) DEF SeesRequest, Copy, Pending
  <2> QED BY <2>1, <2>2, <2>4, SameIsNothing, Zenon DEF SeesStep
<1>2. CASE /\ w # NULL /\ l2[x].st = "I"
           /\ SatisfyRead(x, w) \/ SatisfyFetch(x, w) \/ SatisfyReadEx(x, w)
  <2>1. /\ latest' = latest /\ mshr' = mshr
        /\ \E st \in {"S", "E", "M"} : l2' = [l2 EXCEPT ![x] = Line(st, b.data)]
    BY <1>2 DEF SatisfyRead, SatisfyFetch, SatisfyReadEx
  <2>6. PICK st \in {"S", "E", "M"} : l2' = [l2 EXCEPT ![x] = Line(st, b.data)]
    BY <2>1, Zenon
  <2>2. \A a \in Addr \ {x} : l2'[a] = l2[a]
    BY <2>6, Elsewhere, Zenon
  <2>3. l2'[x].st # "I" /\ l2'[x].ver = b.data
    <3> HIDE DEF b
    <3>1. l2'[x].st = st /\ l2'[x].ver = b.data
      BY <2>6, LineHere, ZenonT(60)
    <3>2. st # "I"
      BY <2>6, Zenon
    <3> QED BY <3>1, <3>2, Zenon
  <2>4. LineInv(x) => b.data = latest[x]
    <3>1. LineInv(x) => Copies(x) = {w}
      BY <1>2, FoundCopy, Zenon DEF IInv
    <3> QED BY <1>2, <3>1, Zenon DEF LineInv, LineOK
  <2>5. LineInv(x) => SeesLoad(x)
    BY <1>2, <2>1, <2>3, <2>4, Zenon DEF SeesLoad, Copy, Pending
  <2> QED BY <2>1, <2>2, <2>5, SameIsNothing, ZenonT(60) DEF SeesStep
<1>3. CASE w # NULL /\ l2[x].st = "S" /\ SatisfyUpgrade(x, w)
  <2>1. /\ latest' = [latest EXCEPT ![x] = latest[x] + 1] /\ mshr' = mshr
        /\ l2' = [l2 EXCEPT ![x] = Line("M", l2[x].ver + 1)]
    BY <1>3, ZenonT(60) DEF SatisfyUpgrade, UpgradeAndWrite
  <2>2. \A a \in Addr \ {x} : l2'[a] = l2[a] /\ latest'[a] = latest[a]
    BY <2>1, Elsewhere
  <2>3. l2'[x].st = "M" /\ l2'[x].ver = l2[x].ver + 1 /\ latest'[x] = latest[x] + 1
    <3>1. l2'[x].st = "M" /\ l2'[x].ver = l2[x].ver + 1
      BY <2>1, LineHere, ZenonT(60)
    <3> QED BY <2>1, <3>1, Here, Zenon
  <2>4. LineInv(x) => l2[x].ver = latest[x]
    BY <1>3, Zenon DEF LineInv, LineOK
  <2>5. LineInv(x) => SeesStore(x)
    BY <1>3, <2>1, <2>3, <2>4, Zenon DEF SeesStore, Copy, Pending
  <2> QED BY <2>1, <2>2, <2>5, SameIsNothing, Zenon DEF SeesStep
<1> QED BY <1>1, <1>2, <1>3, Zenon

\* The other steps of a line.
LEMMA OtherStep ==
    ASSUME IInv, NEW x \in Addr,
           \/ RecvWriteback(x) \/ L2Write(x) \/ L2Drop(x) \/ RecvFill(x)
           \/ RecvUpgradeResp(x) \/ SendWriteback(x)
    PROVE  /\ \A a \in Addr \ {x} : SeesNothing(a)
           /\ LineInv(x) => SeesStep(x)
<1>1. CASE Stop("allocateBlock") \/ SendWriteback(x)
  <2>1. UNCHANGED <<latest, l2, mshr>>
    BY <1>1, Zenon DEF Stop, SendWriteback
  <2> QED BY <2>1, SameIsNothing, Zenon DEF SeesStep
<1>2. CASE RecvWriteback(x) /\ ~Stop("allocateBlock")
  <2>1. /\ UNCHANGED <<latest, mshr>> /\ l2[x].st = "M" /\ NoLine.st = "I"
        /\ l2' = [l2 EXCEPT ![x] = NoLine]
    BY <1>2, Zenon DEF RecvWriteback, AcceptWriteback, NoLine
  <2>2. l2'[x].st = "I" /\ \A a \in Addr \ {x} : l2'[a] = l2[a]
    BY <2>1, Here, Elsewhere, Zenon
  <2>3. LineInv(x) => mshr[x].st = "none"
    BY <2>1, Zenon DEF LineInv, LineOK
  <2>4. LineInv(x) => SeesEvict(x)
    BY <2>1, <2>2, <2>3, Zenon DEF SeesEvict, Copy, Pending
  <2> QED BY <2>1, <2>2, <2>4, SameIsNothing, Zenon DEF SeesStep
<1>3. CASE L2Drop(x)
  <2>1. /\ UNCHANGED <<latest, mshr>> /\ l2[x].st # "I" /\ NoLine.st = "I"
        /\ l2' = [l2 EXCEPT ![x] = NoLine] /\ mshr[x].st = "none"
    BY <1>3, Zenon DEF L2Drop, NoLine
  <2>2. l2'[x].st = "I" /\ \A a \in Addr \ {x} : l2'[a] = l2[a]
    BY <2>1, Here, Elsewhere, Zenon
  <2>3. SeesEvict(x)
    BY <2>1, <2>2, Zenon DEF SeesEvict, Copy, Pending
  <2> QED BY <2>1, <2>2, <2>3, SameIsNothing, Zenon DEF SeesStep
<1>4. CASE L2Write(x) \/ RecvUpgradeResp(x)
  <2>1. /\ latest' = [latest EXCEPT ![x] = latest[x] + 1]
        /\ l2' = [l2 EXCEPT ![x] = Line("M", l2[x].ver + 1)]
    BY <1>4, ZenonT(60) DEF L2Write, RecvUpgradeResp, UpgradeAndWrite
  <2>2. \A a \in Addr \ {x} : /\ l2'[a] = l2[a] /\ latest'[a] = latest[a]
                              /\ mshr'[a] = mshr[a]
    BY <1>4, <2>1, Elsewhere, SMTT(60) DEF L2Write, RecvUpgradeResp
  <2>3. l2'[x].st = "M" /\ l2'[x].ver = l2[x].ver + 1 /\ latest'[x] = latest[x] + 1
    <3>1. l2'[x].st = "M" /\ l2'[x].ver = l2[x].ver + 1
      BY <2>1, LineHere, ZenonT(60)
    <3> QED BY <2>1, <3>1, Here, Zenon
  <2>4. LineInv(x) => l2[x].st # "I" /\ l2[x].ver = latest[x] /\ mshr'[x].st = "none"
    <3>1. CASE L2Write(x)
      BY <3>1, Zenon DEF L2Write, LineInv, LineOK
    <3>2. CASE RecvUpgradeResp(x)
      <4>1. mshr'[x] = NoMSHR /\ NoMSHR.st = "none" /\ mshr[x].st = "inService"
            /\ mshr[x].cmd = "Upgrade"
        BY <3>2, Here, Zenon DEF RecvUpgradeResp, NoMSHR
      <4> QED BY <4>1, Zenon DEF LineInv, LineOK
    <3> QED BY <1>4, <3>1, <3>2, Zenon
  <2>5. LineInv(x) => SeesStore(x)
    BY <2>3, <2>4, Zenon, SMTT(60) DEF SeesStore, Copy, Pending
  <2> QED BY <2>2, <2>5, SameIsNothing, Zenon DEF SeesStep
<1>5. CASE RecvFill(x) /\ ~Stop("allocateBlock")
  <2> DEFINE w == findBlock(x, tcOf(x))
             g == Granted(x, w # NULL /\ blk[extractSet[x]][w].dirty)
  <2>1. /\ latest' = latest /\ mshr' = [mshr EXCEPT ![x] = NoMSHR]
        /\ l2' = [l2 EXCEPT ![x] = Line(g, mshr[x].ver)]
        /\ mshr[x].st = "inService" /\ mshr[x].cmd # "Upgrade"
    BY <1>5, Zenon DEF RecvFill, Fill
  <2>2. g # "I"
    BY <2>1 DEF Granted, IInv, TypeOK, Cmd
  <2> HIDE DEF g, w
  <2>3. \A a \in Addr \ {x} : l2'[a] = l2[a] /\ mshr'[a] = mshr[a]
    BY <2>1, Elsewhere, Zenon
  <2>4. l2'[x].st # "I" /\ l2'[x].ver = mshr[x].ver /\ mshr'[x].st = "none"
    <3>1. l2'[x].st = g /\ l2'[x].ver = mshr[x].ver
      BY <2>1, LineHere, ZenonT(60)
    <3>2. mshr'[x] = NoMSHR /\ NoMSHR.st = "none"
      BY <2>1, Here, Zenon DEF NoMSHR
    <3> QED BY <2>2, <3>1, <3>2, Zenon
  <2>5. LineInv(x) => l2[x].st = "I" /\ mshr[x].ver = latest[x]
    BY <2>1, Zenon DEF LineInv, LineOK
  <2>6. LineInv(x) => SeesLoad(x)
    BY <2>1, <2>4, <2>5, Zenon DEF SeesLoad, Copy, Pending
  <2> QED BY <2>1, <2>3, <2>6, SameIsNothing DEF SeesStep
<1> QED BY <1>1, <1>2, <1>3, <1>4, <1>5, Zenon

\* Every step is seen on one line at most, where it is a step of the memory if the
\* line is protected.
LEMMA StepOfMemory ==
    ASSUME IInv, CoherenceInv, [Next]_vars
    PROVE  \/ \A a \in Addr : SeesNothing(a)
           \/ \E x \in Addr : /\ \A a \in Addr \ {x} : SeesNothing(a)
                              /\ Protected(x) => SeesStep(x)
<1>1. \A x \in Addr : Protected(x) => LineInv(x)
  BY DEF CoherenceInv
<1>2. ASSUME NEW x \in Addr, RecvRead(x)
      PROVE  (\A a \in Addr \ {x} : SeesNothing(a)) /\ (LineInv(x) => SeesStep(x))
  BY <1>2, RequestStep, Zenon DEF RecvRead, Cmd
<1>3. ASSUME NEW x \in Addr, RecvFetch(x)
      PROVE  (\A a \in Addr \ {x} : SeesNothing(a)) /\ (LineInv(x) => SeesStep(x))
  BY <1>3, RequestStep, Zenon DEF RecvFetch, Cmd
<1>4. ASSUME NEW x \in Addr, RecvReadEx(x)
      PROVE  (\A a \in Addr \ {x} : SeesNothing(a)) /\ (LineInv(x) => SeesStep(x))
  BY <1>4, RequestStep, Zenon DEF RecvReadEx, Cmd
<1>5. ASSUME NEW x \in Addr, RecvUpgrade(x)
      PROVE  (\A a \in Addr \ {x} : SeesNothing(a)) /\ (LineInv(x) => SeesStep(x))
  BY <1>5, RequestStep, Zenon DEF RecvUpgrade, Cmd
<1>6. ASSUME NEW tc \in TC, SendMiss(tc) PROVE \A a \in Addr : SeesNothing(a)
  <2> DEFINE x == Head(missq[tc])
  <2>1. UNCHANGED <<latest, l2>>
        /\ (mshr' = mshr \/ mshr' = [mshr EXCEPT ![x].st = "inService", ![x].ver = mem[x]])
    BY <1>6 DEF SendMiss, Stop
  <2>2. x \in Addr /\ mshr[x].st = "pending"
    BY <1>6, HeadOfQueue DEF SendMiss, CoherenceInv
  <2> HIDE DEF x
  <2>3. \A a \in Addr : mshr'[a].st # "none" <=> mshr[a].st # "none"
    BY <2>1, <2>2, ZenonT(60) DEF IInv, TypeOK
  <2> QED BY <2>1, <2>3, SameIsNothing
<1>7. ASSUME IncSize \/ DecSize \/ UNCHANGED vars PROVE \A a \in Addr : SeesNothing(a)
  <2>1. UNCHANGED <<latest, l2, mshr>>
    BY <1>7, SMTT(60) DEF IncSize, DecSize, vars, cacheVars
  <2> QED BY <2>1, SameIsNothing
<1>8. ASSUME NEW x \in Addr, Request(x) \/ Response(x) \/ SendWriteback(x)
      PROVE  (\A a \in Addr \ {x} : SeesNothing(a)) /\ (LineInv(x) => SeesStep(x))
  BY <1>2, <1>3, <1>4, <1>5, <1>8, OtherStep DEF Request, Response
<1>9. CASE \E x \in Addr : Request(x) \/ Response(x) \/ SendWriteback(x)
  BY <1>1, <1>8, <1>9, ZenonT(60)
<1> QED BY <1>6, <1>7, <1>9 DEF Next

\* No line is held, asked for or written at the start.
LEMMA InitIsEmpty ==
    ASSUME Init, NEW a \in Addr
    PROVE  latest[a] = 0 /\ Copy(a) = <<>> /\ (mshr[a].st # "none") = FALSE
<1>1. mshr[a] = NoMSHR /\ l2[a] = NoLine /\ latest[a] = 0
  BY DEF Init
<1> QED BY <1>1 DEF Copy, NoMSHR, NoLine

\* Low cannot tell the cache from a memory, however its partition is resized: the
\* cache implements LineMemory for the lines of Low.
THEOREM LowImplementsMemory == Spec => LowSeesMemory
<1>1. Init => LowMemory!Init
  BY LowAddrAssumption, InitIsEmpty, Zenon DEF LowMemory!Init
<1>2. IInv /\ CoherenceInv /\ [Next]_vars => [LowMemory!Next]_(LowMemory!vars)
  <2> SUFFICES ASSUME IInv, CoherenceInv, [Next]_vars
               PROVE  [LowMemory!Next]_(LowMemory!vars)
    BY ZenonT(60)
  <2>1. CASE \A a \in LowAddr : SeesNothing(a)
    BY <2>1 DEF LowMemory!vars, SeesNothing, Pending
  <2>2. ASSUME NEW x \in LowAddr, \A a \in LowAddr \ {x} : SeesNothing(a), SeesStep(x)
        PROVE  [LowMemory!Next]_(LowMemory!vars)
    <3>1. \A a \in LowAddr \ {x} : /\ latest'[a] = latest[a] /\ Copy(a)' = Copy(a)
                                   /\ Pending(a)' <=> Pending(a)
      BY <2>2 DEF SeesNothing
    <3>2. CASE SeesNothing(x)
      BY <2>1, <2>2, <3>2
    <3>3. CASE SeesRequest(x)
      <4>1. LowMemory!Request(x)
        BY <3>1, <3>3, Zenon DEF LowMemory!Request, SeesRequest, Pending
      <4> QED BY <4>1, Zenon DEF LowMemory!Next
    <3>4. CASE SeesLoad(x)
      <4>1. LowMemory!Load(x)
        BY <3>1, <3>4, Zenon DEF LowMemory!Load, SeesLoad, Pending
      <4> QED BY <4>1 DEF LowMemory!Next
    <3>5. CASE SeesStore(x)
      <4>1. LowMemory!Store(x)
        BY <3>1, <3>5, Zenon DEF LowMemory!Store, SeesStore, Pending
      <4> QED BY <4>1 DEF LowMemory!Next
    <3>6. CASE SeesEvict(x)
      <4>1. LowMemory!Evict(x)
        BY <3>1, <3>6, Zenon DEF LowMemory!Evict, SeesEvict, Pending
      <4> QED BY <4>1 DEF LowMemory!Next
    <3> QED BY <2>2, <3>2, <3>3, <3>4, <3>5, <3>6, ZenonT(60) DEF SeesStep
  <2> QED BY <2>1, <2>2, StepOfMemory, LowAddrAssumption DEF Protected
<1> QED BY <1>1, <1>2, CoherenceInvariance, PTL DEF Spec, LowMemory!Spec, LowSeesMemory

\* Without resizing neither compartment can tell the cache from a memory.
THEOREM AllImplementMemory == Spec => AllSeeMemory
<1>1. Init => AllMemory!Init
  BY InitIsEmpty, Zenon DEF Init, AllMemory!Init
<1>2. IInv /\ CoherenceInv /\ [Next]_vars
         => [static_cache => AllMemory!Next]_(AllMemory!vars)
  <2> SUFFICES ASSUME IInv, CoherenceInv, [Next]_vars, static_cache
               PROVE  [AllMemory!Next]_(AllMemory!vars)
    BY SMTT(60)
  <2>0. latest \in [Addr -> Nat] /\ latest' \in [Addr -> Nat]
    BY StepKeepsTypes, ZenonT(60) DEF IInv, TypeOK, RestTypeOK
  <2>1. CASE \A a \in Addr : SeesNothing(a)
    BY <2>0, <2>1 DEF AllMemory!vars, SeesNothing, Pending
  <2>2. ASSUME NEW x \in Addr, \A a \in Addr \ {x} : SeesNothing(a), SeesStep(x)
        PROVE  [AllMemory!Next]_(AllMemory!vars)
    <3>1. \A a \in Addr \ {x} : /\ latest'[a] = latest[a] /\ Copy(a)' = Copy(a)
                                /\ Pending(a)' <=> Pending(a)
      BY <2>2 DEF SeesNothing
    <3>2. CASE SeesNothing(x)
      BY <2>1, <2>2, <3>2
    <3>3. CASE SeesRequest(x)
      <4>0. latest' = latest
        BY <2>0, <3>1, <3>3 DEF SeesRequest
      <4>1. AllMemory!Request(x)
        BY <4>0, <3>1, <3>3, Zenon DEF AllMemory!Request, SeesRequest, Pending
      <4> QED BY <4>1 DEF AllMemory!Next
    <3>4. CASE SeesLoad(x)
      <4>0. latest' = latest
        BY <2>0, <3>1, <3>4 DEF SeesLoad
      <4>1. AllMemory!Load(x)
        BY <4>0, <3>1, <3>4, Zenon DEF AllMemory!Load, SeesLoad, Pending
      <4> QED BY <4>1 DEF AllMemory!Next
    <3>5. CASE SeesStore(x)
      <4>1. AllMemory!Store(x)
        BY <2>0, <3>1, <3>5, Zenon DEF AllMemory!Store, SeesStore, Pending
      <4> QED BY <4>1 DEF AllMemory!Next
    <3>6. CASE SeesEvict(x)
      <4>0. latest' = latest
        BY <2>0, <3>1, <3>6 DEF SeesEvict
      <4>1. AllMemory!Evict(x)
        BY <4>0, <3>1, <3>6, Zenon DEF AllMemory!Evict, SeesEvict, Pending
      <4> QED BY <4>1 DEF AllMemory!Next
    <3> QED BY <2>2, <3>2, <3>3, <3>4, <3>5, <3>6 DEF SeesStep
  <2> QED BY <2>1, <2>2, StepOfMemory DEF Protected
<1> QED BY <1>1, <1>2, CoherenceInvariance, PTL DEF Spec, AllSeeMemory
=============================================================================
