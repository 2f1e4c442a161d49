------------------------ MODULE CDynamicCacheProofs -------------------------
(***************************************************************************)
(* Proofs about CDynamicCache, for every number of ways, sets and          *)
(* addresses.                                                              *)
(***************************************************************************)
EXTENDS CDynamicCache, CacheSetProofs, TLAPS

----------------------------------------------------------------------------
(* The tag store *)

\* moveToHead and then moveToTail permutes the set.
LEMMA HeadThenTailReorders ==
    ASSUME NEW S, NEW set \in Seq(S), Injective(set), NEW w, In(set, w)
    PROVE  IsReordering(HeadThenTail(set, w), set, S)
<1>1. IsReordering(moveToHead(set, w), set, S)
  BY MoveToHeadReorders
<1>2. IsReordering(moveToTail(moveToHead(set, w), w), moveToHead(set, w), S)
  BY <1>1, MoveToTailReorders DEF IsReordering
<1> QED BY <1>1, <1>2 DEF IsReordering, HeadThenTail

\* An access of compartment tcOf(a) that reorders its own partition of the set
\* of a and leaves a block of compartment tcOf(a) in it keeps the tag store in
\* order.
LEMMA AccessKeepsTags ==
    ASSUME TagInv, NEW a \in Addr, NEW order, NEW w, NEW c \in Blk,
           IsReordering(order, get_set(a, tcOf(a)), Way),
           In(get_set(a, tcOf(a)), w),
           c.threadID = tcOf(a), c.valid => c.tag = a,
           Reorder(a, tcOf(a), order), Update(a, w, c),
           UNCHANGED <<L_assoc, H_assoc>>
    PROVE  TagInv'
<1> DEFINE tc == tcOf(a)
           t == extractSet[a]
<1>1. tc \in TC /\ t \in Sets
  BY AddrAssumption DEF tcOf, TC
<1>2. w \in Way
  BY <1>1 DEF TagInv, TagTypeOK, get_set, In
<1>3. sets' = [sets EXCEPT ![tc][t] = order] /\ order \in Seq(Way)
  BY DEF Reorder, IsReordering
<1>4. blk' = [blk EXCEPT ![t][w] = c]
  BY DEF Update
<1> HIDE DEF tc, t
<1>5. TagTypeOK'
  BY <1>1, <1>2, <1>3, <1>4 DEF TagInv, TagTypeOK
<1>6. \A p \in TC, s \in Sets :
        /\ Len(sets'[p][s]) = Len(sets[p][s])
        /\ Injective(sets[p][s]) => Injective(sets'[p][s])
        /\ \A v \in Way : In(sets'[p][s], v) <=> In(sets[p][s], v)
  <2> SUFFICES ASSUME NEW p \in TC, NEW s \in Sets
               PROVE  /\ Len(sets'[p][s]) = Len(sets[p][s])
                      /\ Injective(sets[p][s]) => Injective(sets'[p][s])
                      /\ \A v \in Way : In(sets'[p][s], v) <=> In(sets[p][s], v)
    OBVIOUS
  <2>1. CASE p = tc /\ s = t
    <3>1. sets'[p][s] = order
      BY <1>3, <2>1 DEF TagInv, TagTypeOK
    <3>2. get_set(a, tcOf(a)) = sets[p][s]
      BY <2>1 DEF get_set, tc, t
    <3> QED BY <3>1, <3>2 DEF IsReordering
  <2>2. CASE ~(p = tc /\ s = t)
    <3>1. sets'[p][s] = sets[p][s]
      BY <1>1, <1>3, <2>2 DEF TagInv, TagTypeOK
    <3> QED BY <3>1
  <2> QED BY <2>1, <2>2
<1>7. \A s \in Sets, v \in Way :
        blk'[s][v] = IF s = t /\ v = w THEN c ELSE blk[s][v]
  BY <1>1, <1>2, <1>4 DEF TagInv, TagTypeOK
<1>8. In(sets[tc][t], w)
  BY DEF get_set, tc, t
<1>9. Partitioned'
  BY <1>6, ZenonT(60) DEF TagInv, Partitioned, TC
<1>10. OwnerTagged'
  BY <1>7 DEF TagInv, OwnerTagged, tc, t
<1>11. NoLowLineInHigh'
  BY <1>1, <1>2, <1>6, <1>7, <1>8 DEF TagInv, NoLowLineInHigh, Partitioned, TC, tcOf, tc
<1>12. HighLineInLowIsClean'
  BY <1>1, <1>2, <1>6, <1>7, <1>8, SMTT(60)
     DEF TagInv, HighLineInLowIsClean, Partitioned, TC, tcOf, tc
<1> QED BY <1>5, <1>9, <1>10, <1>11, <1>12 DEF TagInv

\* Appending a block that is not in the set.
LEMMA AppendBlock ==
    ASSUME NEW S, NEW set \in Seq(S), Injective(set), NEW x \in S, ~In(set, x)
    PROVE  LET r == Append(set, x)
           IN  /\ r \in Seq(S) /\ Len(r) = Len(set) + 1 /\ Injective(r)
               /\ \A v : In(r, v) <=> In(set, v) \/ v = x
<1> DEFINE r == Append(set, x)
<1>1. r \in Seq(S) /\ Len(r) = Len(set) + 1 /\ Len(set) \in Nat
  OBVIOUS
<1>2. /\ \A i \in 1..Len(set) : r[i] = set[i]
      /\ r[Len(set) + 1] = x
  OBVIOUS
<1> HIDE DEF r
<1>3. Injective(r)
  BY <1>1, <1>2 DEF Injective, In
<1>4. ASSUME NEW v, In(r, v) PROVE In(set, v) \/ v = x
  BY <1>1, <1>2, <1>4 DEF In
<1>5. ASSUME NEW v, In(set, v) \/ v = x PROVE In(r, v)
  <2>1. CASE v = x
    BY <1>1, <1>2, <2>1 DEF In
  <2>2. CASE In(set, v)
    BY <1>1, <1>2, <2>2 DEF In
  <2> QED BY <1>5, <2>1, <2>2
<1> QED BY <1>1, <1>3, <1>4, <1>5 DEF r

\* Taking the last block away.
LEMMA DropBlock ==
    ASSUME NEW S, NEW set \in Seq(S), Injective(set), NEW n \in Nat, n >= 1,
           n = Len(set)
    PROVE  LET r == SubSeq(set, 1, n - 1)
           IN  /\ r \in Seq(S) /\ Len(r) = n - 1 /\ Injective(r)
               /\ set[n] \in S /\ In(set, set[n])
               /\ \A v : In(r, v) <=> In(set, v) /\ v # set[n]
<1> DEFINE r == SubSeq(set, 1, n - 1)
<1>1. r \in Seq(S) /\ Len(r) = n - 1
  OBVIOUS
<1>2. \A i \in 1..(n - 1) : r[i] = set[i]
  OBVIOUS
<1> HIDE DEF r
<1>3. Injective(r)
  BY <1>1, <1>2 DEF Injective
<1>4. set[n] \in S /\ In(set, set[n])
  BY DEF In
<1>5. ASSUME NEW v, In(r, v) PROVE In(set, v) /\ v # set[n]
  <2>1. PICK i \in 1..(n - 1) : r[i] = v
    BY <1>1, <1>5 DEF In
  <2>2. i \in 1..Len(set) /\ set[i] = v /\ i # n /\ n \in 1..Len(set)
    BY <1>2, <2>1
  <2> QED BY <2>2 DEF In, Injective
<1>6. ASSUME NEW v, In(set, v), v # set[n] PROVE In(r, v)
  <2>1. PICK i \in 1..n : set[i] = v
    BY <1>6 DEF In
  <2>2. i \in 1..(n - 1) /\ r[i] = v
    BY <1>2, <1>6, <2>1
  <2> QED BY <1>1, <2>2 DEF In
<1> QED BY <1>1, <1>3, <1>4, <1>5, <1>6 DEF r

\* inc_size keeps the tag store in order.
LEMMA IncSizeKeepsTags ==
    ASSUME TagInv, IncSize
    PROVE  TagInv'
<1> DEFINE m(s) == sets[1][s][H_assoc]
<1>1. /\ H_assoc \in Nat /\ L_assoc \in Nat /\ H_assoc >= H_min + 1
      /\ H_min \in Nat /\ H_min >= 1
      /\ L_assoc' = L_assoc + 1 /\ H_assoc' = H_assoc - 1
  BY AssocAssumption DEF TagInv, TagTypeOK, Partitioned, IncSize, inc_size
<1>2. \A s \in Sets :
        /\ sets[0][s] \in Seq(Way) /\ Injective(sets[0][s])
        /\ sets[1][s] \in Seq(Way) /\ Injective(sets[1][s])
        /\ Len(sets[1][s]) = H_assoc
  BY DEF TagInv, TagTypeOK, Partitioned, TC
<1>3. /\ sets' \in [TC -> [Sets -> Seq(Way)]]
      /\ \A s \in Sets : /\ sets'[0][s] = Append(sets[0][s], m(s))
                         /\ sets'[1][s] = SubSeq(sets[1][s], 1, H_assoc - 1)
  <2>1. sets' = [tc \in TC |-> [s \in Sets |->
                  IF tc = 0 THEN Append(sets[0][s], m(s))
                  ELSE SubSeq(sets[1][s], 1, H_assoc - 1)]]
    BY DEF IncSize, inc_size
  <2>2. \A s \in Sets : /\ Append(sets[0][s], m(s)) \in Seq(Way)
                        /\ SubSeq(sets[1][s], 1, H_assoc - 1) \in Seq(Way)
    BY <1>1, <1>2
  <2> QED BY <2>1, <2>2 DEF TC
<1>4. ASSUME NEW s \in Sets
      PROVE  /\ m(s) \in Way /\ In(sets[1][s], m(s)) /\ ~In(sets[0][s], m(s))
             /\ Len(sets'[1][s]) = H_assoc - 1 /\ Injective(sets'[1][s])
             /\ \A v : In(sets'[1][s], v) <=> In(sets[1][s], v) /\ v # m(s)
             /\ Len(sets'[0][s]) = Len(sets[0][s]) + 1 /\ Injective(sets'[0][s])
             /\ \A v : In(sets'[0][s], v) <=> In(sets[0][s], v) \/ v = m(s)
  <2>1. /\ m(s) \in Way /\ In(sets[1][s], m(s))
        /\ Len(sets'[1][s]) = H_assoc - 1 /\ Injective(sets'[1][s])
        /\ \A v : In(sets'[1][s], v) <=> In(sets[1][s], v) /\ v # m(s)
    <3> DEFINE q == sets[1][s]
    <3>1. q \in Seq(Way) /\ Injective(q) /\ H_assoc = Len(q) /\ H_assoc \in Nat
          /\ H_assoc >= 1 /\ m(s) = q[H_assoc]
          /\ sets'[1][s] = SubSeq(q, 1, H_assoc - 1)
      BY <1>1, <1>2, <1>3
    <3> HIDE DEF q, m
    <3>2. LET r == SubSeq(q, 1, H_assoc - 1)
          IN  /\ r \in Seq(Way) /\ Len(r) = H_assoc - 1 /\ Injective(r)
              /\ q[H_assoc] \in Way /\ In(q, q[H_assoc])
              /\ \A v : In(r, v) <=> In(q, v) /\ v # q[H_assoc]
      BY <3>1, DropBlock
    <3> QED BY <3>1, <3>2 DEF q
  <2>2. ~In(sets[0][s], m(s))
    BY <2>1 DEF TagInv, Partitioned
  <2> HIDE DEF m
  <2>3. /\ Len(sets'[0][s]) = Len(sets[0][s]) + 1 /\ Injective(sets'[0][s])
        /\ \A v : In(sets'[0][s], v) <=> In(sets[0][s], v) \/ v = m(s)
    <3> DEFINE q == sets[0][s]
    <3>1. q \in Seq(Way) /\ Injective(q) /\ m(s) \in Way /\ ~In(q, m(s))
          /\ sets'[0][s] = Append(q, m(s))
      BY <1>2, <1>3, <2>1, <2>2
    <3> HIDE DEF q
    <3>2. LET r == Append(q, m(s))
          IN  /\ r \in Seq(Way) /\ Len(r) = Len(q) + 1 /\ Injective(r)
              /\ \A v : In(r, v) <=> In(q, v) \/ v = m(s)
      BY <3>1, AppendBlock, ZenonT(60)
    <3> QED BY <3>1, <3>2 DEF q
  <2> QED BY <2>1, <2>2, <2>3
<1>5. blk' = [s \in Sets |-> [blk[s] EXCEPT ![m(s)].dirty = FALSE]]
  BY DEF IncSize, incMoved
<1> HIDE DEF m
<1>6. /\ blk' \in [Sets -> [Way -> Blk]]
      /\ \A s \in Sets, w \in Way :
           blk'[s][w] = IF w = m(s) THEN [blk[s][w] EXCEPT !.dirty = FALSE]
                        ELSE blk[s][w]
  <2>1. \A s \in Sets : blk[s] \in [Way -> Blk]
    BY DEF TagInv, TagTypeOK
  <2>2. \A s \in Sets, w \in Way : [blk[s][w] EXCEPT !.dirty = FALSE] \in Blk
    BY <2>1, ZenonT(60) DEF Blk
  <2>3. \A s \in Sets : [blk[s] EXCEPT ![m(s)].dirty = FALSE] \in [Way -> Blk]
    BY <1>4, <2>1, <2>2
  <2> QED BY <1>5, <2>1, <2>3, ZenonT(60)
<1>7. TagTypeOK'
  BY <1>1, <1>3, <1>6 DEF TagTypeOK
<1>8. Partitioned'
  <2>1. L_assoc' >= 1 /\ H_assoc' >= H_min /\ L_assoc' + H_assoc' = assoc
    BY <1>1, AssocAssumption DEF TagInv, Partitioned
  <2>2. ASSUME NEW s \in Sets
        PROVE  /\ Len(sets'[0][s]) = L_assoc' /\ Injective(sets'[0][s])
               /\ Len(sets'[1][s]) = H_assoc' /\ Injective(sets'[1][s])
    BY <1>1, <1>4, ZenonT(60) DEF TagInv, Partitioned
  <2>3. ASSUME NEW s \in Sets, NEW w \in Way
        PROVE  In(sets'[0][s], w) <=> ~In(sets'[1][s], w)
    BY <1>4, ZenonT(60) DEF TagInv, Partitioned
  <2> QED BY <2>1, <2>2, <2>3 DEF Partitioned
<1>9. \A s \in Sets, w \in Way :
        /\ blk'[s][w].tag = blk[s][w].tag
        /\ blk'[s][w].valid = blk[s][w].valid
        /\ blk'[s][w].threadID = blk[s][w].threadID
        /\ blk'[s][w].dirty => w # m(s) /\ blk[s][w].dirty
  <2> SUFFICES ASSUME NEW s \in Sets, NEW w \in Way
               PROVE  /\ blk'[s][w].tag = blk[s][w].tag
                      /\ blk'[s][w].valid = blk[s][w].valid
                      /\ blk'[s][w].threadID = blk[s][w].threadID
                      /\ blk'[s][w].dirty => w # m(s) /\ blk[s][w].dirty
    OBVIOUS
  <2>1. blk[s][w] \in Blk
    BY DEF TagInv, TagTypeOK
  <2>2. CASE w = m(s)
    <3>1. blk'[s][w] = [blk[s][w] EXCEPT !.dirty = FALSE]
      BY <1>6, <2>2
    <3> QED BY <2>1, <3>1 DEF Blk
  <2>3. CASE w # m(s)
    BY <1>6, <2>3, ZenonT(60)
  <2> QED BY <2>2, <2>3
<1>10. OwnerTagged'
  BY <1>9 DEF TagInv, OwnerTagged
<1>11. NoLowLineInHigh'
  <2>1. \A s \in Sets, w \in Way : In(sets'[1][s], w) => In(sets[1][s], w)
    BY <1>4, ZenonT(60)
  <2> QED BY <1>9, <2>1 DEF TagInv, NoLowLineInHigh
<1>12. HighLineInLowIsClean'
  BY <1>4, <1>9, ZenonT(60) DEF TagInv, HighLineInLowIsClean
<1> QED BY <1>7, <1>8, <1>10, <1>11, <1>12 DEF TagInv

\* dec_size keeps the tag store in order.
LEMMA DecSizeKeepsTags ==
    ASSUME TagInv, DecSize
    PROVE  TagInv'
<1> DEFINE m(s) == sets[0][s][L_assoc]
<1>1. /\ H_assoc \in Nat /\ L_assoc \in Nat /\ L_assoc >= 2
      /\ H_min \in Nat /\ H_min >= 1
      /\ L_assoc' = L_assoc - 1 /\ H_assoc' = H_assoc + 1
  BY AssocAssumption DEF TagInv, TagTypeOK, Partitioned, DecSize, dec_size
<1>2. \A s \in Sets :
        /\ sets[0][s] \in Seq(Way) /\ Injective(sets[0][s])
        /\ sets[1][s] \in Seq(Way) /\ Injective(sets[1][s])
        /\ Len(sets[0][s]) = L_assoc
  BY DEF TagInv, TagTypeOK, Partitioned, TC
<1>3. /\ sets' \in [TC -> [Sets -> Seq(Way)]]
      /\ \A s \in Sets : /\ sets'[1][s] = Append(sets[1][s], m(s))
                         /\ sets'[0][s] = SubSeq(sets[0][s], 1, L_assoc - 1)
  <2>1. sets' = [tc \in TC |-> [s \in Sets |->
                  IF tc = 1 THEN Append(sets[1][s], m(s))
                  ELSE SubSeq(sets[0][s], 1, L_assoc - 1)]]
    BY DEF DecSize, dec_size
  <2>2. \A s \in Sets : /\ Append(sets[1][s], m(s)) \in Seq(Way)
                        /\ SubSeq(sets[0][s], 1, L_assoc - 1) \in Seq(Way)
    BY <1>1, <1>2
  <2> QED BY <2>1, <2>2, SMTT(60) DEF TC
<1>4. ASSUME NEW s \in Sets
      PROVE  /\ m(s) \in Way /\ In(sets[0][s], m(s)) /\ ~In(sets[1][s], m(s))
             /\ Len(sets'[0][s]) = L_assoc - 1 /\ Injective(sets'[0][s])
             /\ \A v : In(sets'[0][s], v) <=> In(sets[0][s], v) /\ v # m(s)
             /\ Len(sets'[1][s]) = Len(sets[1][s]) + 1 /\ Injective(sets'[1][s])
             /\ \A v : In(sets'[1][s], v) <=> In(sets[1][s], v) \/ v = m(s)
  <2>1. /\ m(s) \in Way /\ In(sets[0][s], m(s))
        /\ Len(sets'[0][s]) = L_assoc - 1 /\ Injective(sets'[0][s])
        /\ \A v : In(sets'[0][s], v) <=> In(sets[0][s], v) /\ v # m(s)
    <3> DEFINE q == sets[0][s]
    <3>1. q \in Seq(Way) /\ Injective(q) /\ L_assoc = Len(q) /\ L_assoc \in Nat
          /\ L_assoc >= 1 /\ m(s) = q[L_assoc]
          /\ sets'[0][s] = SubSeq(q, 1, L_assoc - 1)
      BY <1>1, <1>2, <1>3
    <3> HIDE DEF q, m
    <3>2. LET r == SubSeq(q, 1, L_assoc - 1)
          IN  /\ r \in Seq(Way) /\ Len(r) = L_assoc - 1 /\ Injective(r)
              /\ q[L_assoc] \in Way /\ In(q, q[L_assoc])
              /\ \A v : In(r, v) <=> In(q, v) /\ v # q[L_assoc]
      BY <3>1, DropBlock
    <3> QED BY <3>1, <3>2 DEF q
  <2>2. ~In(sets[1][s], m(s))
    BY <2>1 DEF TagInv, Partitioned
  <2> HIDE DEF m
  <2>3. /\ Len(sets'[1][s]) = Len(sets[1][s]) + 1 /\ Injective(sets'[1][s])
        /\ \A v : In(sets'[1][s], v) <=> In(sets[1][s], v) \/ v = m(s)
    <3> DEFINE q == sets[1][s]
    <3>1. q \in Seq(Way) /\ Injective(q) /\ m(s) \in Way /\ ~In(q, m(s))
          /\ sets'[1][s] = Append(q, m(s))
      BY <1>2, <1>3, <2>1, <2>2
    <3> HIDE DEF q
    <3>2. LET r == Append(q, m(s))
          IN  /\ r \in Seq(Way) /\ Len(r) = Len(q) + 1 /\ Injective(r)
              /\ \A v : In(r, v) <=> In(q, v) \/ v = m(s)
      BY <3>1, AppendBlock, ZenonT(60)
    <3> QED BY <3>1, <3>2 DEF q
  <2> QED BY <2>1, <2>2, <2>3
<1>5. blk' = [s \in Sets |-> IF blk[s][m(s)].threadID = 0
                            THEN [blk[s] EXCEPT ![m(s)] = Empty(1)]
                            ELSE blk[s]]
  BY DEF DecSize, decMoved
<1> HIDE DEF m
<1>6. Empty(1) \in Blk
  BY DEF Empty, Blk, TC
<1>7. \A s \in Sets : blk[s] \in [Way -> Blk]
  BY DEF TagInv, TagTypeOK
<1>8. /\ blk' \in [Sets -> [Way -> Blk]]
      /\ \A s \in Sets, w \in Way :
           blk'[s][w] = IF w = m(s) /\ blk[s][w].threadID = 0 THEN Empty(1)
                        ELSE blk[s][w]
  BY <1>4, <1>5, <1>6, <1>7
<1>9. TagTypeOK'
  BY <1>1, <1>3, <1>8 DEF TagTypeOK
<1>10. Partitioned'
  <2>1. L_assoc' >= 1 /\ H_assoc' >= H_min /\ L_assoc' + H_assoc' = assoc
    BY <1>1, AssocAssumption DEF TagInv, Partitioned
  <2>2. ASSUME NEW s \in Sets
        PROVE  /\ Len(sets'[0][s]) = L_assoc' /\ Injective(sets'[0][s])
               /\ Len(sets'[1][s]) = H_assoc' /\ Injective(sets'[1][s])
    BY <1>1, <1>4, ZenonT(60) DEF TagInv, Partitioned
  <2>3. ASSUME NEW s \in Sets, NEW w \in Way
        PROVE  In(sets'[0][s], w) <=> ~In(sets'[1][s], w)
    BY <1>4, ZenonT(60) DEF TagInv, Partitioned
  <2> QED BY <2>1, <2>2, <2>3 DEF Partitioned
<1>11. OwnerTagged'
  BY <1>8 DEF TagInv, OwnerTagged, Empty
<1>12. NoLowLineInHigh'
  <2> SUFFICES ASSUME NEW s \in Sets, NEW w \in Way, In(sets'[1][s], w)
               PROVE  /\ blk'[s][w].threadID = 1
                      /\ blk'[s][w].valid => blk'[s][w].tag \notin LowAddr
    BY DEF NoLowLineInHigh
  <2>1. CASE In(sets[1][s], w)
    <3>1. w # m(s)
      BY <1>4, <2>1
    <3> QED BY <1>8, <2>1, <3>1 DEF TagInv, NoLowLineInHigh
  <2>2. CASE w = m(s) /\ blk[s][w].threadID = 0
    BY <1>8, <2>2 DEF Empty
  <2>3. CASE w = m(s) /\ blk[s][w].threadID # 0
    <3>1. blk[s][w].threadID = 1
      BY <1>7, <2>3 DEF Blk, TC
    <3> QED BY <1>8, <2>3, <3>1 DEF TagInv, OwnerTagged, tcOf
  <2> QED BY <1>4, <2>1, <2>2, <2>3
<1>13. HighLineInLowIsClean'
  BY <1>4, <1>8, ZenonT(60) DEF TagInv, HighLineInLowIsClean, Empty
<1> QED BY <1>9, <1>10, <1>11, <1>12, <1>13 DEF TagInv

\* Facts about the partition an access works on.
LEMMA OwnSet ==
    ASSUME TagInv, NEW a \in Addr
    PROVE  /\ tcOf(a) \in TC /\ extractSet[a] \in Sets
           /\ get_set(a, tcOf(a)) \in Seq(Way)
           /\ Injective(get_set(a, tcOf(a)))
           /\ Len(get_set(a, tcOf(a))) = assoc_of_tc(tcOf(a))
BY AddrAssumption DEF TagInv, TagTypeOK, Partitioned, tcOf, TC, get_set, assoc_of_tc

\* A block that findBlock returns.
LEMMA FoundBlock ==
    ASSUME TagInv, NEW a \in Addr, NEW w, w = findBlock(a, tcOf(a)), w # NULL
    PROVE  /\ In(get_set(a, tcOf(a)), w) /\ w \in Way
           /\ blk[extractSet[a]][w] \in Blk
           /\ blk[extractSet[a]][w].tag = a /\ blk[extractSet[a]][w].valid
           /\ blk[extractSet[a]][w].threadID = tcOf(a)
<1>1. /\ In(get_set(a, tcOf(a)), w)
      /\ blk[extractSet[a]][w].tag = a /\ blk[extractSet[a]][w].valid
  BY OwnSet, FindBlkFinds DEF findBlock
<1>2. w \in Way
  BY <1>1, OwnSet DEF In
<1> QED BY <1>1, <1>2, OwnSet, SMTT(60) DEF TagInv, TagTypeOK, OwnerTagged

\* The block that findVictim returns.
LEMMA VictimBlock ==
    ASSUME TagInv, NEW a \in Addr
    PROVE  In(get_set(a, tcOf(a)), findVictim(a, tcOf(a)))
           /\ findVictim(a, tcOf(a)) \in Way /\ Victim(a) \in Blk
<1>1. assoc_of_tc(tcOf(a)) \in Nat /\ assoc_of_tc(tcOf(a)) >= 1
  BY AssocAssumption DEF TagInv, TagTypeOK, Partitioned, assoc_of_tc
<1>2. In(get_set(a, tcOf(a)), findVictim(a, tcOf(a)))
      /\ findVictim(a, tcOf(a)) \in Way
  BY <1>1, OwnSet DEF findVictim, In
<1> QED BY <1>2, OwnSet DEF Victim, TagInv, TagTypeOK

\* The tag store is in order at the start.
LEMMA TagsInitInv == TagsInit => TagInv
<1> SUFFICES ASSUME TagsInit PROVE TagInv
  OBVIOUS
<1> DEFINE n == assoc - L_init
<1>1. L_init \in Nat /\ n \in Nat /\ L_init >= 1 /\ n >= H_min
      /\ L_init + n = assoc /\ assoc \in Nat
  BY AssocAssumption, LInitAssumption
<1>2. PICK frame \in [1..assoc -> Way] :
        /\ \A w \in Way : \E i \in 1..assoc : frame[i] = w
        /\ \A i, j \in 1..assoc : frame[i] = frame[j] => i = j
        /\ L_assoc = L_init
        /\ H_assoc = n
        /\ sets = [tc \in TC |-> [s \in Sets |->
                     IF tc = 0 THEN [i \in 1..L_init |-> frame[i]]
                     ELSE [i \in 1..n |-> frame[L_init + i]]]]
        /\ blk = [s \in Sets |-> [w \in Way |-> Empty(
                    IF \E i \in 1..L_init : frame[i] = w THEN 0 ELSE 1)]]
  BY ZenonT(60) DEF TagsInit
<1> HIDE DEF n
<1> DEFINE lo == [i \in 1..L_init |-> frame[i]]
           hi == [i \in 1..n |-> frame[L_init + i]]
<1>3. lo \in Seq(Way) /\ Len(lo) = L_init /\ \A i \in 1..L_init : lo[i] = frame[i]
  <2>1. lo \in [1..L_init -> Way]
    BY <1>1
  <2> QED BY <1>1, <2>1
<1>4. hi \in Seq(Way) /\ Len(hi) = n /\ \A i \in 1..n : hi[i] = frame[L_init + i]
  <2>1. hi \in [1..n -> Way]
    BY <1>1
  <2> QED BY <1>1, <2>1
<1>5. \A s \in Sets : sets[0][s] = lo /\ sets[1][s] = hi
  BY <1>2 DEF TC
<1>6. sets \in [TC -> [Sets -> Seq(Way)]]
  BY <1>2, <1>3, <1>4, ZenonT(60) DEF TC
<1> HIDE DEF lo, hi
<1>7. \A x \in TC : Empty(x) \in Blk /\ ~Empty(x).valid /\ Empty(x).threadID = x
  BY DEF Empty, Blk, TC
<1>8. \A s \in Sets, w \in Way :
        /\ blk[s][w] \in Blk /\ ~blk[s][w].valid
        /\ ~In(lo, w) => blk[s][w].threadID = 1
  BY <1>1, <1>2, <1>3, <1>7 DEF TC, In
<1>9. TagTypeOK
  <2>1. blk \in [Sets -> [Way -> Blk]]
    BY <1>2, <1>7 DEF TC
  <2> QED BY <1>1, <1>2, <1>6, <2>1, ZenonT(60) DEF TagTypeOK
<1>10. Injective(lo) /\ Injective(hi)
  <2>1. ASSUME NEW i \in 1..L_init, NEW j \in 1..L_init, lo[i] = lo[j]
        PROVE  i = j
    <3>1. frame[i] = frame[j] /\ i \in 1..assoc /\ j \in 1..assoc
      BY <1>1, <1>3, <2>1
    <3> QED BY <1>2, <3>1
  <2>2. ASSUME NEW i \in 1..n, NEW j \in 1..n, hi[i] = hi[j]
        PROVE  i = j
    <3>1. /\ frame[L_init + i] = frame[L_init + j]
          /\ L_init + i \in 1..assoc /\ L_init + j \in 1..assoc
      BY <1>1, <1>4, <2>2
    <3>2. L_init + i = L_init + j
      BY <1>2, <3>1
    <3> QED BY <1>1, <3>2
  <2> QED BY <1>3, <1>4, <2>1, <2>2 DEF Injective
<1>11. ASSUME NEW w \in Way PROVE In(lo, w) <=> ~In(hi, w)
  <2>1. PICK k \in 1..assoc : frame[k] = w
    BY <1>2
  <2>2. CASE k <= L_init
    <3>1. In(lo, w)
      BY <1>1, <1>3, <2>1, <2>2 DEF In
    <3>2. ~In(hi, w)
      BY <1>1, <1>2, <1>4, <2>1, <2>2 DEF In
    <3> QED BY <3>1, <3>2
  <2>3. CASE k > L_init
    <3>1. In(hi, w)
      <4>1. k - L_init \in 1..n /\ hi[k - L_init] = w
        BY <1>1, <1>4, <2>1, <2>3
      <4> QED BY <1>4, <4>1 DEF In
    <3>2. ~In(lo, w)
      BY <1>1, <1>2, <1>3, <2>1, <2>3 DEF In
    <3> QED BY <3>1, <3>2
  <2> QED BY <1>1, <2>2, <2>3
<1>12. Partitioned
  <2>1. L_assoc >= 1 /\ H_assoc >= H_min /\ L_assoc + H_assoc = assoc
    BY <1>1, <1>2
  <2>2. \A s \in Sets :
          /\ Len(sets[0][s]) = L_assoc /\ Injective(sets[0][s])
          /\ Len(sets[1][s]) = H_assoc /\ Injective(sets[1][s])
    BY <1>2, <1>3, <1>4, <1>5, <1>10, ZenonT(60)
  <2>3. \A s \in Sets, w \in Way : In(sets[0][s], w) <=> ~In(sets[1][s], w)
    BY <1>5, <1>11
  <2> QED BY <2>1, <2>2, <2>3 DEF Partitioned
<1>13. OwnerTagged /\ HighLineInLowIsClean
  BY <1>8 DEF OwnerTagged, HighLineInLowIsClean
<1>14. NoLowLineInHigh
  BY <1>5, <1>8, <1>11 DEF NoLowLineInHigh
<1> QED BY <1>9, <1>12, <1>13, <1>14 DEF TagInv

----------------------------------------------------------------------------
(* The handlers *)

\* Replacing the victim of a by a block of a keeps the tag store in order.
LEMMA ReplaceKeepsTags ==
    ASSUME TagInv, NEW a \in Addr, NEW c \in Blk, NEW order,
           c.threadID = tcOf(a), c.valid => c.tag = a,
           IsReordering(order, get_set(a, tcOf(a)), Way),
           Reorder(a, tcOf(a), order), Update(a, findVictim(a, tcOf(a)), c),
           UNCHANGED <<L_assoc, H_assoc>>
    PROVE  TagInv'
BY VictimBlock, AccessKeepsTags

\* Contents of a block after a fill or an invalidation.
LEMMA FilledBlock ==
    ASSUME NEW a \in Addr, NEW v \in Nat, NEW d \in BOOLEAN
    PROVE  LET c == Filled(a, tcOf(a), v, d)
           IN  /\ c \in Blk /\ c.threadID = tcOf(a) /\ c.tag = a
               /\ Invalidated(c) \in Blk /\ Invalidated(c).threadID = tcOf(a)
               /\ ~Invalidated(c).valid
BY DEF Filled, Blk, TC, tcOf, Invalidated, Empty

\* An invalidated block keeps its owner.
LEMMA InvalidatedBlock ==
    ASSUME NEW b \in Blk
    PROVE  /\ Invalidated(b) \in Blk /\ Invalidated(b).threadID = b.threadID
           /\ ~Invalidated(b).valid
BY DEF Blk, Invalidated, Empty

\* Requests that hit.
LEMMA SatisfyKeepsTags ==
    ASSUME TagInv, NEW a \in Addr, NEW w, w = findBlock(a, tcOf(a)), w # NULL,
           \/ SatisfyRead(a, w) \/ SatisfyFetch(a, w)
           \/ SatisfyReadEx(a, w) \/ SatisfyUpgrade(a, w)
    PROVE  TagInv'
<1> DEFINE b == blk[extractSet[a]][w]
           q == get_set(a, tcOf(a))
<1>1. /\ In(q, w) /\ w \in Way /\ b \in Blk /\ b.tag = a /\ b.threadID = tcOf(a)
  BY FoundBlock, ZenonT(60)
<1>2. /\ IsReordering(moveToHead(q, w), q, Way)
      /\ IsReordering(HeadThenTail(q, w), q, Way)
  BY <1>1, OwnSet, MoveToHeadReorders, HeadThenTailReorders
<1>3. CASE SatisfyRead(a, w)
  <2>1. [b EXCEPT !.dirty = FALSE] \in Blk
        /\ [b EXCEPT !.dirty = FALSE].tag = a
        /\ [b EXCEPT !.dirty = FALSE].threadID = tcOf(a)
    BY <1>1, ZenonT(60) DEF Blk
  <2>2. /\ Reorder(a, tcOf(a), moveToHead(q, w))
        /\ Update(a, w, [b EXCEPT !.dirty = FALSE])
        /\ UNCHANGED <<L_assoc, H_assoc>>
    BY <1>3, ZenonT(60) DEF SatisfyRead
  <2> QED BY <1>1, <1>2, <2>1, <2>2, AccessKeepsTags, ZenonT(60)
<1>4. CASE SatisfyFetch(a, w)
  <2>1. Reorder(a, tcOf(a), moveToHead(q, w)) /\ UNCHANGED <<L_assoc, H_assoc>>
    BY <1>4 DEF SatisfyFetch
  <2>2. Update(a, w, b)
    <3>1. blk' = blk
      BY <1>4 DEF SatisfyFetch
    <3>2. blk = [blk EXCEPT ![extractSet[a]][w] = b]
      BY <1>1, OwnSet, ZenonT(60) DEF TagInv, TagTypeOK
    <3> QED BY <3>1, <3>2, SMTT(60) DEF Update
  <2> QED BY <1>1, <1>2, <2>1, <2>2, AccessKeepsTags, ZenonT(60)
<1>5. CASE SatisfyReadEx(a, w)
  <2>1. /\ Reorder(a, tcOf(a), HeadThenTail(q, w))
        /\ Update(a, w, Invalidated(b))
        /\ UNCHANGED <<L_assoc, H_assoc>>
    BY <1>5 DEF SatisfyReadEx
  <2> QED BY <1>1, <1>2, <2>1, InvalidatedBlock, AccessKeepsTags, ZenonT(60)
<1>6. CASE SatisfyUpgrade(a, w)
  <2>1. /\ Reorder(a, tcOf(a), HeadThenTail(q, w))
        /\ Update(a, w, Invalidated(b))
        /\ UNCHANGED <<L_assoc, H_assoc>>
    BY <1>6, ZenonT(60) DEF SatisfyUpgrade
  <2> QED BY <1>1, <1>2, <2>1, InvalidatedBlock, AccessKeepsTags
<1> QED BY <1>3, <1>4, <1>5, <1>6, ZenonT(60)

\* A writeback from above.
LEMMA AcceptWritebackKeepsTags ==
    ASSUME TagInv, NEW a \in Addr, l2[a].ver \in Nat,
           AcceptWriteback(a, findBlock(a, tcOf(a)))
    PROVE  TagInv'
<1> DEFINE w == findBlock(a, tcOf(a))
           q == get_set(a, tcOf(a))
           c == Filled(a, tcOf(a), l2[a].ver, TRUE)
<1>1. c \in Blk /\ c.threadID = tcOf(a) /\ c.tag = a
  BY FilledBlock, ZenonT(60)
<1>2. CASE w = NULL
  <2>1. /\ Reorder(a, tcOf(a), moveToHead(q, findVictim(a, tcOf(a))))
        /\ Update(a, findVictim(a, tcOf(a)), c)
        /\ UNCHANGED <<L_assoc, H_assoc>>
    BY <1>2, ZenonT(60) DEF AcceptWriteback, Replace
  <2>2. IsReordering(moveToHead(q, findVictim(a, tcOf(a))), q, Way)
    BY VictimBlock, OwnSet, MoveToHeadReorders, ZenonT(60)
  <2> HIDE DEF c, q
  <2> QED BY <1>1, <2>1, <2>2, ReplaceKeepsTags DEF q
<1>3. CASE w # NULL
  <2>1. /\ Reorder(a, tcOf(a), moveToHead(q, w))
        /\ Update(a, w, c)
        /\ UNCHANGED <<L_assoc, H_assoc>>
    BY <1>3, ZenonT(60) DEF AcceptWriteback
  <2>2. In(q, w)
    BY <1>3, FoundBlock, ZenonT(60)
  <2>3. IsReordering(moveToHead(q, w), q, Way)
    BY <2>2, OwnSet, MoveToHeadReorders
  <2> HIDE DEF c, q, w
  <2> QED BY <1>1, <2>1, <2>2, <2>3, AccessKeepsTags DEF q
<1> QED BY <1>2, <1>3

\* A fill from the memory.
LEMMA FillKeepsTags ==
    ASSUME TagInv, NEW a \in Addr, mshr[a].ver \in Nat,
           Fill(a, findBlock(a, tcOf(a)))
    PROVE  TagInv'
<1> DEFINE w == findBlock(a, tcOf(a))
           q == get_set(a, tcOf(a))
           v == findVictim(a, tcOf(a))
           c == Filled(a, tcOf(a), mshr[a].ver, FALSE)
           b == [blk[extractSet[a]][w] EXCEPT !.data = mshr[a].ver]
<1>1. /\ c \in Blk /\ c.threadID = tcOf(a) /\ c.tag = a
      /\ Invalidated(c) \in Blk /\ Invalidated(c).threadID = tcOf(a)
      /\ ~Invalidated(c).valid
  BY FilledBlock, ZenonT(60)
<1>2. /\ IsReordering(moveToHead(q, v), q, Way)
      /\ IsReordering(HeadThenTail(q, v), q, Way)
  BY VictimBlock, OwnSet, MoveToHeadReorders, HeadThenTailReorders, ZenonT(60)
<1>3. CASE w = NULL /\ mshr[a].cmd = "ReadEx"
  <2>1. /\ Reorder(a, tcOf(a), HeadThenTail(q, v))
        /\ Update(a, v, Invalidated(c))
        /\ UNCHANGED <<L_assoc, H_assoc>>
    BY <1>3, ZenonT(60) DEF Fill, FillNew, Replace
  <2> HIDE DEF c, q
  <2> QED BY <1>1, <1>2, <2>1, ReplaceKeepsTags DEF q
<1>4. CASE w = NULL /\ mshr[a].cmd # "ReadEx"
  <2>1. /\ Reorder(a, tcOf(a), moveToHead(q, v))
        /\ Update(a, v, c)
        /\ UNCHANGED <<L_assoc, H_assoc>>
    BY <1>4, ZenonT(60) DEF Fill, FillNew, Replace
  <2> HIDE DEF c, q
  <2> QED BY <1>1, <1>2, <2>1, ReplaceKeepsTags DEF q
<1>5. ASSUME w # NULL
      PROVE  /\ In(q, w) /\ b \in Blk /\ b.tag = a /\ b.threadID = tcOf(a)
             /\ Invalidated(b) \in Blk /\ Invalidated(b).threadID = tcOf(a)
             /\ ~Invalidated(b).valid
  <2>1. /\ In(q, w) /\ blk[extractSet[a]][w] \in Blk
        /\ blk[extractSet[a]][w].tag = a
        /\ blk[extractSet[a]][w].threadID = tcOf(a)
    BY <1>5, FoundBlock
  <2>2. b \in Blk /\ b.tag = a /\ b.threadID = tcOf(a)
    BY <2>1, ZenonT(60) DEF Blk
  <2> QED BY <2>1, <2>2, InvalidatedBlock, ZenonT(60)
<1>6. CASE w # NULL /\ mshr[a].cmd = "ReadEx"
  <2>1. /\ Reorder(a, tcOf(a), moveToTail(q, w))
        /\ Update(a, w, Invalidated(b))
        /\ UNCHANGED <<L_assoc, H_assoc>>
    BY <1>6 DEF Fill, FillExisting
  <2>2. IsReordering(moveToTail(q, w), q, Way)
    BY <1>5, <1>6, OwnSet, MoveToTailReorders, ZenonT(60)
  <2> HIDE DEF b, q, w
  <2> QED BY <1>5, <1>6, <2>1, <2>2, AccessKeepsTags DEF q
<1>7. CASE w # NULL /\ mshr[a].cmd # "ReadEx"
  <2>1. Update(a, w, b) /\ UNCHANGED <<sets, L_assoc, H_assoc>>
    BY <1>7 DEF Fill, FillExisting
  <2>2. IsReordering(q, q, Way)
    BY OwnSet DEF IsReordering
  <2>3. Reorder(a, tcOf(a), q)
    BY <2>1, OwnSet DEF Reorder, get_set, TagInv, TagTypeOK
  <2> HIDE DEF b, q, w
  <2> QED BY <1>5, <1>7, <2>1, <2>2, <2>3, AccessKeepsTags DEF q
<1> QED BY <1>3, <1>4, <1>6, <1>7

----------------------------------------------------------------------------
(* The theorems *)

\* Types of what is outside the tag store.
RestTypeOK ==
    /\ mshr \in [Addr -> [st : {"none", "pending", "inService"}, cmd : Cmd,
                          ver : Nat]]
    /\ missq \in [TC -> Seq(Addr)]
    /\ wb \in [Addr -> Seq(Nat)]
    /\ mem \in [Addr -> Nat]
    /\ l2 \in [Addr -> [st : {"I", "S", "E", "M"}, ver : Nat]]
    /\ latest \in [Addr -> Nat]
    /\ abort \in {"no", "allocateBlock", "getBusPacket"}

\* The write buffer after the victim of a fill is written back.
LEMMA WithWritebackType ==
    ASSUME IInv, NEW a \in Addr
    PROVE  WithWriteback(Victim(a)) \in [Addr -> Seq(Nat)]
<1>1. Victim(a) \in Blk /\ findVictim(a, tcOf(a)) \in Way /\ extractSet[a] \in Sets
  BY VictimBlock, OwnSet DEF IInv
<1>2. Victim(a).valid => Victim(a).tag \in Addr
  BY <1>1 DEF Victim, IInv, TagInv, OwnerTagged
<1>3. Victim(a).data \in Nat /\ wb \in [Addr -> Seq(Nat)]
  BY <1>1, ZenonT(60) DEF Blk, IInv, TypeOK
<1> QED BY <1>2, <1>3 DEF WithWriteback

\* Every step keeps the types of the variables other than the sets.
LEMMA StepKeepsTypes ==
    ASSUME IInv, [Next]_vars
    PROVE  RestTypeOK'
<1> USE DEF RestTypeOK
<1>0. RestTypeOK
  BY DEF IInv, TypeOK
<1>1. ASSUME NEW a \in Addr, NEW cmd \in Cmd, Miss(a, cmd) PROVE RestTypeOK'
  <2>1. tcOf(a) \in TC
    BY DEF tcOf, TC
  <2> QED BY <1>0, <1>1, <2>1, SMTT(60) DEF Miss
<1>2. ASSUME NEW a \in Addr, NEW w, w = findBlock(a, tcOf(a)), w # NULL
      PROVE  blk[extractSet[a]][w].data \in Nat
  BY <1>2, FoundBlock DEF IInv, Blk
<1>3. ASSUME NEW a \in Addr, NEW st \in {"I", "S", "E", "M"}, NEW v \in Nat,
             l2' = [l2 EXCEPT ![a] = Line(st, v)]
      PROVE  l2' \in [Addr -> [st : {"I", "S", "E", "M"}, ver : Nat]]
  BY <1>0, <1>3 DEF Line
<1>4. ASSUME NEW a \in Addr, UpgradeAndWrite(a)
      PROVE  /\ l2' \in [Addr -> [st : {"I", "S", "E", "M"}, ver : Nat]]
             /\ latest' \in [Addr -> Nat]
  BY <1>0, <1>4, SMTT(60) DEF UpgradeAndWrite, Line
<1>5. ASSUME NEW a \in Addr, RecvRead(a) PROVE RestTypeOK'
  <2> DEFINE w == findBlock(a, tcOf(a))
  <2>1. CASE w = NULL
    BY <1>1, <1>5, <2>1 DEF RecvRead, Cmd
  <2>2. CASE w # NULL
    BY <1>0, <1>2, <1>3, <1>5, <2>2, ZenonT(60) DEF RecvRead, SatisfyRead
  <2> QED BY <2>1, <2>2, SMTT(60)
<1>6. ASSUME NEW a \in Addr, RecvFetch(a) PROVE RestTypeOK'
  <2> DEFINE w == findBlock(a, tcOf(a))
  <2>1. CASE w = NULL
    BY <1>1, <1>6, <2>1 DEF RecvFetch, Cmd
  <2>2. CASE w # NULL
    BY <1>0, <1>2, <1>3, <1>6, <2>2, ZenonT(60) DEF RecvFetch, SatisfyFetch
  <2> QED BY <2>1, <2>2
<1>7. ASSUME NEW a \in Addr, RecvReadEx(a) PROVE RestTypeOK'
  <2> DEFINE w == findBlock(a, tcOf(a))
  <2>1. CASE w = NULL
    BY <1>1, <1>7, <2>1 DEF RecvReadEx, Cmd
  <2>2. CASE w # NULL
    BY <1>0, <1>2, <1>3, <1>7, <2>2, ZenonT(60) DEF RecvReadEx, SatisfyReadEx
  <2> QED BY <2>1, <2>2
<1>8. ASSUME NEW a \in Addr, RecvUpgrade(a) PROVE RestTypeOK'
  <2> DEFINE w == findBlock(a, tcOf(a))
  <2>1. CASE w = NULL
    BY <1>1, <1>8, <2>1, ZenonT(60) DEF RecvUpgrade, Cmd
  <2>2. CASE w # NULL
    BY <1>0, <1>4, <1>8, <2>2, ZenonT(60) DEF RecvUpgrade, SatisfyUpgrade
  <2> QED BY <2>1, <2>2
<1>9. ASSUME NEW a \in Addr, RecvWriteback(a) PROVE RestTypeOK'
  <2> DEFINE w == findBlock(a, tcOf(a))
  <2>1. CASE Stop("allocateBlock")
    BY <1>0, <2>1, SMTT(60) DEF Stop
  <2>2. CASE AcceptWriteback(a, w)
    <3>1. wb' \in [Addr -> Seq(Nat)]
      BY <1>0, <2>2, WithWritebackType, ZenonT(60) DEF AcceptWriteback, Replace
    <3>2. l2' \in [Addr -> [st : {"I", "S", "E", "M"}, ver : Nat]]
      BY <1>0, <2>2 DEF AcceptWriteback, NoLine
    <3> QED BY <1>0, <2>2, <3>1, <3>2 DEF AcceptWriteback
  <2> QED BY <1>9, <2>1, <2>2 DEF RecvWriteback
<1>10. ASSUME NEW a \in Addr, L2Write(a) \/ L2Drop(a) PROVE RestTypeOK'
  <2>1. CASE L2Write(a)
    BY <1>0, <1>4, <2>1 DEF L2Write
  <2>2. CASE L2Drop(a)
    BY <1>0, <2>2, ZenonT(60) DEF L2Drop, NoLine
  <2> QED BY <1>10, <2>1, <2>2
<1>11. ASSUME NEW a \in Addr, RecvFill(a) PROVE RestTypeOK'
  <2> DEFINE w == findBlock(a, tcOf(a))
  <2>1. CASE Stop("allocateBlock")
    BY <1>0, <2>1 DEF Stop
  <2>2. CASE Fill(a, w)
    <3>1. wb' \in [Addr -> Seq(Nat)]
      BY <1>0, <2>2, WithWritebackType, ZenonT(60) DEF Fill, FillNew, FillExisting, Replace
    <3>2. \A d : Granted(a, d) \in {"S", "E", "M"}
      BY <1>0, <1>11 DEF Granted, Cmd, RecvFill
    <3>3. l2' \in [Addr -> [st : {"I", "S", "E", "M"}, ver : Nat]]
      BY <1>0, <1>3, <2>2, <3>2, ZenonT(60) DEF Fill
    <3>4. mshr' \in [Addr -> [st : {"none", "pending", "inService"}, cmd : Cmd,
                             ver : Nat]]
      BY <1>0, <2>2 DEF Fill, NoMSHR, Cmd
    <3> QED BY <1>0, <2>2, <3>1, <3>3, <3>4, ZenonT(60) DEF Fill
  <2> QED BY <1>11, <2>1, <2>2 DEF RecvFill
<1>12. ASSUME NEW a \in Addr, RecvUpgradeResp(a) PROVE RestTypeOK'
  <2>1. mshr' \in [Addr -> [st : {"none", "pending", "inService"}, cmd : Cmd,
                           ver : Nat]]
    BY <1>0, <1>12 DEF RecvUpgradeResp, NoMSHR, Cmd
  <2> QED BY <1>0, <1>4, <1>12, <2>1, ZenonT(60) DEF RecvUpgradeResp
<1>13. ASSUME NEW a \in Addr, SendWriteback(a) PROVE RestTypeOK'
  BY <1>0, <1>13, SMTT(60) DEF SendWriteback
<1>14. ASSUME NEW tc \in TC, SendMiss(tc) PROVE RestTypeOK'
  <2> DEFINE a == Head(missq[tc])
  <2>1. a \in Addr /\ Tail(missq[tc]) \in Seq(Addr)
    BY <1>0, <1>14 DEF SendMiss
  <2>2. CASE Stop("getBusPacket")
    BY <1>0, <2>2 DEF Stop
  <2> HIDE DEF a
  <2>3. CASE /\ mshr' = [mshr EXCEPT ![a].st = "inService", ![a].ver = mem[a]]
             /\ missq' = [missq EXCEPT ![tc] = Tail(@)]
             /\ UNCHANGED <<tagVars, wb, mem, l2, latest, abort>>
    BY <1>0, <2>1, <2>3, ZenonT(60)
  <2> QED BY <1>14, <2>2, <2>3, ZenonT(60) DEF SendMiss, a
<1>15. ASSUME IncSize \/ DecSize PROVE RestTypeOK'
  <2>1. \A s \in Sets : /\ incMoved(s) \in Way /\ decMoved(s) \in Way
                        /\ blk[s][incMoved(s)].data \in Nat
                        /\ blk[s][decMoved(s)].data \in Nat
    <3>1. \A s \in Sets : incMoved(s) \in Way /\ decMoved(s) \in Way
      BY AssocAssumption
         DEF IInv, TagInv, TagTypeOK, Partitioned, incMoved, decMoved, TC
    <3> QED BY <3>1 DEF IInv, TagInv, TagTypeOK, Blk
  <2>2. \A a \in Addr : extractSet[a] \in Sets
    BY AddrAssumption, SMTT(60)
  <2>3. \A a \in Addr :
           /\ wb[a] \in Seq(Nat)
           /\ Append(wb[a], blk[extractSet[a]][incMoved(extractSet[a])].data) \in Seq(Nat)
           /\ Append(wb[a], blk[extractSet[a]][decMoved(extractSet[a])].data) \in Seq(Nat)
    BY <1>0, <2>1, <2>2
  <2>4. wb' \in [Addr -> Seq(Nat)]
    <3>1. CASE IncSize
      BY <2>3, <3>1, ZenonT(60) DEF IncSize
    <3>2. CASE DecSize
      BY <2>3, <3>2 DEF DecSize
    <3> QED BY <1>15, <3>1, <3>2
  <2> QED BY <1>0, <1>15, <2>4, ZenonT(60) DEF IncSize, DecSize
<1>16. CASE UNCHANGED vars
  BY <1>0, <1>16 DEF vars, cacheVars
<1> QED BY <1>5, <1>6, <1>7, <1>8, <1>9, <1>10, <1>11, <1>12, <1>13, <1>14,
           <1>15, <1>16 DEF Next, Request, Response

\* Every step keeps the tag store in order: one case per handler.
LEMMA StepKeepsTags ==
    ASSUME IInv, [Next]_vars
    PROVE  TagInv'
<1>0. ASSUME UNCHANGED tagVars PROVE TagInv'
  <2>1. UNCHANGED <<L_assoc, H_assoc, sets, blk>>
    BY <1>0 DEF tagVars
  <2>2. TagTypeOK'
    BY <2>1 DEF IInv, TagInv, TagTypeOK
  <2>3. Partitioned'
    BY <2>1, ZenonT(60) DEF IInv, TagInv, Partitioned
  <2>4. OwnerTagged'
    BY <2>1 DEF IInv, TagInv, OwnerTagged
  <2>5. NoLowLineInHigh'
    BY <2>1 DEF IInv, TagInv, NoLowLineInHigh
  <2>6. HighLineInLowIsClean'
    BY <2>1 DEF IInv, TagInv, HighLineInLowIsClean
  <2> QED BY <2>2, <2>3, <2>4, <2>5, <2>6 DEF TagInv
<1>1. ASSUME NEW a \in Addr,
             RecvRead(a) \/ RecvFetch(a) \/ RecvReadEx(a) \/ RecvUpgrade(a)
      PROVE  TagInv'
  <2> DEFINE w == findBlock(a, tcOf(a))
  <2>1. CASE w = NULL
    BY <1>0, <1>1, <2>1, ZenonT(60) DEF RecvRead, RecvFetch, RecvReadEx, RecvUpgrade, Miss
  <2>2. CASE w # NULL
    BY <1>1, <2>2, SatisfyKeepsTags, ZenonT(60)
       DEF RecvRead, RecvFetch, RecvReadEx, RecvUpgrade, IInv
  <2> QED BY <2>1, <2>2
<1>2. ASSUME NEW a \in Addr, RecvWriteback(a) PROVE TagInv'
  <2>1. l2[a].ver \in Nat
    BY ZenonT(60) DEF IInv, TypeOK
  <2> QED BY <1>0, <1>2, <2>1, AcceptWritebackKeepsTags
             DEF RecvWriteback, Stop, IInv
<1>3. ASSUME NEW a \in Addr, L2Write(a) \/ L2Drop(a) PROVE TagInv'
  BY <1>0, <1>3, SMTT(60) DEF L2Write, L2Drop
<1>4. ASSUME NEW a \in Addr, RecvFill(a) PROVE TagInv'
  <2>1. mshr[a].ver \in Nat
    BY DEF IInv, TypeOK
  <2> QED BY <1>0, <1>4, <2>1, FillKeepsTags DEF RecvFill, Stop, IInv
<1>5. ASSUME NEW a \in Addr, RecvUpgradeResp(a) \/ SendWriteback(a) PROVE TagInv'
  BY <1>0, <1>5 DEF RecvUpgradeResp, SendWriteback
<1>6. ASSUME NEW tc \in TC, SendMiss(tc) PROVE TagInv'
  BY <1>0, <1>6 DEF SendMiss, Stop
<1>7. CASE IncSize
  BY <1>7, IncSizeKeepsTags DEF IInv
<1>8. CASE DecSize
  BY <1>8, DecSizeKeepsTags DEF IInv
<1>9. CASE UNCHANGED vars
  BY <1>0, <1>9 DEF vars, cacheVars
<1> QED BY <1>1, <1>2, <1>3, <1>4, <1>5, <1>6, <1>7, <1>8, <1>9
           DEF Next, Request, Response

\* The inductive invariant.
THEOREM Invariance == Spec => []IInv
<1>1. Init => IInv
  <2> SUFFICES ASSUME Init PROVE IInv
    OBVIOUS
  <2>1. TagInv
    BY TagsInitInv DEF Init
  <2>2. RestTypeOK
    BY DEF Init, RestTypeOK, NoMSHR, NoLine, Cmd, TC
  <2>3. static_cache \in BOOLEAN
    BY DEF Init
  <2> QED BY <2>1, <2>2, <2>3 DEF IInv, TypeOK, RestTypeOK, TagInv
<1>2. IInv /\ [Next]_vars => IInv'
  <2> SUFFICES ASSUME IInv, [Next]_vars PROVE IInv'
    OBVIOUS
  <2>1. TagInv'
    BY StepKeepsTags
  <2>2. RestTypeOK'
    BY StepKeepsTypes
  <2>3. (static_cache \in BOOLEAN)'
    BY DEF IInv, TypeOK, Next, vars
  <2> QED BY <2>1, <2>2, <2>3, ZenonT(60) DEF IInv, TypeOK, RestTypeOK, TagInv
<1> QED BY <1>1, <1>2, PTL DEF Spec

\* Type correctness of the cache, its buffers and the caches above it.
THEOREM TypeCorrect == Spec => []TypeOK
BY Invariance, PTL DEF IInv

\* Whatever the sequence of accesses and resizes, no way of a set is lost or in
\* both partitions and the partitions keep their minimal sizes.
THEOREM PartitionIsKept == Spec => []Partitioned
BY Invariance, PTL DEF IInv, TagInv

\* The High partition never holds a valid line of Low.
THEOREM HighIsFreeOfLow == Spec => []NoLowLineInHigh
BY Invariance, PTL DEF IInv, TagInv

\* A line of High that a resize leaves in the Low partition is clean.
THEOREM LowEvictsHighSilently == Spec => []HighLineInLowIsClean
BY Invariance, PTL DEF IInv, TagInv

\* A cached line carries the compartment of its address, in either partition.
THEOREM LinesKeepTheirOwner == Spec => []OwnerTagged
BY Invariance, PTL DEF IInv, TagInv
=============================================================================
