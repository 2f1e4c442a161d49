-------------------------- MODULE CacheSetProofs ---------------------------
(***************************************************************************)
(* Lemmas about CacheSet: the reordering operations permute a set, and     *)
(* findBlk finds a block exactly if there is one.                          *)
(***************************************************************************)
EXTENDS CacheSet, WellFoundedInduction, TLAPS

\* What the reordering operations of CacheSet keep.
IsReordering(new, old, S) ==
    /\ new \in Seq(S)
    /\ Len(new) = Len(old)
    /\ Injective(new)
    /\ \A w : In(new, w) <=> In(old, w)

\* Position finds a way that is in the set.
LEMMA PositionIsPosition ==
    ASSUME NEW set, NEW w, In(set, w)
    PROVE  Position(set, w) \in 1..Len(set) /\ set[Position(set, w)] = w
BY DEF In, Position

\* moveToHead permutes the set.
LEMMA MoveToHeadReorders ==
    ASSUME NEW S, NEW set \in Seq(S), Injective(set), NEW w, In(set, w)
    PROVE  IsReordering(moveToHead(set, w), set, S)
<1> DEFINE p == Position(set, w)
           r == moveToHead(set, w)
<1>1. p \in 1..Len(set) /\ set[p] = w /\ Len(set) \in Nat
  BY PositionIsPosition
<1>2. r = [i \in 1..Len(set) |->
             IF i = 1 THEN w ELSE IF i <= p THEN set[i - 1] ELSE set[i]]
  BY DEF moveToHead
<1> HIDE DEF p, r
<1>3. \A i \in 1..Len(set) : set[i] \in S
  OBVIOUS
<1>4. r \in Seq(S) /\ Len(r) = Len(set)
  <2>1. \A i \in 1..Len(set) : r[i] \in S
    BY <1>1, <1>2, <1>3
  <2>2. r \in [1..Len(set) -> S]
    BY <1>2, <2>1
  <2> QED BY <1>1, <2>2
<1> DEFINE src == [i \in 1..Len(set) |-> IF i = 1 THEN p ELSE IF i <= p THEN i - 1 ELSE i]
<1>8. \A i \in 1..Len(set) : src[i] \in 1..Len(set) /\ r[i] = set[src[i]]
  BY <1>1, <1>2
<1>9. \A i, j \in 1..Len(set) : src[i] = src[j] => i = j
  BY <1>1
<1>10. ASSUME NEW k \in 1..Len(set)
      PROVE  \E i \in 1..Len(set) : src[i] = k
  <2>1. CASE k < p
    <3>1. k + 1 \in 1..Len(set) /\ src[k + 1] = k
      BY <1>1, <2>1
    <3> QED BY <3>1
  <2>2. CASE k = p
    <3>1. 1 \in 1..Len(set) /\ src[1] = k
      BY <1>1, <2>2
    <3> QED BY <3>1
  <2>3. CASE k > p
    <3>1. k \in 1..Len(set) /\ src[k] = k
      BY <1>1, <2>3
    <3> QED BY <3>1
  <2> QED BY <1>1, <2>1, <2>2, <2>3
<1> HIDE DEF src
<1>5. Injective(r)
  <2> SUFFICES ASSUME NEW i \in 1..Len(set), NEW j \in 1..Len(set), r[i] = r[j]
               PROVE  i = j
    BY <1>4 DEF Injective
  <2>1. set[src[i]] = set[src[j]] /\ src[i] \in 1..Len(set)
                                  /\ src[j] \in 1..Len(set)
    BY <1>8
  <2>2. src[i] = src[j]
    BY <2>1 DEF Injective
  <2> QED BY <1>9, <2>2
<1>6. ASSUME NEW x, In(r, x) PROVE In(set, x)
  BY <1>8, <1>4, <1>6 DEF In
<1>7. ASSUME NEW x, In(set, x) PROVE In(r, x)
  <2>1. PICK k \in 1..Len(set) : set[k] = x
    BY <1>7 DEF In
  <2>2. PICK i \in 1..Len(set) : src[i] = k
    BY <1>10
  <2>3. i \in 1..Len(r) /\ r[i] = x
    BY <1>8, <1>4, <2>1, <2>2
  <2> QED BY <2>3 DEF In
<1> QED BY <1>4, <1>5, <1>6, <1>7 DEF IsReordering, r

\* moveToTail permutes the set.
LEMMA MoveToTailReorders ==
    ASSUME NEW S, NEW set \in Seq(S), Injective(set), NEW w, In(set, w)
    PROVE  IsReordering(moveToTail(set, w), set, S)
<1> DEFINE p == Position(set, w)
           r == moveToTail(set, w)
<1>1. p \in 1..Len(set) /\ set[p] = w /\ Len(set) \in Nat
  BY PositionIsPosition
<1>2. r = [i \in 1..Len(set) |->
             IF i = Len(set) THEN w ELSE IF i < p THEN set[i] ELSE set[i + 1]]
  BY DEF moveToTail
<1> HIDE DEF p, r
<1>3. \A i \in 1..Len(set) : set[i] \in S
  OBVIOUS
<1>4. r \in Seq(S) /\ Len(r) = Len(set)
  <2>1. \A i \in 1..Len(set) : r[i] \in S
    BY <1>1, <1>2, <1>3
  <2>2. r \in [1..Len(set) -> S]
    BY <1>2, <2>1
  <2> QED BY <1>1, <2>2
<1> DEFINE src == [i \in 1..Len(set) |-> IF i = Len(set) THEN p ELSE IF i < p THEN i ELSE i + 1]
<1>8. \A i \in 1..Len(set) : src[i] \in 1..Len(set) /\ r[i] = set[src[i]]
  BY <1>1, <1>2
<1>9. \A i, j \in 1..Len(set) : src[i] = src[j] => i = j
  BY <1>1
<1>10. ASSUME NEW k \in 1..Len(set)
      PROVE  \E i \in 1..Len(set) : src[i] = k
  <2>1. CASE k < p
    <3>1. k \in 1..Len(set) /\ src[k] = k
      BY <1>1, <2>1
    <3> QED BY <3>1
  <2>2. CASE k = p
    <3>1. Len(set) \in 1..Len(set) /\ src[Len(set)] = k
      BY <1>1, <2>2
    <3> QED BY <3>1
  <2>3. CASE k > p
    <3>1. k - 1 \in 1..Len(set) /\ src[k - 1] = k
      BY <1>1, <2>3
    <3> QED BY <3>1
  <2> QED BY <1>1, <2>1, <2>2, <2>3
<1> HIDE DEF src
<1>5. Injective(r)
  <2> SUFFICES ASSUME NEW i \in 1..Len(set), NEW j \in 1..Len(set), r[i] = r[j]
               PROVE  i = j
    BY <1>4 DEF Injective
  <2>1. set[src[i]] = set[src[j]] /\ src[i] \in 1..Len(set)
                                  /\ src[j] \in 1..Len(set)
    BY <1>8
  <2>2. src[i] = src[j]
    BY <2>1 DEF Injective
  <2> QED BY <1>9, <2>2
<1>6. ASSUME NEW x, In(r, x) PROVE In(set, x)
  BY <1>8, <1>4, <1>6 DEF In
<1>7. ASSUME NEW x, In(set, x) PROVE In(r, x)
  <2>1. PICK k \in 1..Len(set) : set[k] = x
    BY <1>7 DEF In
  <2>2. PICK i \in 1..Len(set) : src[i] = k
    BY <1>10
  <2>3. i \in 1..Len(r) /\ r[i] = x
    BY <1>8, <1>4, <2>1, <2>2
  <2> QED BY <2>3 DEF In
<1> QED BY <1>4, <1>5, <1>6, <1>7 DEF IsReordering, r

\* Every non-empty set of natural numbers has a least element.
LEMMA LeastNat ==
    ASSUME NEW M \in SUBSET Nat, M # {}
    PROVE  \E i \in M : \A j \in M : i <= j
<1>1. PICK x \in M : \A y \in M : ~(<<y, x>> \in OpToRel(<, Nat))
  BY WFMin, NatLessThanWellFounded
<1>2. \A y \in M : ~(y < x)
  BY <1>1, ZenonT(60) DEF OpToRel
<1> QED BY <1>2

\* findBlk returns NULL or a valid block of the set with the tag.
LEMMA FindBlkFinds ==
    ASSUME NEW S, NEW set \in Seq(S), NEW b, NEW tag, findBlk(set, b, tag) # NULL
    PROVE  LET w == findBlk(set, b, tag)
           IN  In(set, w) /\ b[w].tag = tag /\ b[w].valid
<1> DEFINE M == Matches(set, b, tag)
<1>1. M # {} /\ M \in SUBSET Nat /\ M \subseteq 1..Len(set)
  BY DEF findBlk, Matches
<1>2. \E i \in M : \A j \in M : i <= j
  BY <1>1, LeastNat, ZenonT(60)
<1> DEFINE i == CHOOSE k \in M : \A j \in M : k <= j
<1>3. i \in M
  BY <1>2
<1>4. findBlk(set, b, tag) = set[i]
  BY <1>1 DEF findBlk
<1> HIDE DEF i
<1>5. i \in 1..Len(set) /\ b[set[i]].tag = tag /\ b[set[i]].valid
  BY <1>3 DEF Matches
<1> QED BY <1>4, <1>5 DEF In

\* findBlk finds a valid block of the set with the tag if there is one.
LEMMA FindBlkMisses ==
    ASSUME NEW set, NEW b, NEW tag, findBlk(set, b, tag) = NULL,
           \A i \in 1..Len(set) : set[i] # NULL, Len(set) \in Nat
    PROVE  \A w : In(set, w) => ~(b[w].tag = tag /\ b[w].valid)
<1> DEFINE M == Matches(set, b, tag)
<1>1. CASE M = {}
  BY <1>1 DEF Matches, In
<1>2. CASE M # {}
  <2>1. M \in SUBSET Nat /\ M \subseteq 1..Len(set)
    BY DEF Matches
  <2>2. \E i \in M : \A j \in M : i <= j
    BY <1>2, <2>1, LeastNat, ZenonT(60)
  <2> DEFINE i == CHOOSE k \in M : \A j \in M : k <= j
  <2>3. i \in M
    BY <2>2
  <2>4. findBlk(set, b, tag) = set[i]
    BY <1>2 DEF findBlk
  <2> HIDE DEF i
  <2> QED BY <2>1, <2>3, <2>4
<1> QED BY <1>1, <1>2
=============================================================================
