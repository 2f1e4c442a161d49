------------------------ MODULE UtilityMonitorProofs ------------------------
(***************************************************************************)
(* Proofs about UtilityMonitor, for every associativity, miss curve and    *)
(* number of sets and tags.                                                *)
(***************************************************************************)
EXTENDS UtilityMonitor, CacheSetProofs, SequenceTheorems

\* The sizes.
LEMMA SizeFacts ==
    /\ assoc \in Nat /\ assoc >= 2 /\ H_min \in Nat /\ H_min >= 1
    /\ L_init \in 1..(assoc - H_min) /\ MaxAccess \in Nat
BY MonitorAssumption

----------------------------------------------------------------------------
(* One set *)

\* The shadow set u: every tag is in it once.
ShadowOK(u) ==
    /\ u \in [1..assoc -> Tag \union {NoTag}]
    /\ \A i, j \in 1..assoc : u[i] = u[j] /\ u[i] # NoTag => i = j

\* The cache w with k ways holds the first k tags of the shadow set u.
Prefix(w, k, u) ==
    /\ w \in Seq(Tag) /\ Len(w) <= k
    /\ \A i \in 1..k : u[i] = IF i <= Len(w) THEN w[i] ELSE NoTag

\* The shadow set after an access: the tag comes from position p.
Fronted(u, tag, p) ==
    [i \in 1..assoc |-> IF i = 1 THEN tag ELSE IF i <= p THEN u[i - 1] ELSE u[i]]

\* A tag is in the shadow set at one position.
LEMMA OnePosition ==
    ASSUME NEW u, ShadowOK(u), NEW tag \in Tag, NEW p \in 1..assoc, u[p] = tag
    PROVE  In(u, tag) /\ Position(u, tag) = p
<1>1. u \in Seq(Tag \union {NoTag}) /\ Len(u) = assoc /\ tag # NoTag
  BY SizeFacts, MonitorAssumption DEF ShadowOK
<1>2. In(u, tag)
  BY <1>1 DEF In
<1>3. Position(u, tag) \in 1..assoc /\ u[Position(u, tag)] = tag
  BY <1>1, <1>2, PositionIsPosition
<1> QED BY <1>1, <1>2, <1>3 DEF ShadowOK

\* An access that hits moves the tag to the front.
LEMMA HitFronts ==
    ASSUME NEW u, ShadowOK(u), NEW tag \in Tag, In(u, tag)
    PROVE  /\ Position(u, tag) \in 1..assoc /\ u[Position(u, tag)] = tag
           /\ moveToHead(u, tag) = Fronted(u, tag, Position(u, tag))
<1>1. u \in Seq(Tag \union {NoTag}) /\ Len(u) = assoc
  BY SizeFacts DEF ShadowOK
<1>2. Position(u, tag) \in 1..assoc /\ u[Position(u, tag)] = tag
  BY <1>1, PositionIsPosition
<1> QED BY <1>1, <1>2 DEF moveToHead, Fronted

\* One that misses drops the last tag.
LEMMA MissFronts ==
    ASSUME NEW u, ShadowOK(u), NEW tag \in Tag, ~In(u, tag)
    PROVE  moveToHead([u EXCEPT ![assoc] = tag], tag) = Fronted(u, tag, assoc)
<1> DEFINE v == [u EXCEPT ![assoc] = tag]
<1>1. u \in Seq(Tag \union {NoTag}) /\ Len(u) = assoc /\ assoc \in 1..assoc
  BY SizeFacts DEF ShadowOK
<1>2. u \in [1..assoc -> Tag \union {NoTag}] /\ \A i \in 1..assoc : u[i] # tag
  BY <1>1 DEF In, ShadowOK
<1>3. /\ v \in [1..assoc -> Tag \union {NoTag}] /\ v[assoc] = tag
      /\ \A i \in 1..assoc : i # assoc => v[i] = u[i]
  BY <1>1, <1>2
<1>4. v \in Seq(Tag \union {NoTag}) /\ Len(v) = assoc
  BY <1>1, <1>3, SizeFacts
<1> HIDE DEF v
<1>5. In(v, tag)
  BY <1>1, <1>3, <1>4 DEF In
<1>6. Position(v, tag) \in 1..assoc /\ v[Position(v, tag)] = tag
  BY <1>4, <1>5, PositionIsPosition
<1>7. Position(v, tag) = assoc
  BY <1>2, <1>3, <1>6
<1>8. moveToHead(v, tag) = [i \in 1..assoc |->
         IF i = 1 THEN tag ELSE IF i <= assoc THEN v[i - 1] ELSE v[i]]
  BY <1>4, <1>7 DEF moveToHead
<1>9. \A i \in 1..assoc : i # 1 => i - 1 \in 1..assoc /\ i - 1 # assoc
  BY SizeFacts
<1>10. \A i \in 1..assoc :
         (IF i = 1 THEN tag ELSE IF i <= assoc THEN v[i - 1] ELSE v[i])
          = (IF i = 1 THEN tag ELSE IF i <= assoc THEN u[i - 1] ELSE u[i])
  BY <1>3, <1>9, SizeFacts
<1> QED BY <1>8, <1>10, ZenonT(60) DEF Fronted, v

\* The shadow set keeps its shape.
LEMMA FrontedOK ==
    ASSUME NEW u, ShadowOK(u), NEW tag \in Tag, NEW p \in 1..assoc,
           u[p] = tag \/ (p = assoc /\ ~In(u, tag))
    PROVE  ShadowOK(Fronted(u, tag, p))
<1> DEFINE f == Fronted(u, tag, p)
<1>1. /\ u \in [1..assoc -> Tag \union {NoTag}] /\ u \in Seq(Tag \union {NoTag})
      /\ Len(u) = assoc /\ tag # NoTag /\ assoc \in Nat /\ p \in Nat
  BY SizeFacts, MonitorAssumption DEF ShadowOK
<1>2. f \in [1..assoc -> Tag \union {NoTag}]
  <2>1. ASSUME NEW i \in 1..assoc
        PROVE  (IF i = 1 THEN tag ELSE IF i <= p THEN u[i - 1] ELSE u[i])
                    \in Tag \union {NoTag}
    <3>1. i # 1 => i - 1 \in 1..assoc
      BY <1>1
    <3> QED BY <1>1, <3>1
  <2> QED BY <2>1 DEF Fronted
<1>3. \A i \in 1..assoc :
         f[i] = IF i = 1 THEN tag ELSE IF i <= p THEN u[i - 1] ELSE u[i]
  BY DEF Fronted
<1> HIDE DEF f
<1>4. \A i \in 1..assoc : i # p => u[i] # tag
  BY <1>1 DEF ShadowOK, In
<1>5. ASSUME NEW i \in 1..assoc, i # 1
      PROVE  \E x \in 1..assoc : x # p /\ f[i] = u[x]
                                 /\ x = IF i <= p THEN i - 1 ELSE i
  BY <1>1, <1>3, <1>5
<1>6. ASSUME NEW i \in 1..assoc, NEW j \in 1..assoc, f[i] = f[j], f[i] # NoTag
      PROVE  i = j
  <2>1. CASE i = 1 \/ j = 1
    <3>1. 1 \in 1..assoc /\ f[1] = tag
      BY <1>1, <1>3
    <3> QED BY <1>4, <1>5, <1>6, <2>1, <3>1
  <2>2. CASE i # 1 /\ j # 1
    <3>1. PICK x \in 1..assoc : x # p /\ f[i] = u[x] /\ x = IF i <= p THEN i - 1 ELSE i
      BY <1>5, <2>2
    <3>2. PICK y \in 1..assoc : y # p /\ f[j] = u[y] /\ y = IF j <= p THEN j - 1 ELSE j
      BY <1>5, <2>2
    <3>3. x = y
      BY <1>6, <3>1, <3>2, ZenonT(60) DEF ShadowOK
    <3> QED BY <1>1, <3>1, <3>2, <3>3
  <2> QED BY <2>1, <2>2
<1> QED BY <1>2, <1>6 DEF ShadowOK, f

\* The reference cache after an access: the tag comes from p.
LEMMA RecentIs ==
    ASSUME NEW w \in Seq(Tag), NEW k \in Nat \ {0}, Len(w) <= k, NEW tag \in Tag,
           NEW p, p = IF In(w, tag) THEN Position(w, tag) ELSE Len(w) + 1
    PROVE  LET r == Recent(w, k, tag)
               n == IF In(w, tag) THEN Len(w) ELSE Len(w) + 1
           IN  /\ r \in Seq(Tag) /\ Len(r) = IF n < k THEN n ELSE k
               /\ \A i \in 1..Len(r) : r[i] = IF i = 1 THEN tag
                                              ELSE IF i <= p THEN w[i - 1] ELSE w[i]
<1> DEFINE n == IF In(w, tag) THEN Len(w) ELSE Len(w) + 1
           a == SubSeq(w, 1, p - 1)
           b == SubSeq(w, p + 1, Len(w))
           moved == <<tag>> \o a \o b
           m == IF Len(moved) < k THEN Len(moved) ELSE k
<1>1. Len(w) \in Nat /\ p \in 1..(Len(w) + 1) /\ (In(w, tag) => p \in 1..Len(w))
  BY PositionIsPosition
<1>2. a \in Seq(Tag) /\ Len(a) = p - 1 /\ \A i \in 1..(p - 1) : a[i] = w[i]
  BY <1>1
<1>3. /\ b \in Seq(Tag) /\ Len(b) = IF p <= Len(w) THEN Len(w) - p ELSE 0
      /\ \A i \in 1..Len(b) : b[i] = w[p + i]
  BY <1>1, SMTT(60)
<1> HIDE DEF a, b
<1>4. <<tag>> \o a \in Seq(Tag) /\ Len(<<tag>> \o a) = p /\ (<<tag>> \o a)[1] = tag
      /\ \A i \in 2..p : (<<tag>> \o a)[i] = w[i - 1]
  <2>1. <<tag>> \in Seq(Tag) /\ Len(<<tag>>) = 1 /\ <<tag>>[1] = tag
    OBVIOUS
  <2> DEFINE t == <<tag>>
  <2> HIDE DEF t
  <2>2. /\ t \o a \in Seq(Tag) /\ Len(t \o a) = Len(t) + Len(a)
        /\ \A i \in 1..(Len(t) + Len(a)) :
              (t \o a)[i] = IF i <= Len(t) THEN t[i] ELSE a[i - Len(t)]
    BY <1>2, <2>1, ConcatProperties DEF t
  <2>3. Len(t) = 1 /\ t[1] = tag /\ Len(t) + Len(a) = p
    BY <1>1, <1>2, <2>1 DEF t
  <2>4. \A i \in 2..p : i \in 1..p /\ ~(i <= 1) /\ i - 1 \in 1..(p - 1)
    BY <1>1
  <2>5. 1 \in 1..p
    BY <1>1
  <2>6. t \o a \in Seq(Tag) /\ Len(t \o a) = p /\ (t \o a)[1] = tag
        /\ \A i \in 2..p : (t \o a)[i] = w[i - 1]
    BY <1>2, <2>2, <2>3, <2>4, <2>5
  <2> QED BY <2>6 DEF t
<1> DEFINE c == <<tag>> \o a
<1> HIDE DEF c
<1>5. moved = c \o b /\ c \in Seq(Tag) /\ Len(c) = p /\ c[1] = tag
      /\ \A i \in 2..p : c[i] = w[i - 1]
  BY <1>4 DEF c
<1>6. Len(b) \in Nat /\ p + Len(b) = n
  BY <1>1, <1>3
<1> HIDE DEF moved
<1>7. /\ moved \in Seq(Tag) /\ Len(moved) = p + Len(b)
      /\ \A i \in 1..p : moved[i] = c[i]
      /\ \A i \in (p + 1)..(p + Len(b)) : moved[i] = b[i - p]
  <2>1. /\ c \o b \in Seq(Tag) /\ Len(c \o b) = Len(c) + Len(b)
        /\ \A i \in 1..(Len(c) + Len(b)) :
              (c \o b)[i] = IF i <= Len(c) THEN c[i] ELSE b[i - Len(c)]
    BY <1>3, <1>5, ConcatProperties, ZenonT(60)
  <2>2. \A i \in 1..p : i \in 1..(p + Len(b)) /\ i <= p
    BY <1>1, <1>6
  <2>3. \A i \in (p + 1)..(p + Len(b)) : i \in 1..(p + Len(b)) /\ ~(i <= p)
    BY <1>1, <1>6
  <2> QED BY <1>5, <2>1, <2>2, <2>3, ZenonT(60)
<1>8. \A i \in 1..n : moved[i] = IF i = 1 THEN tag ELSE IF i <= p THEN w[i - 1] ELSE w[i]
  <2> SUFFICES ASSUME NEW i \in 1..n
               PROVE  moved[i] = IF i = 1 THEN tag ELSE IF i <= p THEN w[i - 1] ELSE w[i]
    OBVIOUS
  <2>1. n \in Nat
    BY <1>1
  <2>2. CASE i <= p
    BY <1>1, <1>5, <1>7, <2>1, <2>2, SMTT(60)
  <2>3. CASE i > p
    <3>1. i \in (p + 1)..(p + Len(b)) /\ i - p \in 1..Len(b) /\ p + (i - p) = i
      BY <1>1, <1>6, <2>1, <2>3, SMTT(60)
    <3>2. moved[i] = w[p + (i - p)]
      BY <1>3, <1>7, <3>1
    <3> QED BY <1>1, <2>3, <3>1, <3>2
  <2> QED BY <1>1, <2>1, <2>2, <2>3
<1>9. Recent(w, k, tag) = SubSeq(moved, 1, m)
  BY DEF Recent, moved, a, b
<1>10. Len(moved) = n /\ n \in Nat /\ n >= 1
  BY <1>1, <1>6, <1>7
<1>11. m \in Nat /\ m <= Len(moved) /\ m = IF n < k THEN n ELSE k
  BY <1>10
<1> HIDE DEF m
<1>12. /\ SubSeq(moved, 1, m) \in Seq(Tag) /\ Len(SubSeq(moved, 1, m)) = m
       /\ \A i \in 1..m : SubSeq(moved, 1, m)[i] = moved[i]
  BY <1>7, <1>11
<1>13. \A i \in 1..m : i \in 1..n
  BY <1>10, <1>11
<1> QED BY <1>8, <1>9, <1>11, <1>12, <1>13

\* An access keeps the shadow set and the cache with k ways together, and the
\* cache hits exactly if the tag is among the first k of the shadow set.
LEMMA PrefixStep ==
    ASSUME NEW u, ShadowOK(u), NEW tag \in Tag, NEW p \in 1..assoc,
           u[p] = tag \/ (p = assoc /\ ~In(u, tag)),
           NEW k \in 1..assoc, NEW w, Prefix(w, k, u)
    PROVE  /\ Prefix(Recent(w, k, tag), k, Fronted(u, tag, p))
           /\ In(w, tag) <=> u[p] = tag /\ p <= k
<1> DEFINE q == IF In(w, tag) THEN Position(w, tag) ELSE Len(w) + 1
           n == IF In(w, tag) THEN Len(w) ELSE Len(w) + 1
           r == Recent(w, k, tag)
           f == Fronted(u, tag, p)
<1>1. /\ w \in Seq(Tag) /\ Len(w) \in Nat /\ Len(w) <= k /\ k \in Nat \ {0}
      /\ \A i \in 1..k : u[i] = IF i <= Len(w) THEN w[i] ELSE NoTag
      /\ u \in Seq(Tag \union {NoTag}) /\ Len(u) = assoc /\ assoc \in Nat
      /\ p \in Nat /\ tag # NoTag /\ k <= assoc
  <2>1. /\ w \in Seq(Tag) /\ Len(w) <= k
        /\ \A i \in 1..k : u[i] = IF i <= Len(w) THEN w[i] ELSE NoTag
    BY DEF Prefix
  <2>2. u \in Seq(Tag \union {NoTag}) /\ Len(u) = assoc
    BY SizeFacts DEF ShadowOK
  <2>3. assoc \in Nat /\ p \in Nat /\ tag # NoTag /\ k <= assoc /\ k \in Nat \ {0}
    BY SizeFacts, MonitorAssumption
  <2>4. Len(w) \in Nat
    BY <2>1
  <2> QED BY <2>1, <2>2, <2>3, <2>4
<1>2. ASSUME In(w, tag)
      PROVE  u[p] = tag /\ p <= k /\ q = p
  <2>1. q \in 1..Len(w) /\ w[q] = tag
    BY <1>2, PositionIsPosition
  <2>2. q \in 1..k /\ q \in 1..assoc /\ u[q] = tag
    BY <1>1, <2>1
  <2>3. In(u, tag)
    BY <1>1, <2>2 DEF In
  <2>4. u[p] = tag
    BY <2>3
  <2>5. p = q
    BY <1>1, <2>2, <2>4 DEF ShadowOK
  <2> QED BY <2>2, <2>4, <2>5
<1>3. ASSUME u[p] = tag, p <= k
      PROVE  In(w, tag)
  <2>1. p \in 1..k
    BY <1>1, <1>3
  <2>2. p <= Len(w) /\ w[p] = tag
    BY <1>1, <1>3, <2>1
  <2>3. p \in 1..Len(w)
    BY <1>1, <2>2
  <2> QED BY <2>2, <2>3 DEF In
<1>4. /\ r \in Seq(Tag) /\ Len(r) = IF n < k THEN n ELSE k
      /\ \A i \in 1..Len(r) : r[i] = IF i = 1 THEN tag
                                     ELSE IF i <= q THEN w[i - 1] ELSE w[i]
  BY <1>1, RecentIs
<1>5. \A i \in 1..assoc : f[i] = IF i = 1 THEN tag ELSE IF i <= p THEN u[i - 1] ELSE u[i]
  BY DEF Fronted
<1> HIDE DEF r, f
<1>6. ASSUME NEW i \in 1..k
      PROVE  f[i] = IF i <= Len(r) THEN r[i] ELSE NoTag
  <2>1. i \in 1..assoc /\ i \in Nat /\ (i # 1 => i - 1 \in 1..k)
    BY <1>1
  <2>2. CASE i = 1
    <3>1. Len(r) >= 1
      <4>1. CASE In(w, tag)
        BY <1>1, <1>4, <4>1, PositionIsPosition
      <4>2. CASE ~In(w, tag)
        BY <1>1, <1>4, <4>2
      <4> QED BY <4>1, <4>2
    <3>2. 1 \in 1..Len(r) /\ r[1] = tag
      BY <1>4, <3>1
    <3> QED BY <1>5, <2>1, <2>2, <3>1, <3>2
  <2>3. CASE i # 1 /\ In(w, tag)
    <3>1. q = p /\ q \in 1..Len(w) /\ Len(r) = Len(w)
      BY <1>1, <1>2, <1>4, <2>3, PositionIsPosition
    <3> HIDE DEF q
    <3>2. CASE i <= p
      <4>1. i \in 1..Len(r) /\ i - 1 \in 1..Len(w)
        BY <1>1, <2>1, <2>3, <3>1, <3>2
      <4>2. r[i] = w[i - 1] /\ f[i] = u[i - 1] /\ u[i - 1] = w[i - 1]
        BY <1>1, <1>4, <1>5, <2>1, <2>3, <3>1, <3>2, <4>1
      <4> QED BY <4>1, <4>2
    <3>3. CASE i > p
      <4>1. f[i] = u[i]
        BY <1>1, <1>5, <2>1, <2>3, <3>3
      <4>2. i <= Len(r) => r[i] = w[i]
        BY <1>1, <1>4, <2>1, <2>3, <3>1, <3>3
      <4> QED BY <1>1, <3>1, <4>1, <4>2
    <3> QED BY <1>1, <2>1, <3>2, <3>3
  <2>4. CASE i # 1 /\ ~In(w, tag)
    <3>1. i <= p
      BY <1>1, <1>3, <2>1, <2>4
    <3>2. f[i] = u[i - 1]
      BY <1>5, <2>1, <2>4, <3>1
    <3>3. q = Len(w) + 1 /\ n = Len(w) + 1
      BY <2>4
    <3>4. CASE i <= Len(w) + 1
      <4>1. i <= Len(r) /\ i \in 1..Len(r) /\ i - 1 \in 1..Len(w)
        BY <1>1, <1>4, <2>1, <2>4, <3>3, <3>4
      <4>2. r[i] = w[i - 1]
        BY <1>4, <2>4, <3>3, <3>4, <4>1
      <4>3. u[i - 1] = w[i - 1]
        BY <1>1, <2>1, <2>4, <4>1
      <4> QED BY <3>2, <4>1, <4>2, <4>3
    <3>5. CASE i > Len(w) + 1
      <4>1. ~(i <= Len(r)) /\ ~(i - 1 <= Len(w))
        BY <1>1, <1>4, <2>1, <3>3, <3>5
      <4> QED BY <1>1, <2>1, <2>4, <3>2, <4>1
    <3> QED BY <1>1, <2>1, <3>4, <3>5
  <2> QED BY <2>2, <2>3, <2>4
<1>7. Len(r) <= k
  BY <1>1, <1>4
<1> QED BY <1>2, <1>3, <1>4, <1>6, <1>7 DEF Prefix, r, f

----------------------------------------------------------------------------
(* The inductive invariant *)

\* What the sets and the reference caches hold, what the counters say, and that
\* a cache with more ways hits more often.
MonitorInv ==
    /\ L_assoc \in 1..(assoc - H_min) /\ accesses \in 0..MaxAccess
    /\ umon_counters \in [0..(assoc - 1) -> Nat]
    /\ umon_set \in [Sets -> [1..assoc -> Tag \union {NoTag}]]
    /\ ways \in [1..assoc -> [Sets -> Seq(Tag)]]
    /\ hits \in [1..assoc -> Nat]
    /\ \A s \in Sets : ShadowOK(umon_set[s])
    /\ \A k \in 1..assoc : \A s \in Sets : Prefix(ways[k][s], k, umon_set[s])
    /\ CountersPredictHits
    /\ \A j, k \in 1..assoc : j <= k => hits[j] <= hits[k]
    /\ \A k \in 1..assoc : hits[k] <= accesses

\* An access: every cache and the shadow set move on together, and one counter
\* moves with the hits.
LEMMA AccessKeepsMonitor ==
    ASSUME MonitorInv, NEW s \in Sets, NEW tag \in Tag, Access(s, tag)
    PROVE  MonitorInv'
<1> DEFINE u == umon_set[s]
           hit == In(u, tag)
           p == IF hit THEN Position(u, tag) ELSE assoc
           bump == [k \in 1..assoc |-> IF In(ways[k][s], tag) THEN 1 ELSE 0]
<1>1. /\ ShadowOK(u) /\ \A k \in 1..assoc : Prefix(ways[k][s], k, u)
      /\ assoc \in Nat /\ assoc >= 2 /\ MaxAccess \in Nat
  BY SizeFacts DEF MonitorInv
<1>2. p \in 1..assoc /\ (hit <=> u[p] = tag) /\ (u[p] = tag \/ (p = assoc /\ ~hit))
  <2>1. u \in Seq(Tag \union {NoTag}) /\ Len(u) = assoc /\ assoc \in 1..assoc
    BY <1>1 DEF ShadowOK
  <2>2. CASE hit
    BY <1>1, <2>2, HitFronts
  <2>3. CASE ~hit
    BY <2>1, <2>3 DEF In
  <2> QED BY <2>2, <2>3
<1>3. /\ umon_set' = [umon_set EXCEPT ![s] = Fronted(u, tag, p)]
      /\ hit => umon_counters' = [umon_counters EXCEPT ![p - 1] = umon_counters[p - 1] + 1]
      /\ ~hit => umon_counters' = umon_counters
  <2>1. CASE hit
    BY <1>1, <2>1, HitFronts DEF Access, Shadow
  <2>2. CASE ~hit
    BY <1>1, <2>2, MissFronts DEF Access, Shadow
  <2> QED BY <2>1, <2>2
<1>4. /\ ways' = [k \in 1..assoc |-> [ways[k] EXCEPT ![s] = Recent(ways[k][s], k, tag)]]
      /\ hits' = [k \in 1..assoc |-> hits[k] + bump[k]]
      /\ accesses' = accesses + 1 /\ accesses < MaxAccess /\ L_assoc' = L_assoc
  BY DEF Access, Reference
<1> HIDE DEF u, p
<1>5. ShadowOK(Fronted(u, tag, p))
  BY <1>1, <1>2, FrontedOK
<1>6. \A k \in 1..assoc :
         /\ Prefix(Recent(ways[k][s], k, tag), k, Fronted(u, tag, p))
         /\ In(ways[k][s], tag) <=> hit /\ p <= k
  BY <1>1, <1>2, PrefixStep
<1>7. umon_set' \in [Sets -> [1..assoc -> Tag \union {NoTag}]]
  BY <1>3, <1>5 DEF MonitorInv, ShadowOK
<1>8. umon_set'[s] = Fronted(u, tag, p) /\ \A x \in Sets \ {s} : umon_set'[x] = umon_set[x]
  BY <1>3 DEF MonitorInv
<1>9. \A x \in Sets : ShadowOK(umon_set'[x])
  BY <1>5, <1>8 DEF MonitorInv
<1>10. ways' \in [1..assoc -> [Sets -> Seq(Tag)]]
  <2>1. \A k \in 1..assoc : Recent(ways[k][s], k, tag) \in Seq(Tag)
    BY <1>6 DEF Prefix
  <2> QED BY <1>4, <2>1 DEF MonitorInv
<1>11. \A k \in 1..assoc : /\ ways'[k][s] = Recent(ways[k][s], k, tag)
                           /\ \A x \in Sets \ {s} : ways'[k][x] = ways[k][x]
  BY <1>4 DEF MonitorInv
<1>12. \A k \in 1..assoc : \A x \in Sets : Prefix(ways'[k][x], k, umon_set'[x])
  BY <1>6, <1>8, <1>11, ZenonT(60) DEF MonitorInv
<1>13. \A k \in 1..assoc : /\ bump[k] = (IF hit /\ p <= k THEN 1 ELSE 0)
                           /\ hits'[k] = hits[k] + bump[k] /\ hits[k] \in Nat
  BY <1>4, <1>6 DEF MonitorInv
<1> HIDE DEF bump, hit
<1>14. hits' \in [1..assoc -> Nat]
  <2>1. \A k \in 1..assoc : hits[k] + bump[k] \in Nat
    BY <1>13
  <2> QED BY <1>4, <2>1
<1>15. \A j, k \in 1..assoc : j <= k => hits'[j] <= hits'[k]
  <2> SUFFICES ASSUME NEW j \in 1..assoc, NEW k \in 1..assoc, j <= k
               PROVE  hits'[j] <= hits'[k]
    OBVIOUS
  <2>1. hits[j] <= hits[k]
    BY DEF MonitorInv
  <2>2. bump[j] <= bump[k]
    BY <1>2, <1>13
  <2> QED BY <1>13, <2>1, <2>2
<1>16. \A k \in 1..assoc : hits'[k] <= accesses'
  <2> SUFFICES ASSUME NEW k \in 1..assoc PROVE hits'[k] <= accesses'
    OBVIOUS
  <2>1. hits[k] <= accesses /\ accesses \in Nat
    BY <1>1 DEF MonitorInv
  <2> QED BY <1>4, <1>13, <2>1
<1>17. \A k \in 1..assoc : /\ umon_counters[k - 1] \in Nat
                           /\ umon_counters'[k - 1] = umon_counters[k - 1]
                                                    + (IF hit /\ p = k THEN 1 ELSE 0)
  <2> SUFFICES ASSUME NEW k \in 1..assoc
               PROVE  /\ umon_counters[k - 1] \in Nat
                      /\ umon_counters'[k - 1] = umon_counters[k - 1]
                                               + (IF hit /\ p = k THEN 1 ELSE 0)
    OBVIOUS
  <2>1. k - 1 \in 0..(assoc - 1) /\ p - 1 \in 0..(assoc - 1) /\ (k - 1 = p - 1 <=> k = p)
    BY <1>1, <1>2
  <2>2. umon_counters \in [0..(assoc - 1) -> Nat] /\ umon_counters[k - 1] \in Nat
    BY <2>1, ZenonT(60) DEF MonitorInv
  <2>3. CASE hit
    BY <1>3, <2>1, <2>2, <2>3
  <2>4. CASE ~hit
    BY <1>3, <2>2, <2>4
  <2> QED BY <2>3, <2>4
<1>18. CountersPredictHits'
  <2> SUFFICES ASSUME NEW k \in 1..assoc
               PROVE  umon_counters'[k - 1]
                        = hits'[k] - (IF k = 1 THEN 0 ELSE hits'[k - 1])
    BY DEF CountersPredictHits
  <2>1. umon_counters[k - 1] = hits[k] - (IF k = 1 THEN 0 ELSE hits[k - 1])
    BY DEF MonitorInv, CountersPredictHits
  <2>2. CASE k = 1
    BY <1>2, <1>13, <1>17, <2>1, <2>2
  <2>3. CASE k # 1
    <3>1. k - 1 \in 1..assoc
      BY <1>1, <2>3
    <3> QED BY <1>2, <1>13, <1>17, <2>1, <2>3, <3>1
  <2> QED BY <2>2, <2>3
<1>19. umon_counters' \in [0..(assoc - 1) -> Nat]
  <2>1. umon_counters \in [0..(assoc - 1) -> Nat]
    BY ZenonT(60) DEF MonitorInv
  <2>2. p - 1 \in 0..(assoc - 1) /\ umon_counters[p - 1] + 1 \in Nat
    BY <1>1, <1>2, <2>1
  <2> QED BY <1>3, <2>1, <2>2
<1>20. L_assoc' \in 1..(assoc - H_min) /\ accesses' \in 0..MaxAccess
  BY <1>1, <1>4 DEF MonitorInv
<1> QED BY <1>7, <1>9, <1>10, <1>12, <1>14, <1>15, <1>16, <1>18, <1>19, <1>20
        DEF MonitorInv

\* The sizes when the partition is adjusted, and what the utilities say of it.
LEMMA ResizeFacts ==
    ASSUME MonitorInv, adjustPartition
    PROVE  /\ L_assoc' \in 1..(assoc - H_min)
           /\ L_assoc' > L_assoc =>
                 /\ L_assoc + 2 <= assoc
                 /\ umon_counters[L_assoc + 1]
                       > miss_curve[H_assoc - 1] - miss_curve[H_assoc]
           /\ L_assoc' < L_assoc => miss_curve[H_assoc] > miss_curve[H_assoc + 1]
<1>1. PICK hi \in lookup_umon(L_assoc + 1), lo \in lookup_umon(L_assoc) :
        L_assoc' = Resized(Uinc(hi), Udec(lo))
  BY DEF adjustPartition
<1>2. /\ assoc \in Nat /\ H_min \in Nat /\ H_min >= 1 /\ L_assoc \in Nat /\ L_assoc >= 1
      /\ L_assoc <= assoc - H_min /\ H_assoc = assoc - L_assoc /\ L_assoc + 1 <= assoc
  BY SizeFacts DEF MonitorInv, H_assoc
<1>3. /\ miss_curve[H_assoc] \in Int /\ miss_curve[H_assoc - 1] \in Int
      /\ miss_curve[H_assoc + 1] \in Int
  <2>1. H_assoc \in 0..assoc /\ H_assoc - 1 \in 0..assoc /\ H_assoc + 1 \in 0..assoc
    BY <1>2
  <2> QED BY <2>1, MonitorAssumption
<1>4. hi \in Nat /\ lo \in Nat
      /\ (L_assoc + 1 < assoc => hi = umon_counters[L_assoc + 1])
  <2>1. \A i \in Nat : i < assoc => umon_counters[i] \in Nat
    BY <1>2 DEF MonitorInv
  <2>2. \A i \in Nat : /\ \A x \in lookup_umon(i) : x \in Nat
                       /\ i < assoc => \A x \in lookup_umon(i) : x = umon_counters[i]
    BY <1>2, <2>1, MonitorAssumption, ZenonT(60) DEF lookup_umon
  <2>3. L_assoc + 1 \in Nat /\ hi \in lookup_umon(L_assoc + 1) /\ lo \in lookup_umon(L_assoc)
    BY <1>1, <1>2
  <2> QED BY <1>2, <2>2, <2>3
<1> DEFINE a == miss_curve[H_assoc]
           b == miss_curve[H_assoc - 1]
           c == miss_curve[H_assoc + 1]
<1>5. Uinc(hi) = hi + (a - b) /\ Udec(lo) = (0 - lo) + (a - c)
  BY <1>2 DEF Uinc, Udec
<1> HIDE DEF a, b, c
<1>6. a \in Int /\ b \in Int /\ c \in Int
  BY <1>3 DEF a, b, c
<1> DEFINE inc == Uinc(hi)
           dec == Udec(lo)
<1>7. L_assoc' = IF inc > 0 /\ inc >= dec
                 THEN IF H_assoc = H_min THEN L_assoc ELSE L_assoc + 1
                 ELSE IF dec > 0 /\ dec >= inc
                      THEN IF L_assoc = 1 THEN L_assoc ELSE L_assoc - 1
                      ELSE L_assoc
  BY <1>1 DEF Resized
<1>8. L_assoc' \in 1..(assoc - H_min)
  BY <1>2, <1>7
<1>9. ASSUME L_assoc' > L_assoc
      PROVE  L_assoc + 2 <= assoc /\ umon_counters[L_assoc + 1] > b - a
  <2>1. inc > 0 /\ H_assoc # H_min
    BY <1>2, <1>7, <1>9
  <2>2. L_assoc + 1 < assoc
    BY <1>2, <2>1
  <2> QED BY <1>2, <1>4, <1>5, <1>6, <2>1, <2>2
<1>10. ASSUME L_assoc' < L_assoc PROVE a > c
  <2>1. dec > 0
    BY <1>2, <1>7, <1>10
  <2> QED BY <1>4, <1>5, <1>6, <2>1
<1> QED BY <1>8, <1>9, <1>10 DEF a, b, c

\* An adjustment starts to count anew; the sets stay.
LEMMA AdjustKeepsMonitor ==
    ASSUME MonitorInv, adjustPartition
    PROVE  MonitorInv'
<1>1. /\ umon_counters' = [i \in 0..(assoc - 1) |-> 0] /\ accesses' = 0
      /\ hits' = [k \in 1..assoc |-> 0] /\ UNCHANGED <<umon_set, ways>>
  BY DEF adjustPartition
<1>2. L_assoc' \in 1..(assoc - H_min) /\ accesses' \in 0..MaxAccess
  BY <1>1, ResizeFacts, SizeFacts
<1>3. /\ hits' \in [1..assoc -> Nat] /\ umon_counters' \in [0..(assoc - 1) -> Nat]
      /\ \A k \in 1..assoc : hits'[k] = 0
      /\ \A i \in 0..(assoc - 1) : umon_counters'[i] = 0
  BY <1>1
<1>4. \A k \in 1..assoc : k - 1 \in 0..(assoc - 1) /\ (k # 1 => k - 1 \in 1..assoc)
  BY SizeFacts
<1>5. CountersPredictHits'
  BY <1>3, <1>4 DEF CountersPredictHits
<1> QED BY <1>1, <1>2, <1>3, <1>5 DEF MonitorInv

----------------------------------------------------------------------------
(* Theorems *)

\* The inductive invariant.
THEOREM MonitorInvariance == Spec => []MonitorInv
<1>1. Init => MonitorInv
  <2> SUFFICES ASSUME Init PROVE MonitorInv
    OBVIOUS
  <2>1. /\ L_assoc \in 1..(assoc - H_min) /\ accesses = 0 /\ accesses \in 0..MaxAccess
        /\ umon_counters \in [0..(assoc - 1) -> Nat]
        /\ umon_set \in [Sets -> [1..assoc -> Tag \union {NoTag}]]
        /\ hits \in [1..assoc -> Nat]
        /\ \A k \in 1..assoc : hits[k] = 0
        /\ \A i \in 0..(assoc - 1) : umon_counters[i] = 0
    BY SizeFacts DEF Init
  <2>2. ways \in [1..assoc -> [Sets -> Seq(Tag)]]
    BY DEF Init
  <2>3. \A k \in 1..assoc : k - 1 \in 0..(assoc - 1) /\ (k # 1 => k - 1 \in 1..assoc)
    BY SizeFacts
  <2>4. CountersPredictHits
    BY <2>1, <2>3 DEF CountersPredictHits
  <2>5. \A s \in Sets : ShadowOK(umon_set[s])
    BY <2>1 DEF Init, ShadowOK
  <2>6. ASSUME NEW k \in 1..assoc, NEW s \in Sets
        PROVE  Prefix(ways[k][s], k, umon_set[s])
    <3>1. ways[k][s] = <<>>
      BY DEF Init
    <3>2. \A i \in 1..k : i \in 1..assoc
      BY SizeFacts
    <3>3. \A i \in 1..k : umon_set[s][i] = NoTag
      BY <3>2 DEF Init
    <3>4. <<>> \in Seq(Tag) /\ Len(<<>>) = 0 /\ Len(<<>>) <= k
      OBVIOUS
    <3>5. \A i \in 1..k : ~(i <= 0)
      OBVIOUS
    <3> QED BY <3>1, <3>3, <3>4, <3>5 DEF Prefix
  <2> QED BY <2>1, <2>2, <2>4, <2>5, <2>6 DEF MonitorInv
<1>2. MonitorInv /\ [Next]_vars => MonitorInv'
  <2> SUFFICES ASSUME MonitorInv, [Next]_vars PROVE MonitorInv'
    OBVIOUS
  <2>1. CASE \E s \in Sets, tag \in Tag : Access(s, tag)
    BY <2>1, AccessKeepsMonitor
  <2>2. CASE adjustPartition
    BY <2>2, AdjustKeepsMonitor
  <2>3. CASE UNCHANGED vars
    BY <2>3 DEF vars, MonitorInv, CountersPredictHits
  <2> QED BY <2>1, <2>2, <2>3 DEF Next
<1> QED BY <1>1, <1>2, PTL DEF Spec

\* Types, the range of the size of Low, and counters that stay within the number
\* of accesses.
THEOREM MonitorTypeCorrect == Spec => []TypeOK
<1>1. MonitorInv => TypeOK
  <2> SUFFICES ASSUME MonitorInv PROVE TypeOK
    OBVIOUS
  <2>1. ASSUME NEW i \in 0..(assoc - 1) PROVE umon_counters[i] \in 0..MaxAccess
    <3>1. /\ i + 1 \in 1..assoc /\ (i + 1) - 1 = i
          /\ (i + 1 # 1 => i \in 1..assoc /\ i <= i + 1)
      BY SizeFacts
    <3>2. umon_counters[i] = hits[i + 1] - (IF i + 1 = 1 THEN 0 ELSE hits[i])
      BY <3>1 DEF MonitorInv, CountersPredictHits
    <3>3. hits[i + 1] \in Nat /\ hits[i + 1] <= accesses /\ accesses \in 0..MaxAccess
          /\ (i + 1 # 1 => hits[i] \in Nat /\ hits[i] <= hits[i + 1])
      BY <3>1, ZenonT(60) DEF MonitorInv
    <3> QED BY <3>2, <3>3, SizeFacts
  <2>2. umon_counters \in [0..(assoc - 1) -> 0..MaxAccess]
    BY <2>1 DEF MonitorInv
  <2> QED BY <2>2 DEF MonitorInv, TypeOK
<1> QED BY <1>1, MonitorInvariance, PTL

\* The shadow tags are those of all smaller LRU caches at once.
THEOREM ShadowTagsAreLRU == Spec => []ShadowIsInclusive
<1>1. MonitorInv => ShadowIsInclusive
  BY DEF MonitorInv, ShadowIsInclusive, Prefix
<1> QED BY <1>1, MonitorInvariance, PTL

\* Each counter is the number of hits that one more way would have brought.
THEOREM CountersAreMarginalHits == Spec => []CountersPredictHits
<1>1. MonitorInv => CountersPredictHits
  BY DEF MonitorInv
<1> QED BY <1>1, MonitorInvariance, PTL

\* A resize of adjustPartition pays off for every miss curve, whatever lies behind
\* the last counter.
THEOREM ResizingPaysOff == Spec => ResizesPayOff
<1> DEFINE Good == /\ L_assoc' > L_assoc =>
                        hits[assoc] - hits[L_assoc]
                           > miss_curve[H_assoc - 1] - miss_curve[H_assoc]
                   /\ L_assoc' < L_assoc => miss_curve[H_assoc] > miss_curve[H_assoc + 1]
<1>1. MonitorInv /\ [Next]_vars => [Good]_vars
  <2> SUFFICES ASSUME MonitorInv, Next PROVE Good
    OBVIOUS
  <2>1. L_assoc \in Nat
    BY SizeFacts DEF MonitorInv
  <2>2. CASE \E s \in Sets, tag \in Tag : Access(s, tag)
    <3>1. L_assoc' = L_assoc
      BY <2>2 DEF Access
    <3> QED BY <2>1, <3>1
  <2>3. CASE adjustPartition
    <3>1. L_assoc' < L_assoc => miss_curve[H_assoc] > miss_curve[H_assoc + 1]
      BY <2>3, ResizeFacts
    <3>2. ASSUME L_assoc' > L_assoc
          PROVE  hits[assoc] - hits[L_assoc]
                    > miss_curve[H_assoc - 1] - miss_curve[H_assoc]
      <4>1. /\ L_assoc + 2 <= assoc
            /\ umon_counters[L_assoc + 1] > miss_curve[H_assoc - 1] - miss_curve[H_assoc]
        BY <2>3, <3>2, ResizeFacts
      <4>2. /\ L_assoc \in 1..assoc /\ L_assoc + 1 \in 1..assoc /\ L_assoc + 2 \in 1..assoc
            /\ assoc \in 1..assoc /\ (L_assoc + 2) - 1 = L_assoc + 1 /\ L_assoc + 2 # 1
            /\ L_assoc <= L_assoc + 1
        BY <4>1, SizeFacts DEF MonitorInv
      <4>3. umon_counters[L_assoc + 1] = hits[L_assoc + 2] - hits[L_assoc + 1]
        BY <4>2 DEF MonitorInv, CountersPredictHits
      <4>4. hits[L_assoc] <= hits[L_assoc + 1] /\ hits[L_assoc + 2] <= hits[assoc]
        BY <4>1, <4>2 DEF MonitorInv
      <4>5. /\ hits[L_assoc] \in Nat /\ hits[L_assoc + 1] \in Nat
            /\ hits[L_assoc + 2] \in Nat /\ hits[assoc] \in Nat
        BY <4>2, ZenonT(60) DEF MonitorInv
      <4>6. miss_curve[H_assoc - 1] - miss_curve[H_assoc] \in Int
        <5>1. H_assoc \in 0..assoc /\ H_assoc - 1 \in 0..assoc
          BY <4>1, <4>2, SizeFacts DEF H_assoc
        <5> QED BY <5>1, MonitorAssumption
      <4> DEFINE d == miss_curve[H_assoc - 1] - miss_curve[H_assoc]
      <4> HIDE DEF d
      <4>7. hits[assoc] - hits[L_assoc] > d
        BY <4>1, <4>3, <4>4, <4>5, <4>6 DEF d
      <4> QED BY <4>7 DEF d
    <3> QED BY <3>1, <3>2
  <2> QED BY <2>2, <2>3 DEF Next
<1> QED BY <1>1, MonitorInvariance, PTL DEF Spec, ResizesPayOff
=============================================================================
