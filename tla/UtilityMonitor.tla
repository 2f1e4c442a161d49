--------------------------- MODULE UtilityMonitor ---------------------------
(***************************************************************************)
(* How the coarse-grained dynamic cache decides on the size of the Low     *)
(* partition: the shadow tags and hit counters of C_DYNALRU::accessBlock   *)
(* (src/mem/cache/tags/c_dynalru.cc) and C_DynamicCache::adjustPartition   *)
(* (src/mem/cache/cache_impl.hh).                                          *)
(*                                                                         *)
(* A shadow set has as many ways as the whole cache and sees every access  *)
(* of compartment 0; umon_counters[i] counts the hits at position i of the *)
(* MRU order.  `ways' and `hits' are the reference: what LRU caches with   *)
(* 1, 2, ..., assoc ways hold and how often they hit since the last        *)
(* adjustment.  Cutting an interval short is the bound MaxAccess on the    *)
(* accesses between two adjustments.                                       *)
(***************************************************************************)
EXTENDS CacheSet, Integers

CONSTANTS assoc, L_init, H_min,
          Sets,          \* set indices
          Tag, NoTag,    \* tags of compartment 0, and the tag of an empty way
          miss_curve,    \* misses of High with 0..assoc ways, from a file
          PastTheEnd,    \* what memory behind umon_counters may hold
          MaxAccess      \* bound: accesses between two adjustments

ASSUME MonitorAssumption ==
    /\ assoc \in Nat /\ H_min \in 1..assoc /\ L_init \in 1..(assoc - H_min)
    /\ miss_curve \in [0..assoc -> Int]
    /\ PastTheEnd \subseteq Nat /\ PastTheEnd # {}
    /\ NoTag \notin Tag /\ MaxAccess \in Nat

VARIABLES L_assoc, umon_set, umon_counters, accesses, ways, hits

vars == <<L_assoc, umon_set, umon_counters, accesses, ways, hits>>

Init ==
    /\ L_assoc = L_init
    /\ umon_set = [s \in Sets |-> [i \in 1..assoc |-> NoTag]]
    /\ umon_counters = [i \in 0..(assoc - 1) |-> 0]
    /\ accesses = 0
    /\ ways = [k \in 1..assoc |-> [s \in Sets |-> <<>>]]
    /\ hits = [k \in 1..assoc |-> 0]

\* Mutant of Shadow: a hit does not become the most recent tag.
ShadowFIFO(s, tag) ==
    IF In(umon_set[s], tag)
    THEN /\ umon_counters' =
              [umon_counters EXCEPT ![Position(umon_set[s], tag) - 1] = @ + 1]
         /\ UNCHANGED umon_set
    ELSE /\ umon_set' = [umon_set EXCEPT ![s] =
                           moveToHead([@ EXCEPT ![assoc] = tag], tag)]
         /\ UNCHANGED umon_counters

\* accessBlock on the shadow set: a hit is counted at its position and moved to
\* the head, a miss replaces the LRU tag.
Shadow(s, tag) ==
    IF In(umon_set[s], tag)
    THEN /\ umon_counters' =
              [umon_counters EXCEPT ![Position(umon_set[s], tag) - 1] = @ + 1]
         /\ umon_set' = [umon_set EXCEPT ![s] = moveToHead(@, tag)]
    ELSE /\ umon_set' = [umon_set EXCEPT ![s] =
                           moveToHead([@ EXCEPT ![assoc] = tag], tag)]
         /\ UNCHANGED umon_counters

\* The reference caches: least recently used replacement, most recent first.
\* The tag is taken from its place, if it has one, and put in front.
Recent(w, k, tag) ==
    LET p == IF In(w, tag) THEN Position(w, tag) ELSE Len(w) + 1
        moved == <<tag>> \o SubSeq(w, 1, p - 1) \o SubSeq(w, p + 1, Len(w))
    IN  SubSeq(moved, 1, IF Len(moved) < k THEN Len(moved) ELSE k)

Reference(s, tag) ==
    /\ ways' = [k \in 1..assoc |-> [ways[k] EXCEPT ![s] = Recent(@, k, tag)]]
    /\ hits' = [k \in 1..assoc |-> hits[k] + (IF In(ways[k][s], tag) THEN 1 ELSE 0)]

Access(s, tag) ==
    /\ accesses < MaxAccess
    /\ Shadow(s, tag)
    /\ Reference(s, tag)
    /\ accesses' = accesses + 1
    /\ UNCHANGED L_assoc

\* lookup_umon does not check its index: past the end it reads what is there.
lookup_umon(i) == IF i < assoc THEN {umon_counters[i]} ELSE PastTheEnd

H_assoc == assoc - L_assoc

\* Mutant of Uinc: the misses High gets are not weighed.
UincLowOnly(hi) == IF L_assoc = assoc THEN 0 ELSE hi

\* The two utilities, for the values lo and hi that lookup_umon returned.
Uinc(hi) ==
    IF L_assoc = assoc THEN 0
    ELSE hi + (miss_curve[H_assoc] - miss_curve[H_assoc - 1])

Udec(lo) ==
    IF L_assoc = 0 THEN 0
    ELSE (0 - lo) + (miss_curve[H_assoc] - miss_curve[H_assoc + 1])

\* Mutant of Resized: inc_size does not keep H_min ways for High.
ResizedUnchecked(inc, dec) ==
    IF inc > 0 /\ inc >= dec THEN L_assoc + 1
    ELSE IF dec > 0 /\ dec >= inc /\ L_assoc # 1 THEN L_assoc - 1 ELSE L_assoc

\* Size of Low after the adjustment: inc_size and dec_size refuse to leave
\* fewer than H_min ways to High and fewer than one to Low.
Resized(inc, dec) ==
    IF inc > 0 /\ inc >= dec
    THEN IF H_assoc = H_min THEN L_assoc ELSE L_assoc + 1
    ELSE IF dec > 0 /\ dec >= inc
         THEN IF L_assoc = 1 THEN L_assoc ELSE L_assoc - 1
         ELSE L_assoc

\* Mutant of adjustPartition: the counters are not reset.
adjustWithoutReset ==
    /\ \E hi \in lookup_umon(L_assoc + 1), lo \in lookup_umon(L_assoc) :
          L_assoc' = Resized(Uinc(hi), Udec(lo))
    /\ accesses' = 0
    /\ hits' = [k \in 1..assoc |-> 0]
    /\ UNCHANGED <<umon_counters, umon_set, ways>>

adjustPartition ==
    /\ \E hi \in lookup_umon(L_assoc + 1), lo \in lookup_umon(L_assoc) :
          L_assoc' = Resized(Uinc(hi), Udec(lo))
    /\ umon_counters' = [i \in 0..(assoc - 1) |-> 0]
    /\ accesses' = 0
    /\ hits' = [k \in 1..assoc |-> 0]
    /\ UNCHANGED <<umon_set, ways>>

Next ==
    \/ \E s \in Sets, tag \in Tag : Access(s, tag)
    \/ adjustPartition

Spec == Init /\ [][Next]_vars

----------------------------------------------------------------------------
(* Properties *)

\* Type invariant; it includes the range the resizes must keep.
TypeOK ==
    /\ L_assoc \in 1..(assoc - H_min)
    /\ umon_set \in [Sets -> [1..assoc -> Tag \union {NoTag}]]
    /\ umon_counters \in [0..(assoc - 1) -> 0..MaxAccess]
    /\ accesses \in 0..MaxAccess

\* The shadow sets have the stack property: their first k tags are what an LRU
\* cache with k ways would hold, for every k, across adjustments.
ShadowIsInclusive ==
    \A k \in 1..assoc, s \in Sets :
        LET w == ways[k][s]
        IN  /\ Len(w) <= k
            /\ \A i \in 1..k : umon_set[s][i] = IF i <= Len(w) THEN w[i] ELSE NoTag

\* Counter k - 1 is the number of hits that the k-th way would have added since
\* the last adjustment: what adjustPartition may rely on.
CountersPredictHits ==
    \A k \in 1..assoc :
        umon_counters[k - 1] = hits[k] - (IF k = 1 THEN 0 ELSE hits[k - 1])

\* adjustPartition grows Low only if the hits that Low missed for want of ways
\* outnumber the misses High gets, and shrinks it only if High saves misses.
ResizesPayOff ==
    [][/\ L_assoc' > L_assoc =>
            hits[assoc] - hits[L_assoc] > miss_curve[H_assoc - 1] - miss_curve[H_assoc]
       /\ L_assoc' < L_assoc => miss_curve[H_assoc] > miss_curve[H_assoc + 1]]_vars

\* The comment on Udec, the "number of reduced misses when decrease the way of
\* Low by 1": Low shrinks only if High saves more misses than Low gets.
ShrinkingReducesMisses ==
    [][L_assoc' < L_assoc =>
          miss_curve[H_assoc] - miss_curve[H_assoc + 1]
              > hits[L_assoc] - hits[L_assoc - 1]]_vars
=============================================================================
