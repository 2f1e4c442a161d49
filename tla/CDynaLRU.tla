------------------------------ MODULE CDynaLRU ------------------------------
(***************************************************************************)
(* The tag store of the coarse-grained dynamically partitioned cache:      *)
(* class C_DYNALRU (src/mem/cache/tags/c_dynalru.cc) over class LRU        *)
(* (src/mem/cache/tags/lru.cc).  Every set is split into a Low partition   *)
(* (timing compartment 0, L_assoc ways) and a High partition (compartment  *)
(* 1, H_assoc ways).  The cache calls the store through an LRU pointer, so *)
(* the non-virtual findVictim, insertBlock and invalidateBlk are those of  *)
(* LRU, which reach the partition through the virtual get_set and          *)
(* assoc_of_tc.                                                            *)
(*                                                                         *)
(* A tag is the block address; a block's data is abstracted to a version   *)
(* number.  Every valid block is also readable and writable: the memory    *)
(* below the cache never asserts the shared line on a fill, and the caches *)
(* above only write back lines they hold exclusively.                      *)
(***************************************************************************)
EXTENDS CacheSet

CONSTANTS assoc,        \* number of ways of a set
          Way,          \* names of the ways
          L_init,       \* ways of the Low partition at start (param L_assoc)
          H_min,        \* least number of ways of the High partition
          Sets,         \* set indices
          Addr,         \* block addresses
          extractSet,   \* the set of an address
          NoTag         \* tag of a block that was never filled

ASSUME AssocAssumption == assoc \in Nat /\ H_min \in Nat /\ H_min >= 1
ASSUME LInitAssumption == L_init \in 1..(assoc - H_min)
ASSUME WayAssumption == NULL \notin Way
ASSUME AddrAssumption == extractSet \in [Addr -> Sets] /\ NoTag \notin Addr

VARIABLES L_assoc, H_assoc,   \* sizes of the two partitions
          sets,               \* sets[tc][s]: MRU-ordered blocks of set s
          blk                 \* blk[s][w]: way w of set s

tagVars == <<L_assoc, H_assoc, sets, blk>>

TC == {0, 1}
Blk == [tag : Addr \union {NoTag}, valid : BOOLEAN, dirty : BOOLEAN,
        threadID : TC, data : Nat]

\* A block with status 0.  Nothing reads the tag and the data of such a block.
Empty(tc) == [tag |-> NoTag, valid |-> FALSE, dirty |-> FALSE, threadID |-> tc,
              data |-> 0]

\* init_sets: the ways of a set, in some order, are dealt out to the partitions.
TagsInit ==
    \E frame \in [1..assoc -> Way] :
        /\ \A w \in Way : \E i \in 1..assoc : frame[i] = w
        /\ \A i, j \in 1..assoc : frame[i] = frame[j] => i = j
        /\ L_assoc = L_init
        /\ H_assoc = assoc - L_init
        /\ sets = [tc \in TC |-> [s \in Sets |->
                     IF tc = 0 THEN [i \in 1..L_init |-> frame[i]]
                     ELSE [i \in 1..(assoc - L_init) |-> frame[L_init + i]]]]
        /\ blk = [s \in Sets |-> [w \in Way |-> Empty(
                    IF \E i \in 1..L_init : frame[i] = w THEN 0 ELSE 1)]]

assoc_of_tc(tc) == IF tc = 0 THEN L_assoc ELSE H_assoc

get_set(a, tc) == sets[tc][extractSet[a]]

\* The block that the address hits in the partition of compartment tc, or NULL.
findBlock(a, tc) == findBlk(get_set(a, tc), blk[extractSet[a]], a)

\* The block at the LRU end of the partition, valid or not.
findVictim(a, tc) == get_set(a, tc)[assoc_of_tc(tc)]

\* One set of one partition gets a new order.
Reorder(a, tc, order) == sets' = [sets EXCEPT ![tc][extractSet[a]] = order]

\* One block of the set of a gets new contents.
Update(a, w, contents) == blk' = [blk EXCEPT ![extractSet[a]][w] = contents]

\* Mutants of Filled: the block gets the set index as its tag; the compartment
\* of the new block is not recorded.
FilledWithSet(a, tc, version, isDirty) ==
    [tag |-> extractSet[a], valid |-> TRUE, dirty |-> isDirty, threadID |-> tc,
     data |-> version]
FilledWithoutOwner(a, tc, version, isDirty) ==
    [tag |-> a, valid |-> TRUE, dirty |-> isDirty, threadID |-> 0,
     data |-> version]

\* What insertBlock and the fill that follows it leave in a block.
Filled(a, tc, version, isDirty) ==
    [tag |-> a, valid |-> TRUE, dirty |-> isDirty, threadID |-> tc,
     data |-> version]

\* invalidateBlk on the block itself: status = 0.
Invalidated(b) == Empty(b.threadID)

\* Mutant of inc_size: the way is not removed from High.
inc_sizeShared ==
    /\ L_assoc' = L_assoc + 1
    /\ H_assoc' = H_assoc - 1
    /\ sets' = [sets EXCEPT ![0] = [s \in Sets |->
                  Append(sets[0][s], sets[1][s][H_assoc])]]

\* inc_size: the last way of High becomes the last way of Low, in every set.
inc_size ==
    /\ L_assoc' = L_assoc + 1
    /\ H_assoc' = H_assoc - 1
    /\ sets' = [tc \in TC |-> [s \in Sets |->
                  IF tc = 0 THEN Append(sets[0][s], sets[1][s][H_assoc])
                  ELSE SubSeq(sets[1][s], 1, H_assoc - 1)]]

\* dec_size: the last way of Low becomes the last way of High, in every set.
dec_size ==
    /\ L_assoc' = L_assoc - 1
    /\ H_assoc' = H_assoc + 1
    /\ sets' = [tc \in TC |-> [s \in Sets |->
                  IF tc = 1 THEN Append(sets[1][s], sets[0][s][L_assoc])
                  ELSE SubSeq(sets[0][s], 1, L_assoc - 1)]]

\* get_evictBlk before the resize: the way that changes sides in set s.
incMoved(s) == sets[1][s][H_assoc]
decMoved(s) == sets[0][s][L_assoc]
=============================================================================
