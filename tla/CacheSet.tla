------------------------------ MODULE CacheSet ------------------------------
(***************************************************************************)
(* class CacheSet (src/mem/cache/tags/cacheset.cc): one set of a           *)
(* set-associative cache, an array of pointers to blocks kept in MRU order *)
(* (blks[0] is the most recently used one).  A set is a sequence of block  *)
(* names; position i here is blks[i-1] there.  The status and the tag of a *)
(* block are looked up in the function `b' from block names to blocks.     *)
(***************************************************************************)
EXTENDS Naturals, Sequences

\* The null pointer that findBlk returns on a miss.  Blocks are named 1, 2, ...
NULL == 0

\* w is one of the blocks of the set; no block is in it twice.
In(set, w) == \E i \in 1..Len(set) : set[i] = w
Injective(set) == \A i, j \in 1..Len(set) : set[i] = set[j] => i = j

\* Positions of the valid blocks with the given tag.
Matches(set, b, tag) ==
    {i \in 1..Len(set) : b[set[i]].tag = tag /\ b[set[i]].valid}

\* findBlk: the first match in MRU order, or NULL.
findBlk(set, b, tag) ==
    IF Matches(set, b, tag) = {} THEN NULL
    ELSE set[CHOOSE i \in Matches(set, b, tag) :
                \A j \in Matches(set, b, tag) : i <= j]

\* Position of a block that is in the set.
Position(set, w) == CHOOSE i \in 1..Len(set) : set[i] = w

\* moveToHead: blocks in front of w move one place towards the LRU end.  The
\* code's assert(i < assoc) is the precondition that w is in the set.
moveToHead(set, w) ==
    LET p == Position(set, w)
    IN  [i \in 1..Len(set) |->
            IF i = 1 THEN w ELSE IF i <= p THEN set[i - 1] ELSE set[i]]

\* moveToTail: blocks behind w move one place towards the MRU end.  The code's
\* assert(i >= 0) is the precondition that w is in the set.
moveToTail(set, w) ==
    LET p == Position(set, w)
    IN  [i \in 1..Len(set) |->
            IF i = Len(set) THEN w ELSE IF i < p THEN set[i] ELSE set[i + 1]]
=============================================================================
