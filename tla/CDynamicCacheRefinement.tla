---------------------- MODULE CDynamicCacheRefinement -----------------------
(***************************************************************************)
(* The partitioned cache implements a memory: what the caches above see of *)
(* CDynamicCache is a behaviour of LineMemory.  The value of a line is the *)
(* number of writes of the program; the copy is the line of the private    *)
(* cache above; a request is pending while it has an MSHR.  Resizing,      *)
(* replacement, the write buffer and the memory below are steps that       *)
(* LineMemory does not see.                                                *)
(***************************************************************************)
EXTENDS CDynamicCache

Copy(a) == IF l2[a].st = "I" THEN <<>> ELSE <<l2[a].ver>>

\* The lines of Low, and all lines.
LowMemory == INSTANCE LineMemory WITH
    Data    <- LowAddr,
    value   <- [a \in LowAddr |-> latest[a]],
    copy    <- [a \in LowAddr |-> Copy(a)],
    pending <- [a \in LowAddr |-> mshr[a].st # "none"]

AllMemory == INSTANCE LineMemory WITH
    Data    <- Addr,
    value   <- latest,
    copy    <- [a \in Addr |-> Copy(a)],
    pending <- [a \in Addr |-> mshr[a].st # "none"]

\* Low cannot tell the cache from a memory, however its partition is resized
\* while its requests are hits, misses in flight or conflict with writebacks:
\* every answer of timingAccess or handleResponse is the last value written, no
\* write is lost and nothing is answered that was not asked for.
LowSeesMemory == LowMemory!Spec

\* Without resizing (static_cache) neither compartment can: then every step is one
\* of that memory, or one it does not see.
AllSeeMemory ==
    /\ static_cache => AllMemory!Init
    /\ [][static_cache => AllMemory!Next]_(AllMemory!vars)
=============================================================================
