-------------------------------- MODULE MSHR --------------------------------
(***************************************************************************)
(* class MSHR (src/mem/cache/mshr.cc) of a cache on a non-coherent bus: a  *)
(* miss and the requests that wait for it.  No snoops arrive there, so     *)
(* postInvalidate and postDowngrade stay false, and the misses are reads   *)
(* of blocks, so isForward does.  A target is the requester and whether it *)
(* needs an exclusive copy; an MSHR is free when it has no target.         *)
(***************************************************************************)
EXTENDS Naturals, Sequences

Target(Requester) == [src : Requester, ex : BOOLEAN]
MSHRType(Requester) ==
    [targets : Seq(Target(Requester)), deferred : Seq(Target(Requester)),
     inService : BOOLEAN, pendingDirty : BOOLEAN]

FreeMSHR == [targets |-> <<>>, deferred |-> <<>>, inService |-> FALSE,
             pendingDirty |-> FALSE]

Allocated(m) == m.targets # <<>>

\* A has n elements or more.
AtLeast(n, A) == \E f \in [1..n -> A] : \A i, j \in 1..n : f[i] = f[j] => i = j

\* TargetList::needsExclusive, which add() raises.
needsExclusive(list) == \E i \in 1..Len(list) : list[i].ex

getNumTargets(m) == Len(m.targets) + Len(m.deferred)

allocate(t) == [FreeMSHR EXCEPT !.targets = <<t>>]

\* Mutants of allocateTarget: a target is not deferred behind deferred ones; it
\* is never deferred.
allocateTargetUnordered(m, t) ==
    IF m.inService /\ t.ex /\ ~m.pendingDirty
    THEN [m EXCEPT !.deferred = Append(@, t)]
    ELSE [m EXCEPT !.targets = Append(@, t)]
allocateTargetAtOnce(m, t) == [m EXCEPT !.targets = Append(@, t)]

\* A target of a request in service is deferred if others are, or if it needs
\* an exclusive copy and the request will not bring one for sure.
allocateTarget(m, t) ==
    IF m.inService /\ (m.deferred # <<>> \/ (t.ex /\ ~m.pendingDirty))
    THEN [m EXCEPT !.deferred = Append(@, t)]
    ELSE [m EXCEPT !.targets = Append(@, t)]

\* `owned': the cache below has already answered, with the ownership of a dirty
\* block, in the packet that was sent (memInhibit without shared).
markInService(m, owned) ==
    [m EXCEPT !.inService = TRUE,
              !.pendingDirty = needsExclusive(m.targets) \/ owned]

\* handleFill: an exclusive copy serves the deferred targets, too.
PromotedByFill(m, shared) == ~shared /\ needsExclusive(m.deferred)
handleFill(m, shared) ==
    IF PromotedByFill(m, shared)
    THEN [m EXCEPT !.targets = m.targets \o m.deferred, !.deferred = <<>>]
    ELSE m

\* After all targets were popped: promoteDeferredTargets and markPending, or
\* deallocate.
promoteDeferredTargets(m) == [FreeMSHR EXCEPT !.targets = m.deferred]
=============================================================================
