---------------------------- MODULE MC_CachePort ----------------------------
(* Instances of CachePort for TLC. *)
EXTENDS CachePort, TLC

CONSTANTS s1, s2, s3, l1, l2, l3

MCSource == {s1, s2, s3}
MCLine == {l1, l2}
OneTc == [x \in Source \union Line |-> 0]
TwoTc == (s1 :> 0) @@ (s2 :> 1) @@ (l1 :> 0) @@ (l2 :> 1)

PerTcSource == {s1, s2}
Pkt(cmd, l) == [cmd |-> cmd, line |-> l]
Mixed == (s1 :> {Pkt("Read", l1), Pkt("Read", l2)})
      @@ (s2 :> {Pkt("ReadEx", l1), Pkt("Writeback", l2)})
      @@ (s3 :> {Pkt("Read", l1)})
\* Three lines, so that two writebacks can be queued while a third line is missing.
ThreeLines == {l1, l2, l3}
Reads == (s1 :> {Pkt("Read", l1)}) @@ (s2 :> {Pkt("Read", l1)})
PerTc == (s1 :> {Pkt("Read", l1)}) @@ (s2 :> {Pkt("Read", l2)})
=============================================================================
