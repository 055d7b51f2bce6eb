----------------------------- MODULE MCOrdsPoll -------------------------------
(* An instance of OrdsPoll for TLC: two polls of one node.                   *)
EXTENDS OrdsPoll
CONSTANTS p1, p2, n1, r1
MCNodeOf == [i \in Polls |-> n1]
==============================================================================
