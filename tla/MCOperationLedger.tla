--------------------------- MODULE MCOperationLedger ---------------------------
(***************************************************************************)
(* Instances of OperationLedger: two apps are enough for claims to be told *)
(* apart by app, three operations for a claim, its successor and a rival.  *)
(***************************************************************************)
EXTENDS OperationLedger, TLC

CONSTANTS a1, a2, o1, o2, o3

MCApps == {a1, a2}
MCOps == {o1, o2, o3}
NoCli == {}
OneCli == {o3}

\* Apps, and the operations of the service, are interchangeable.
MixedSymmetry == Permutations(MCApps) \cup Permutations({o1, o2})
================================================================================
