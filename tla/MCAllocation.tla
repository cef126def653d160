---------------------------- MODULE MCAllocation ----------------------------
(* Small instances of Allocation for TLC. *)
EXTENDS AssignmentReconciliation, TLC

CONSTANTS p1, p2, e1, e2, c1, c2, l1

OwnerEach == p1 :> c1 @@ p2 :> c2
RankTwo   == e1 :> 1 @@ e2 :> 2

Mode(manual, automatic, strategy, pointer) ==
    [manual |-> manual, automatic |-> automatic, strategy |-> strategy, pointer |-> pointer]

BothModes == {Mode(TRUE, TRUE, "skip", "preserve")}
=============================================================================
