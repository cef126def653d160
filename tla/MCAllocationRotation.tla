------------------------ MODULE MCAllocationRotation ------------------------
(* Instances of AllocationRotation for TLC. *)
EXTENDS AllocationRotation, TLC

CONSTANTS p1, p2, p3, e1, e2, c1, l1, l2

OwnerAll == [p \in Project |-> c1]
RankTwo  == e1 :> 1 @@ e2 :> 2

Automatic(strategy) ==
    [manual |-> TRUE, automatic |-> TRUE, strategy |-> strategy, pointer |-> "preserve"]
PreservingPolicies == {Automatic("skip"), Automatic("wait")}

\* Projects differ only in the order they are paid, which is part of the state.
ProjectSymmetry == Permutations(Project)
=============================================================================
