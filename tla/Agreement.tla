------------------------------ MODULE Agreement ------------------------------
(* What the review service promises the two sides of one order: versions are *)
(* delivered one after the other, the client may send the latest back within *)
(* the agreed allowance, and accepts one version, the latest and not one     *)
(* that was sent back.  After that nothing changes.                          *)

EXTENDS Naturals

CONSTANT Limit    \* the revision allowance of the order

VARIABLES
    delivered,    \* number of versions
    returned,     \* the versions the client sent back
    left,         \* how often the client may still send back
    accepted      \* the version accepted, 0 while there is none

agreement == <<delivered, returned, left, accepted>>

Init == delivered = 0 /\ returned = {} /\ left = Limit /\ accepted = 0

Deliver ==
    /\ accepted = 0
    /\ delivered' = delivered + 1
    /\ UNCHANGED <<returned, left, accepted>>

SendBack ==
    /\ accepted = 0 /\ delivered > 0
    /\ delivered \notin returned
    /\ left > 0
    /\ left' = left - 1
    /\ returned' = returned \cup {delivered}
    /\ UNCHANGED <<delivered, accepted>>

Accept ==
    /\ accepted = 0 /\ delivered > 0
    /\ delivered \notin returned
    /\ accepted' = delivered
    /\ UNCHANGED <<delivered, returned, left>>

Next == Deliver \/ SendBack \/ Accept

Spec == Init /\ [][Next]_agreement

=============================================================================
