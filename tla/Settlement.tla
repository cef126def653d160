----------------------------- MODULE Settlement -----------------------------
(* What checkout promises about one order: a price is agreed and may be      *)
(* withdrawn or changed, the agreed price is paid once, and nothing changes  *)
(* after that.                                                               *)

CONSTANT Price

VARIABLES
    agreed,   \* the accepted price, as a set of at most one
    paid      \* the prices confirmed payments were made for

settlement == <<agreed, paid>>

Init == agreed = {} /\ paid = {}

Agree(price) ==
    /\ paid = {}
    /\ agreed' = {price}
    /\ UNCHANGED paid

Withdraw ==
    /\ paid = {}
    /\ agreed' = {}
    /\ UNCHANGED paid

Pay ==
    /\ paid = {} /\ agreed # {}
    /\ paid' = agreed
    /\ UNCHANGED agreed

Next == (\E price \in Price : Agree(price)) \/ Withdraw \/ Pay

Spec == Init /\ [][Next]_settlement

=============================================================================
