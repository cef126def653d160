-------------------------------- MODULE Purse --------------------------------
(* What the coin ledger promises: four balances per editor, between which    *)
(* coins move whole and which never go below zero.                           *)

EXTENDS Naturals

CONSTANTS Editor, Amounts

VARIABLES pending, redeemable, reserved, redeemed

purse == <<pending, redeemable, reserved, redeemed>>

Zero == [e \in Editor |-> 0]

Init == pending = Zero /\ redeemable = Zero /\ reserved = Zero /\ redeemed = Zero

Plus(f, e, n)  == [f EXCEPT ![e] = @ + n]
Minus(f, e, n) == [f EXCEPT ![e] = @ - n]

Earn(e, n) ==
    /\ pending' = Plus(pending, e, n)
    /\ UNCHANGED <<redeemable, reserved, redeemed>>

Release(e, n) ==
    /\ n <= pending[e]
    /\ pending' = Minus(pending, e, n)
    /\ redeemable' = Plus(redeemable, e, n)
    /\ UNCHANGED <<reserved, redeemed>>

Reserve(e, n) ==
    /\ n <= redeemable[e]
    /\ redeemable' = Minus(redeemable, e, n)
    /\ reserved' = Plus(reserved, e, n)
    /\ UNCHANGED <<pending, redeemed>>

PayOut(e, n) ==
    /\ n <= reserved[e]
    /\ reserved' = Minus(reserved, e, n)
    /\ redeemed' = Plus(redeemed, e, n)
    /\ UNCHANGED <<pending, redeemable>>

Return(e, n) ==
    /\ n <= reserved[e]
    /\ reserved' = Minus(reserved, e, n)
    /\ redeemable' = Plus(redeemable, e, n)
    /\ UNCHANGED <<pending, redeemed>>

Next == \E e \in Editor, n \in Amounts :
    Earn(e, n) \/ Release(e, n) \/ Reserve(e, n) \/ PayOut(e, n) \/ Return(e, n)

Spec == Init /\ [][Next]_purse

=============================================================================
