------------------------------ MODULE MCCheckout ------------------------------
(* Small instances of Checkout for TLC. *)
EXTENDS CommerceReconciliation, TLC

\* Session and result ids are arbitrary.
IdSymmetry == Permutations(Payment) \cup Permutations(Notice)
=============================================================================
