------------------------------- MODULE MCLedger -------------------------------
(* Small instances of Ledger for TLC. *)
EXTENDS EarningsReconciliation, TLC

\* Editors, acceptances and request keys are alike among themselves.
IdSymmetry == Permutations(Editor) \cup Permutations(Acceptance) \cup Permutations(Request)
=============================================================================
