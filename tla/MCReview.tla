------------------------------- MODULE MCReview -------------------------------
(* Small instances of Review for TLC. *)
EXTENDS DeliveryReconciliation, TLC

\* Editors are alike, and so are upload reservations.
IdSymmetry == Permutations(Editor) \cup Permutations(File)
=============================================================================
