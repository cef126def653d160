------------------------------- MODULE MCOutbox -------------------------------
(* Small instances of Outbox for TLC. *)
EXTENDS NotificationReconciliation, TLC

\* Workers are alike, and so are the recipients of a campaign.
IdSymmetry == Permutations(Worker) \cup Permutations(Campaign)
=============================================================================
