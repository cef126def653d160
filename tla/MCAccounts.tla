----------------------------- MODULE MCAccounts -----------------------------
(* Small instances of Accounts for TLC. *)
EXTENDS Accounts, TLC

\* Nothing compares two elements of one of these sets.
NameSymmetry ==
    Permutations(Account) \cup Permutations(Identity) \cup Permutations(Browser)
=============================================================================
