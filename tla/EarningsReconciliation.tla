----------------------- MODULE EarningsReconciliation -----------------------
(* The nightly audit of the coin ledger, core/earnings_reconciliation.py:     *)
(* every finding the report counts as critical, as the set of rows it counts,*)
(* over the rows of Ledger.  Decision metadata is not in Ledger.             *)
EXTENDS Ledger

\* The report finds entries by their event key; a key names one entry.
Found(of, word) == {entry \in ledger : entry.of = of /\ entry.word = word}

\* One entry with that key, of that wallet, amount and kind (_matches).
Matches(of, word, kind, editor, amount) ==
    Found(of, word) = {Posting(of, word, kind, editor, amount)}

\* invalid_acceptance_earning_rule: the rule saved with the acceptance awards
\* coins exactly when the earning is not left to a policy.
RuleFindings ==
    {a \in Acceptance : \/ acceptances[a].status = "pending_policy" /\ acceptances[a].coins # 0
                        \/ /\ acceptances[a].status \in {"pending_release", "earned"}
                           /\ acceptances[a].coins = 0}

\* acceptance_ledger_mismatch
AcceptanceMismatch(a) ==
    LET row == acceptances[a]
        PendingOk == Matches(a, "pending", "pending", row.editor, row.coins)
    IN  CASE row.status \in {"none", "pending_policy"} -> EntriesOf(a) # {}
          [] row.status = "pending_release" -> ~PendingOk \/ Cardinality(EntriesOf(a)) # 1
          [] row.status = "earned" ->
                \/ ~PendingOk
                \/ ~Matches(a, "pending_closed", "pending", row.editor, -row.coins)
                \/ ~Matches(a, "credit", "credit", row.editor, row.coins)
                \/ Cardinality(EntriesOf(a)) # 3

\* redemption_ledger_mismatch
RedemptionMismatch(r) ==
    LET row  == requests[r]
        ReserveOk == Matches(r, "reserve", "reserve", row.editor, -row.amount)
        kind == IF row.status = "paid" THEN "redeem" ELSE "release"
    IN  CASE row.status = "none" -> EntriesOf(r) # {}
          [] row.status = "requested" -> ~ReserveOk \/ Cardinality(EntriesOf(r)) # 1
          [] OTHER -> \/ ~ReserveOk
                      \/ ~Matches(r, kind, kind, row.editor, row.amount)
                      \/ Cardinality(EntriesOf(r)) # 2

\* invalid_transaction_shape
ShapeFindings ==
    {entry \in ledger :
        \/ entry.amount = 0
        \/ entry.of \in Request /\ entry.kind \notin {"reserve", "redeem", "release"}
        \/ entry.of \in Acceptance /\ entry.kind \notin {"pending", "credit"}
        \/ entry.kind = "reserve" /\ entry.amount >= 0
        \/ entry.kind \in {"credit", "redeem", "release"} /\ entry.amount <= 0}

\* negative_pending_wallets, negative_redeemable_wallets
NegativeWallets ==
    {e \in Editor : Total(e, {"pending"}) < 0 \/ Total(e, {"credit", "reserve", "release"}) < 0}

-----------------------------------------------------------------------------

\* The audit never finds anything, whoever repeats a release, a request or a
\* decision, in whatever order, and whatever is disabled or lost in between.
EarningsReconcile ==
    /\ RuleFindings = {}
    /\ \A a \in Acceptance : ~AcceptanceMismatch(a)
    /\ \A r \in Request : ~RedemptionMismatch(r)
    /\ ShapeFindings = {}
    /\ NegativeWallets = {}

=============================================================================
