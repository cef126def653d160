----------------------- MODULE CommerceReconciliation -----------------------
(* The nightly audit of orders, core/commerce_reconciliation.py: every        *)
(* finding the report counts as critical, as the set of rows it counts, over *)
(* the rows of Checkout (its quote snapshots are in Quotation).  The rules    *)
(* about digests, currencies and owners are about columns Checkout has not.  *)
EXTENDS Checkout, FiniteSets

Sessions == {p \in Payment : payments[p].status # "none"}

\* Events with a payment and an outcome: the row apply_sandbox_event writes
\* names the payment of the result it processed.
EventsOf(p, outcome) ==
    {n \in events : results[n] # None /\ results[n].payment = p /\ results[n].outcome = outcome}

\* accepted_quote_order_mismatch
AcceptedQuoteFindings ==
    {q \in 1..made : quotes[q].accepted /\
        \/ order.accepted # q
        \/ order.total # quotes[q].total
        \/ order.kind # quotes[q].kind}

\* orders_with_snapshot_without_accepted_quote
UnacceptedTerms ==
    {q \in {order.accepted} : q # 0 /\ \A r \in Quote : ~quotes[r].accepted}

\* orders_with_multiple_payments
MultiplePayments == {pair \in Sessions \X Sessions : pair[1] # pair[2]}

\* payment_amount_or_currency_mismatch
AmountFindings == {p \in Sessions : payments[p].amount = 0 \/ payments[p].amount # order.total}

\* confirmed_payment_state_mismatch
ConfirmedFindings ==
    {p \in ConfirmedPayments : order.status # "confirmed" \/ project.status = "payment_pending"}

\* failed_payment_state_mismatch
FailedFindings == {p \in Sessions : payments[p].status = "failed" /\ order.status # "failed"}

\* confirmed_payments_missing_event, failed_payments_missing_event
MissingEvents ==
    {p \in Sessions : payments[p].status \in {"confirmed", "failed"}
                      /\ EventsOf(p, payments[p].status) = {}}

\* invalid_payment_events
EventFindings ==
    {n \in events : results[n] = None \/ payments[results[n].payment].provider = None}

\* calls_on_unpaid_projects
UnpaidCalls == {c \in {called} : c /\ order.status # "confirmed"}

\* missing_paid_consultation_requests
MissingCalls == {w \in {project.wantsCall} : w /\ order.status = "confirmed" /\ ~called}

\* confirmed_order_activation of core/workflow_reconciliation.py
UnpaidActivation == {s \in {order.status} : s = "confirmed" /\ project.status = "payment_pending"}

\* confirmed_order_terms of core/workflow_reconciliation.py
UnpricedConfirmation ==
    {s \in {order.status} : s = "confirmed" /\ (order.total = 0 \/ order.accepted = 0)}

-----------------------------------------------------------------------------

\* The audit of what the handlers write: a settled payment always has its
\* event, a paid order its project, its terms and its consultation, whatever
\* the provider repeats or delays; and an order agreed once that needed one
\* session raises no finding at all.  (A second agreement or a second session
\* does: accepted quotes keep their date, retries keep their rows.)
CommerceReconciles ==
    /\ MissingEvents = {} /\ EventFindings = {} /\ MissingCalls = {}
    /\ UnpaidActivation = {} /\ UnpricedConfirmation = {}
    /\ UnacceptedTerms = {}
    /\ /\ order.accepted # 0
       /\ \A q \in Quote : quotes[q].accepted => q = order.accepted
       /\ MultiplePayments = {}
       => /\ AcceptedQuoteFindings = {} /\ AmountFindings = {}
          /\ ConfirmedFindings = {} /\ FailedFindings = {} /\ UnpaidCalls = {}

=============================================================================
