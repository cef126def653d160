--------------------- MODULE NotificationReconciliation ---------------------
(* The nightly audit of the outbox, core/notification_reconciliation.py:      *)
(* every finding about the state and times of a row that the report counts   *)
(* as critical, as the set of rows it counts, over the rows of Outbox.  Its   *)
(* rules about texts are about columns Outbox has not.                       *)
EXTENDS Outbox

InState(state) == {n \in Notice : delivery[n].state = state}

\* held_state_metadata
HeldFindings == {n \in InState("held") :
    \/ delivery[n].attempts > 0
    \/ delivery[n].next # "null"
    \/ delivery[n].lease # "null"
    \/ delivery[n].sentAt # "null"
    \/ delivery[n].error # "null"}

\* pending_state_metadata
PendingFindings == {n \in InState("pending") :
    delivery[n].lease # "null" \/ delivery[n].sentAt # "null"}

\* processing_state_metadata
ProcessingFindings == {n \in InState("processing") :
    \/ delivery[n].attempts = 0
    \/ delivery[n].lease = "null"
    \/ delivery[n].sentAt # "null"}

\* failed_state_metadata
FailedFindings == {n \in InState("failed") :
    \/ delivery[n].attempts = 0
    \/ delivery[n].next = "null"
    \/ delivery[n].lease # "null"
    \/ delivery[n].sentAt # "null"
    \/ delivery[n].error = "null"}

\* sent_state_metadata
SentFindings == {n \in InState("sent") :
    \/ delivery[n].attempts = 0
    \/ delivery[n].sentAt = "null"
    \/ delivery[n].next # "null"
    \/ delivery[n].lease # "null"}

\* cancelled_state_metadata
CancelledFindings == {n \in InState("cancelled") :
    \/ delivery[n].lease # "null"
    \/ delivery[n].sentAt # "null"
    \/ delivery[n].error = "null"}

\* retryable_at_or_over_attempt_limit
AtTheLimit ==
    {n \in UNION {InState(s) : s \in {"pending", "processing", "failed"}} :
        delivery[n].attempts >= MaxAttempts}

\* expired_processing_leases, which the report only warns about
ExpiredLeases == {n \in InState("processing") : delivery[n].lease = "expired"}

-----------------------------------------------------------------------------

\* The audit of the outbox while workers finish within their lease: every row
\* carries exactly the times, lease and error its state calls for, whatever
\* crashes, fails, is retried or deleted; and the only rows it ever finds at
\* the attempt limit are last attempts under way or, once their lease is over,
\* lost with their worker.
OutboxReconciles == ~Overrun =>
    /\ HeldFindings = {} /\ PendingFindings = {} /\ ProcessingFindings = {}
    /\ FailedFindings = {} /\ SentFindings = {} /\ CancelledFindings = {}
    /\ AtTheLimit \subseteq InState("processing")
    /\ \A n \in ExpiredLeases, w \in Worker : worker[w].task # n

=============================================================================
