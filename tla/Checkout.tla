------------------------------ MODULE Checkout ------------------------------
(* One order from its brief to its confirmed payment: core/commerce.py       *)
(* (quotes), core/payments.py (checkout sessions and provider results), the  *)
(* brief form of core/views.py and the checkout view of                      *)
(* core/commerce_views.py.  Orders share nothing, so one is enough.          *)
(*                                                                           *)
(* Every handler locks the order row first, so each is one action, except    *)
(* custom_checkout, which reads the order before it locks it.  The provider  *)
(* may deliver a result late, twice, out of order or never.                  *)

EXTENDS Naturals

CONSTANTS
    Price,       \* what the catalog may charge
    Mode,        \* the payment modes the server runs in over time
    Payment,     \* ids of checkout sessions
    Notice,      \* ids of provider results
    None,
    MaxQuotes    \* bound on quotes of the order

Modes == {"sandbox", "razorpay_test"}
Kinds == {"plan", "custom"}
Quote == 1..MaxQuotes

ASSUME CheckoutAssumption ==
    /\ Price \subseteq Nat \ {0}
    /\ Mode \subseteq Modes
    /\ None \notin Payment \cup Modes
    /\ MaxQuotes \in Nat

VARIABLES
    project,    \* projects: status, and whether a call before editing is wanted
    order,      \* orders: kind, payment_status, accepted quote and its total
    quotes,     \* order_quotes; accepted: accepted_at is set
    made,       \* the number of quotes so far, hence the id of the latest
    payments,   \* payments of the order; status "none": no such row yet
    events,     \* payment_events: the results already processed
    called,     \* a consultation request exists
    page,       \* the quote the client's order page shows, 0 if none
    posted,     \* a custom_checkout request between its reads and its lock
    results     \* what the provider has decided about its sessions

orderRows == <<project, order, quotes, made, payments, events, called>>
client    == <<page, posted>>
vars      == <<orderRows, client, results>>

ProjectRow == [status : {"payment_pending", "payment_completed"}, wantsCall : BOOLEAN]
OrderRow   == [kind : Kinds, status : {"pending", "confirmed", "failed"},
               accepted : Quote \cup {0}, total : Nat]
QuoteRow   == [kind : Kinds, total : Nat, accepted : BOOLEAN]
PaymentRow == [status : {"none", "pending", "confirmed", "failed", "cancelled"},
               provider : Modes \cup {None}, amount : Nat]
Result     == [payment : Payment, outcome : {"confirmed", "failed"}]
NoTicket   == [shown |-> 0, quote |-> 0]

TypeOK ==
    /\ project \in ProjectRow
    /\ order \in OrderRow
    /\ quotes \in [Quote -> QuoteRow]
    /\ made \in 0..MaxQuotes
    /\ payments \in [Payment -> PaymentRow]
    /\ events \in SUBSET Notice
    /\ called \in BOOLEAN
    /\ page \in 0..MaxQuotes
    /\ posted \in [shown : 0..MaxQuotes, quote : 0..MaxQuotes]
    /\ results \in [Notice -> Result \cup {None}]

PendingPayments   == {p \in Payment : payments[p].status = "pending"}
ConfirmedPayments == {p \in Payment : payments[p].status = "confirmed"}

-----------------------------------------------------------------------------
(* Brief and quotes *)

\* Mutant: an open session does not lock the price.
EditableWhilePaying == project.status = "payment_pending" /\ order.status # "confirmed"

\* ensure_editable
Editable ==
    /\ project.status = "payment_pending"
    /\ order.status # "confirmed"
    /\ PendingPayments = {}

\* Mutant: saving the brief leaves checkout sessions alone.
CancelNothing == payments

\* The sessions a brief edit supersedes.
CancelPending ==
    [p \in Payment |-> IF payments[p].status = "pending"
                       THEN [payments[p] EXCEPT !.status = "cancelled"] ELSE payments[p]]

NewQuote(kind, total) ==
    /\ made < MaxQuotes
    /\ made' = made + 1
    /\ quotes' = [quotes EXCEPT ![made + 1] = [kind |-> kind, total |-> total, accepted |-> FALSE]]

\* _project_form for an existing project.  A custom brief that can be priced
\* gets its quote in the same transaction; a plan's quote comes separately.
SaveBrief(kind, priced, total, wantsCall) ==
    /\ project.status = "payment_pending"
    /\ order.status = "pending"
    /\ ConfirmedPayments = {}
    /\ project' = [project EXCEPT !.wantsCall = wantsCall]
    /\ IF order.accepted # 0
       THEN /\ payments' = CancelPending
            /\ order' = [order EXCEPT !.kind = kind, !.accepted = 0, !.total = 0]
       ELSE /\ order' = [order EXCEPT !.kind = kind]
            /\ UNCHANGED payments
    /\ IF kind = "custom" /\ priced
       THEN NewQuote(kind, total)
       ELSE UNCHANGED <<quotes, made>>
    /\ UNCHANGED <<events, called, client, results>>

CreateQuote(kind, total) ==
    /\ Editable
    /\ NewQuote(kind, total)
    /\ UNCHANGED <<project, order, payments, events, called, client, results>>

\* accept_quote refuses a locked order and a quote that is not the latest, but
\* lets the client repeat an acceptance.
Acceptable(q) == order.accepted = q \/ (Editable /\ q = made)

AcceptedOrder(q) ==
    IF order.accepted = q THEN order
    ELSE [order EXCEPT !.kind = quotes[q].kind, !.accepted = q, !.total = quotes[q].total]

\* What accept_quote writes.
Accept(q) ==
    /\ Acceptable(q)
    /\ order' = AcceptedOrder(q)
    /\ quotes' = [quotes EXCEPT ![q].accepted = TRUE]

AcceptQuote(q) ==
    /\ q <= made
    /\ Accept(q)
    /\ UNCHANGED <<project, made, payments, events, called, client, results>>

-----------------------------------------------------------------------------
(* Checkout sessions *)

\* start_checkout for an order as accepted: the pending session if there is
\* one, a new one for the agreed total otherwise.
Session(row, mode) ==
    /\ row.accepted # 0 /\ row.status # "confirmed" /\ project.status = "payment_pending"
    /\ IF PendingPayments # {} THEN UNCHANGED payments
       ELSE \E p \in Payment :
               /\ payments[p].status = "none"
               /\ payments' = [payments EXCEPT ![p] =
                      [status |-> "pending", provider |-> mode, amount |-> row.total]]

StartCheckout(mode) ==
    /\ Session(order, mode)
    /\ UNCHANGED <<project, order, quotes, made, events, called, client, results>>

\* The order summary shows the agreed quote, or the latest of a custom order.
ShowOrder ==
    /\ order.kind = "custom"
    /\ page' = IF order.accepted # 0 THEN order.accepted ELSE made
    /\ UNCHANGED <<orderRows, posted, results>>

\* custom_checkout reads the order and its latest quote without a lock ...
PostCheckout ==
    /\ posted = NoTicket
    /\ page # 0
    /\ order.kind = "custom"
    /\ order.status # "confirmed"
    /\ posted' = [shown |-> page, quote |-> made]
    /\ UNCHANGED <<orderRows, page, results>>

\* ... then accepts it and opens the session in one transaction,
AcceptAndPay(mode) ==
    /\ posted # NoTicket
    /\ Accept(posted.quote)
    /\ Session(AcceptedOrder(posted.quote), mode)
    /\ posted' = NoTicket
    /\ UNCHANGED <<project, made, events, called, page, results>>

\* ... or is refused, when the order was locked or a newer quote came first.
RefuseCheckout ==
    /\ posted # NoTicket
    /\ ~Acceptable(posted.quote)
    /\ posted' = NoTicket
    /\ UNCHANGED <<orderRows, page, results>>

-----------------------------------------------------------------------------
(* The payment provider (external) *)

\* The sandbox gateway sends what its operator asks for.  A Razorpay order is
\* captured at most once, and only success comes back through the browser.
Decide(n, p, outcome) ==
    /\ results[n] = None
    /\ payments[p].status # "none"
    /\ payments[p].provider = "razorpay_test" =>
          /\ outcome = "confirmed"
          /\ \A m \in Notice : results[m] # None => results[m].payment # p
    /\ results' = [results EXCEPT ![n] = [payment |-> p, outcome |-> outcome]]
    /\ UNCHANGED <<orderRows, client>>

-----------------------------------------------------------------------------
(* Provider results *)

\* Mutant: whatever was paid before, a confirmation counts.
ActivatableAgain == TRUE

\* Otherwise the payment needs reconciliation by hand.
Activatable == project.status = "payment_pending" /\ order.status # "confirmed"

\* Mutant: the consultation the client asked for is not requested.
ActivateWithoutCall(p) ==
    /\ Activatable
    /\ payments' = [payments EXCEPT ![p].status = "confirmed"]
    /\ order' = [order EXCEPT !.status = "confirmed"]
    /\ project' = [project EXCEPT !.status = "payment_completed"]
    /\ UNCHANGED called

\* The common tail of both handlers; create_paid_calls is part of it.
Activate(p) ==
    /\ Activatable
    /\ payments' = [payments EXCEPT ![p].status = "confirmed"]
    /\ order' = [order EXCEPT !.status = "confirmed"]
    /\ project' = [project EXCEPT !.status = "payment_completed"]
    /\ called' = (called \/ project.wantsCall)

Fail(p) ==
    /\ payments' = [payments EXCEPT ![p].status = "failed"]
    /\ order' = [order EXCEPT !.status = "failed"]
    /\ UNCHANGED <<project, called>>

\* The result's amount is its session's; the order may have moved on.
MatchesOrder(p) == order.total = payments[p].amount

\* apply_sandbox_event.  A result seen before, or one that is refused, changes
\* nothing.
ApplySandboxEvent(n) ==
    /\ results[n] # None
    /\ n \notin events
    /\ LET p == results[n].payment
       IN /\ payments[p].provider = "sandbox"
          /\ MatchesOrder(p)
          /\ IF payments[p].status = "confirmed" THEN UNCHANGED <<payments, order, project, called>>
             ELSE IF results[n].outcome = "confirmed" THEN Activate(p)
             ELSE Fail(p)
    /\ events' = events \cup {n}
    /\ UNCHANGED <<quotes, made, client, results>>

\* confirm_razorpay_test_payment; the gateway is asked again before it counts.
ConfirmRazorpay(n) ==
    /\ results[n] # None
    /\ n \notin events
    /\ LET p == results[n].payment
       IN /\ payments[p].provider = "razorpay_test"
          /\ payments[p].status = "pending"
          /\ Activate(p)
    /\ events' = events \cup {n}
    /\ UNCHANGED <<quotes, made, client, results>>

-----------------------------------------------------------------------------

Init ==
    /\ \E wantsCall \in BOOLEAN :
          project = [status |-> "payment_pending", wantsCall |-> wantsCall]
    /\ \E kind \in Kinds :
          order = [kind |-> kind, status |-> "pending", accepted |-> 0, total |-> 0]
    /\ quotes = [q \in Quote |-> [kind |-> "plan", total |-> 0, accepted |-> FALSE]]
    /\ made = 0
    /\ payments = [p \in Payment |-> [status |-> "none", provider |-> None, amount |-> 0]]
    /\ events = {}
    /\ called = FALSE
    /\ page = 0
    /\ posted = NoTicket
    /\ results = [n \in Notice |-> None]

Agree ==
    \/ \E kind \in Kinds, priced, wantsCall \in BOOLEAN, total \in Price :
          SaveBrief(kind, priced, total, wantsCall)
    \/ \E kind \in Kinds, total \in Price : CreateQuote(kind, total)
    \/ \E q \in Quote : AcceptQuote(q)

Pay ==
    \/ \E mode \in Mode : StartCheckout(mode) \/ AcceptAndPay(mode)
    \/ ShowOrder \/ PostCheckout \/ RefuseCheckout

Settle ==
    \/ \E n \in Notice, p \in Payment, outcome \in {"confirmed", "failed"} : Decide(n, p, outcome)
    \/ \E n \in Notice : ApplySandboxEvent(n) \/ ConfirmRazorpay(n)

Next == Agree \/ Pay \/ Settle

Spec == Init /\ [][Next]_vars

-----------------------------------------------------------------------------
(* Safety *)

\* The project is paid exactly when one payment is confirmed, never two: what
\* duplicated, reordered and late results, brief edits and several checkout
\* sessions of an order may not break (PRODUCT_RULES 5).
PaidOnce ==
    /\ \A p, q \in ConfirmedPayments : p = q
    /\ project.status = "payment_completed" <=> ConfirmedPayments # {}

\* Money is only ever waited for and taken at the price that was agreed: the
\* order's, which is the accepted quote's.
PriceIsAgreed ==
    /\ \A p \in PendingPayments \cup ConfirmedPayments :
          order.accepted # 0 /\ payments[p].amount = order.total
    /\ order.accepted # 0 => order.total = quotes[order.accepted].total

\* start_checkout reuses the session that waits ("one retry-safe payment
\* attempt"): two are never payable at once.
OneOpenSession == \A p, q \in PendingPayments : p = q

\* A paid project has the consultation its brief asked for
\* (missing_paid_consultation_requests), and an unpaid one has none
\* (calls_on_unpaid_projects).
CallsFollowPayment ==
    called = (project.status = "payment_completed" /\ project.wantsCall)

\* An agreement never changes to anything but the latest quote.
OnlyLatestAccepted ==
    [][order'.accepted # order.accepted /\ order'.accepted # 0 => order'.accepted = made]_vars

-----------------------------------------------------------------------------
(* What documents say, and the code does not keep *)

\* PHASE_3: "a cancelled payment session cannot later activate the project".
CancelledNeverActivates ==
    [][\A p \in Payment : payments[p].status = "cancelled" =>
          payments'[p].status # "confirmed"]_vars

\* PHASE_3: "late failure cannot reverse success".
SuccessIsFinal == [][order.status = "confirmed" => order'.status = "confirmed"]_vars

\* commerce_reconciliation.py: an accepted quote is the one of its order.
AcceptedQuoteIsTheOrders ==
    \A q \in Quote : quotes[q].accepted => order.accepted = q

\* commerce_views.py: the client accepts "the displayed quotation".
AcceptsWhatWasShown ==
    [][posted # NoTicket /\ posted' = NoTicket /\ order'.accepted # order.accepted =>
          quotes[order'.accepted].total = quotes[posted.shown].total]_vars

\* The promise of this module.
Abstract == INSTANCE Settlement WITH
    agreed <- IF order.accepted = 0 THEN {} ELSE {order.total},
    paid   <- {payments[p].amount : p \in ConfirmedPayments}

ImplementsSettlement == Abstract!Spec

=============================================================================
