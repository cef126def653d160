--------------------------- MODULE CheckoutProofs ---------------------------
(* Checkout takes the agreed price, once, for any number of quotes, checkout *)
(* sessions and provider results, in any order of delivery.                  *)
EXTENDS CommerceReconciliation, TLAPS

\* Quotes, and what refers to them, are dense: 1 up to made.
QuotesSound ==
    /\ \A q \in Quote : q <= made => quotes[q].total \in Price
    /\ order.accepted <= made
    /\ page <= made
    /\ posted # NoTicket => posted.quote \in 1..made

\* A session has a price and a provider, an order a total only with a quote.
RowsSound ==
    /\ \A p \in Payment : IF payments[p].status = "none" THEN payments[p].provider = None
                          ELSE payments[p].amount > 0
    /\ order.accepted = 0 => order.total = 0

\* The inductive invariant.
CInv ==
    /\ TypeOK
    /\ QuotesSound
    /\ RowsSound
    /\ PaidOnce
    /\ PriceIsAgreed
    /\ OneOpenSession
    /\ CallsFollowPayment

USE DEF Quote, Kinds, Modes, PendingPayments, ConfirmedPayments, NoTicket,
        ProjectRow, OrderRow, QuoteRow, PaymentRow

\* Writing the status of one session.
LEMMA StatusWritten ==
    ASSUME NEW rows \in [Payment -> PaymentRow], NEW p \in Payment,
           NEW s \in {"pending", "confirmed", "failed", "cancelled"},
           NEW after, after = [rows EXCEPT ![p].status = s]
    PROVE  /\ after[p].status = s /\ after[p].amount = rows[p].amount
           /\ after[p].provider = rows[p].provider
           /\ \A r \in Payment \ {p} : after[r] = rows[r]
           /\ after \in [Payment -> PaymentRow]
<1>1. rows[p] \in PaymentRow
  OBVIOUS
<1>2. [rows[p] EXCEPT !.status = s] \in PaymentRow
  BY <1>1
<1>3. after = [rows EXCEPT ![p] = [rows[p] EXCEPT !.status = s]]
  OBVIOUS
<1>4. QED
  BY <1>1, <1>2, <1>3

LEMMA InitInvariant == Init => CInv
<1> SUFFICES ASSUME Init PROVE CInv
  OBVIOUS
<1>1. TypeOK
  <2>1. project \in ProjectRow /\ order \in OrderRow /\ called \in BOOLEAN
    <3>1. \E wantsCall \in BOOLEAN :
             project = [status |-> "payment_pending", wantsCall |-> wantsCall]
      BY DEF Init
    <3>2. \E kind \in Kinds :
             order = [kind |-> kind, status |-> "pending", accepted |-> 0, total |-> 0]
      BY DEF Init
    <3>3. called = FALSE
      BY DEF Init
    <3>4. project \in ProjectRow
      BY <3>1
    <3>5. order \in OrderRow
      BY <3>2
    <3>6. QED
      BY <3>3, <3>4, <3>5
  <2>2. quotes \in [Quote -> QuoteRow] /\ payments \in [Payment -> PaymentRow]
    BY DEF Init
  <2>3. /\ made \in 0..MaxQuotes /\ page \in 0..MaxQuotes
        /\ posted \in [shown : 0..MaxQuotes, quote : 0..MaxQuotes]
    BY CheckoutAssumption DEF Init
  <2>4. events \in SUBSET Notice /\ results \in [Notice -> Result \cup {None}]
    BY DEF Init
  <2>5. QED
    BY <2>1, <2>2, <2>3, <2>4 DEF TypeOK
<1>2. QuotesSound /\ RowsSound
  BY CheckoutAssumption DEF Init, QuotesSound, RowsSound
<1>3. ConfirmedPayments = {} /\ PendingPayments = {}
  BY DEF Init
<1>4. project.status = "payment_pending" /\ called = FALSE /\ order.accepted = 0
  BY DEF Init
<1>5. PaidOnce /\ PriceIsAgreed /\ OneOpenSession /\ CallsFollowPayment
  BY <1>3, <1>4 DEF PaidOnce, PriceIsAgreed, OneOpenSession, CallsFollowPayment
<1>6. QED
  BY <1>1, <1>2, <1>5 DEF CInv

-----------------------------------------------------------------------------
(* Brief and quotes *)

\* A new quote is the latest and leaves the others alone.
LEMMA NewQuoteSound ==
    ASSUME CInv, NEW kind \in Kinds, NEW total \in Price, NewQuote(kind, total)
    PROVE  /\ made' \in 0..MaxQuotes /\ made' = made + 1
           /\ quotes' \in [Quote -> QuoteRow]
           /\ \A q \in Quote : q <= made' => quotes'[q].total \in Price
           /\ \A q \in Quote : q <= made => quotes'[q] = quotes[q]
<1>1. made + 1 \in Quote /\ total \in Nat
  BY CheckoutAssumption DEF NewQuote, CInv, TypeOK
<1>2. quotes' = [quotes EXCEPT ![made + 1] = [kind |-> kind, total |-> total, accepted |-> FALSE]]
  BY DEF NewQuote
<1>3. made' = made + 1
  BY DEF NewQuote
<1>4. QED
  BY <1>1, <1>2, <1>3, CheckoutAssumption DEF CInv, TypeOK, QuotesSound

LEMMA SaveBriefInvariant ==
    ASSUME CInv, NEW kind \in Kinds, NEW priced \in BOOLEAN, NEW wantsCall \in BOOLEAN,
           NEW total \in Price, SaveBrief(kind, priced, total, wantsCall)
    PROVE  CInv'
<1> USE DEF CInv
<1>1. /\ project.status = "payment_pending" /\ ConfirmedPayments = {}
      /\ project' = [project EXCEPT !.wantsCall = wantsCall]
      /\ UNCHANGED <<events, called, page, posted, results>>
  BY DEF SaveBrief, client
<1>2. /\ PendingPayments' = {} /\ ConfirmedPayments' = {}
      /\ payments' \in [Payment -> PaymentRow]
      /\ \A p \in Payment : /\ payments'[p].status = "none" <=> payments[p].status = "none"
                            /\ payments'[p].amount = payments[p].amount
                            /\ payments'[p].provider = payments[p].provider
  <2>1. CASE payments' = CancelPending
    <3>1. \A p \in Payment : [payments[p] EXCEPT !.status = "cancelled"] \in PaymentRow
      BY DEF TypeOK
    <3>2. payments' \in [Payment -> PaymentRow]
      BY <2>1, <3>1 DEF CancelPending, TypeOK
    <3>3. \A p \in Payment : payments'[p] = IF payments[p].status = "pending"
                                          THEN [payments[p] EXCEPT !.status = "cancelled"]
                                          ELSE payments[p]
      BY <2>1 DEF CancelPending
    <3>4. \A p \in Payment : payments[p] \in PaymentRow
      BY DEF TypeOK
    <3>5. QED
      BY <1>1, <3>2, <3>3, <3>4
  <2>2. CASE UNCHANGED payments /\ order.accepted = 0
    BY <1>1, <2>2 DEF PriceIsAgreed, TypeOK
  <2>3. QED
    BY <2>1, <2>2 DEF SaveBrief
<1>4. order'.accepted = 0 /\ order'.total = 0 /\ order' \in OrderRow
  <2>1. CASE order' = [order EXCEPT !.kind = kind, !.accepted = 0, !.total = 0]
    BY <2>1 DEF TypeOK
  <2>2. CASE order' = [order EXCEPT !.kind = kind] /\ order.accepted = 0
    BY <2>2 DEF TypeOK, RowsSound
  <2>3. QED
    BY <2>1, <2>2 DEF SaveBrief
<1>5. /\ made' \in 0..MaxQuotes /\ made <= made'
      /\ quotes' \in [Quote -> QuoteRow]
      /\ \A q \in Quote : q <= made' => quotes'[q].total \in Price
  <2>1. CASE NewQuote(kind, total)
    BY <2>1, NewQuoteSound DEF TypeOK
  <2>2. CASE UNCHANGED <<quotes, made>>
    BY <2>2 DEF TypeOK, QuotesSound
  <2>3. QED
    BY <2>1, <2>2 DEF SaveBrief
<1>6. TypeOK'
  BY <1>1, <1>2, <1>4, <1>5 DEF TypeOK
<1>7. QuotesSound'
  BY <1>1, <1>4, <1>5, CheckoutAssumption DEF QuotesSound, TypeOK
<1>8. RowsSound'
  BY <1>2, <1>4 DEF RowsSound
<1>9. project'.status = "payment_pending"
  BY <1>1 DEF TypeOK
<1>10. PaidOnce' /\ PriceIsAgreed' /\ OneOpenSession'
  BY <1>2, <1>4, <1>9 DEF PaidOnce, PriceIsAgreed, OneOpenSession
<1>11. CallsFollowPayment'
  BY <1>1, <1>9 DEF CallsFollowPayment
<1>12. QED
  BY <1>6, <1>7, <1>8, <1>10, <1>11

LEMMA CreateQuoteInvariant ==
    ASSUME CInv, NEW kind \in Kinds, NEW total \in Price, CreateQuote(kind, total)
    PROVE  CInv'
<1> USE DEF CInv
<1>1. /\ made' \in 0..MaxQuotes /\ made' = made + 1
      /\ quotes' \in [Quote -> QuoteRow]
      /\ \A q \in Quote : q <= made' => quotes'[q].total \in Price
      /\ \A q \in Quote : q <= made => quotes'[q] = quotes[q]
  BY NewQuoteSound DEF CreateQuote
<1>2. UNCHANGED <<project, order, payments, events, called, page, posted, results>>
  BY DEF CreateQuote, client
<1>3. TypeOK'
  BY <1>1, <1>2 DEF TypeOK
<1>4. QuotesSound'
  BY <1>1, <1>2, CheckoutAssumption DEF QuotesSound, TypeOK
<1>5. RowsSound' /\ PaidOnce' /\ OneOpenSession' /\ CallsFollowPayment'
  BY <1>2 DEF RowsSound, PaidOnce, OneOpenSession, CallsFollowPayment
<1>6. PriceIsAgreed'
  BY <1>1, <1>2 DEF PriceIsAgreed, QuotesSound, TypeOK
<1>7. QED
  BY <1>3, <1>4, <1>5, <1>6

-----------------------------------------------------------------------------
(* Acceptance and sessions *)

\* An accepted order carries the total of a real quote, and any session it
\* already has is at that total.
LEMMA AcceptSound ==
    ASSUME CInv, NEW q \in 1..made, Accept(q)
    PROVE  /\ order' \in OrderRow
           /\ order'.accepted = q /\ order'.status = order.status
           /\ order'.total = quotes[q].total /\ order'.total \in Price
           /\ quotes' \in [Quote -> QuoteRow]
           /\ \A k \in Quote : quotes'[k].total = quotes[k].total
           /\ \A p \in PendingPayments \cup ConfirmedPayments : payments[p].amount = order'.total
<1> USE DEF CInv
<1>1. q \in Quote /\ quotes[q].total \in Price /\ quotes[q].total \in Nat /\ quotes[q].kind \in Kinds
  BY CheckoutAssumption DEF TypeOK, QuotesSound
<1>2. order' = AcceptedOrder(q) /\ quotes' = [quotes EXCEPT ![q].accepted = TRUE] /\ Acceptable(q)
  BY DEF Accept
<1>3. /\ quotes' \in [Quote -> QuoteRow]
      /\ \A k \in Quote : quotes'[k].total = quotes[k].total
  <2>1. quotes[q] \in QuoteRow
    BY <1>1 DEF TypeOK
  <2>2. [quotes[q] EXCEPT !.accepted = TRUE] \in QuoteRow
    BY <2>1
  <2>3. quotes' = [quotes EXCEPT ![q] = [quotes[q] EXCEPT !.accepted = TRUE]]
    BY <1>2
  <2>4. QED
    BY <1>1, <2>1, <2>2, <2>3 DEF TypeOK
<1>4. CASE order.accepted = q
  BY <1>1, <1>2, <1>3, <1>4, CheckoutAssumption DEF AcceptedOrder, TypeOK, PriceIsAgreed
<1>5. CASE order.accepted # q
  <2>1. PendingPayments = {} /\ ConfirmedPayments = {}
    BY <1>2, <1>5 DEF Acceptable, Editable, PaidOnce
  <2>2. order' = [order EXCEPT !.kind = quotes[q].kind, !.accepted = q, !.total = quotes[q].total]
    BY <1>2, <1>5 DEF AcceptedOrder
  <2>3. /\ order' \in OrderRow
        /\ order'.accepted = q /\ order'.status = order.status /\ order'.total = quotes[q].total
    BY <1>1, <2>2 DEF TypeOK
  <2>4. QED
    BY <1>1, <1>3, <2>1, <2>3
<1>6. QED
  BY <1>4, <1>5

\* What start_checkout does to the sessions, given the order it starts from.
LEMMA SessionSound ==
    ASSUME CInv, NEW mode \in Mode, NEW row, row.total \in Price, row.accepted # 0,
           Session(row, mode),
           \A p \in PendingPayments \cup ConfirmedPayments : payments[p].amount = row.total
    PROVE  /\ payments' \in [Payment -> PaymentRow]
           /\ \A p \in Payment : IF payments'[p].status = "none" THEN payments'[p].provider = None
                                 ELSE payments'[p].amount > 0
           /\ ConfirmedPayments' = ConfirmedPayments
           /\ \A p \in PendingPayments' \cup ConfirmedPayments' : payments'[p].amount = row.total
           /\ \A p, r \in PendingPayments' : p = r
<1> USE DEF CInv
<1>1. CASE PendingPayments # {}
  <2>1. UNCHANGED payments
    BY <1>1 DEF Session
  <2>2. QED
    BY <2>1 DEF TypeOK, RowsSound, OneOpenSession
<1>2. CASE PendingPayments = {}
  <2>1. PICK p \in Payment :
           /\ payments[p].status = "none"
           /\ payments' = [payments EXCEPT ![p] =
                 [status |-> "pending", provider |-> mode, amount |-> row.total]]
    BY <1>2 DEF Session
  <2>2. row.total \in Nat /\ row.total > 0 /\ mode \in Modes
    <3>1. row.total \in Nat \ {0}
      BY CheckoutAssumption
    <3>2. QED
      BY <3>1, CheckoutAssumption
  <2>3. /\ payments'[p] = [status |-> "pending", provider |-> mode, amount |-> row.total]
        /\ \A r \in Payment \ {p} : payments'[r] = payments[r]
    BY <2>1 DEF TypeOK
  <2>4. payments' \in [Payment -> PaymentRow]
    BY <2>1, <2>2 DEF TypeOK
  <2>5. PendingPayments' = {p} /\ ConfirmedPayments' = ConfirmedPayments
    BY <1>2, <2>1, <2>3
  <2>6. QED
    BY <2>2, <2>3, <2>4, <2>5 DEF RowsSound
<1>3. QED
  BY <1>1, <1>2

LEMMA AcceptQuoteInvariant ==
    ASSUME CInv, NEW q \in Quote, AcceptQuote(q)
    PROVE  CInv'
<1> USE DEF CInv
<1>1. q \in 1..made /\ Accept(q)
  BY CheckoutAssumption DEF AcceptQuote, TypeOK
<1>2. UNCHANGED <<project, made, payments, events, called, page, posted, results>>
  BY DEF AcceptQuote, client
<1>3. TypeOK'
  BY <1>1, <1>2, AcceptSound DEF TypeOK
<1>4. QuotesSound'
  BY <1>1, <1>2, AcceptSound DEF QuotesSound
<1>5. RowsSound' /\ PriceIsAgreed'
  BY <1>1, <1>2, AcceptSound, CheckoutAssumption DEF RowsSound, PriceIsAgreed
<1>6. PaidOnce' /\ OneOpenSession' /\ CallsFollowPayment'
  BY <1>2 DEF PaidOnce, OneOpenSession, CallsFollowPayment
<1>7. QED
  BY <1>3, <1>4, <1>5, <1>6

LEMMA StartCheckoutInvariant ==
    ASSUME CInv, NEW mode \in Mode, StartCheckout(mode)
    PROVE  CInv'
<1> USE DEF CInv
<1>1. order.accepted # 0 /\ Session(order, mode)
  BY DEF StartCheckout, Session
<1>2. UNCHANGED <<project, order, quotes, made, events, called, page, posted, results>>
  BY DEF StartCheckout, client
<1>3. order.total \in Price
  BY <1>1 DEF PriceIsAgreed, QuotesSound, TypeOK
<1>4. \A p \in PendingPayments \cup ConfirmedPayments : payments[p].amount = order.total
  BY DEF PriceIsAgreed
<1>5. /\ payments' \in [Payment -> PaymentRow]
      /\ \A p \in Payment : IF payments'[p].status = "none" THEN payments'[p].provider = None
                            ELSE payments'[p].amount > 0
      /\ ConfirmedPayments' = ConfirmedPayments
      /\ \A p \in PendingPayments' \cup ConfirmedPayments' : payments'[p].amount = order.total
      /\ \A p, r \in PendingPayments' : p = r
  BY <1>1, <1>3, <1>4, SessionSound
<1>6. TypeOK' /\ QuotesSound'
  BY <1>2, <1>5 DEF TypeOK, QuotesSound
<1>7. RowsSound' /\ PriceIsAgreed'
  BY <1>1, <1>2, <1>5 DEF RowsSound, PriceIsAgreed
<1>8. PaidOnce' /\ OneOpenSession' /\ CallsFollowPayment'
  BY <1>2, <1>5 DEF PaidOnce, OneOpenSession, CallsFollowPayment
<1>9. QED
  BY <1>6, <1>7, <1>8

LEMMA AcceptAndPayInvariant ==
    ASSUME CInv, NEW mode \in Mode, AcceptAndPay(mode)
    PROVE  CInv'
<1> DEFINE q == posted.quote
<1> USE DEF CInv
<1>1. q \in 1..made /\ Accept(q) /\ order' = AcceptedOrder(q)
  BY DEF AcceptAndPay, Accept, QuotesSound
<1>2. Session(order', mode)
  BY <1>1 DEF AcceptAndPay
<1>3. posted' = NoTicket /\ UNCHANGED <<project, made, events, called, page, results>>
  BY DEF AcceptAndPay
<1> HIDE DEF q
<1>4. /\ order' \in OrderRow
      /\ order'.accepted = q /\ order'.total = quotes[q].total /\ order'.total \in Price
      /\ quotes' \in [Quote -> QuoteRow]
      /\ \A k \in Quote : quotes'[k].total = quotes[k].total
      /\ \A p \in PendingPayments \cup ConfirmedPayments : payments[p].amount = order'.total
  BY <1>1, AcceptSound
<1>5. order'.accepted # 0 /\ q <= made /\ q \in Quote
  BY <1>1, <1>4 DEF TypeOK
<1>6. /\ payments' \in [Payment -> PaymentRow]
      /\ \A p \in Payment : IF payments'[p].status = "none" THEN payments'[p].provider = None
                            ELSE payments'[p].amount > 0
      /\ ConfirmedPayments' = ConfirmedPayments
      /\ \A p \in PendingPayments' \cup ConfirmedPayments' : payments'[p].amount = order'.total
      /\ \A p, r \in PendingPayments' : p = r
  BY <1>2, <1>4, <1>5, SessionSound
<1>7. TypeOK'
  BY <1>3, <1>4, <1>6, CheckoutAssumption DEF TypeOK
<1>8. QuotesSound'
  BY <1>3, <1>4, <1>5 DEF QuotesSound
<1>9. RowsSound' /\ PriceIsAgreed'
  BY <1>4, <1>5, <1>6 DEF RowsSound, PriceIsAgreed
<1>10. PaidOnce' /\ OneOpenSession' /\ CallsFollowPayment'
  BY <1>3, <1>6 DEF PaidOnce, OneOpenSession, CallsFollowPayment
<1>11. QED
  BY <1>7, <1>8, <1>9, <1>10

-----------------------------------------------------------------------------
(* Pages and provider: the rows of the order do not move *)

LEMMA RowsUntouched ==
    ASSUME CInv, UNCHANGED orderRows, TypeOK', page' <= made,
           posted' # NoTicket => posted'.quote \in 1..made
    PROVE  CInv'
BY DEF CInv, orderRows, QuotesSound, RowsSound, PaidOnce, PriceIsAgreed, OneOpenSession, CallsFollowPayment

LEMMA PagesInvariant ==
    ASSUME CInv, ShowOrder \/ PostCheckout \/ RefuseCheckout
    PROVE  CInv'
<1> USE DEF CInv
<1>1. UNCHANGED orderRows
  BY DEF ShowOrder, PostCheckout, RefuseCheckout
<1>2. page' \in 0..MaxQuotes /\ page' <= made
  BY CheckoutAssumption DEF ShowOrder, PostCheckout, RefuseCheckout, TypeOK, QuotesSound
<1>3. posted' \in [shown : 0..MaxQuotes, quote : 0..MaxQuotes]
  BY CheckoutAssumption DEF ShowOrder, PostCheckout, RefuseCheckout, TypeOK
<1>4. posted' # NoTicket => posted'.quote \in 1..made
  BY CheckoutAssumption DEF ShowOrder, PostCheckout, RefuseCheckout, TypeOK, QuotesSound
<1>5. TypeOK'
  BY <1>1, <1>2, <1>3 DEF ShowOrder, PostCheckout, RefuseCheckout, TypeOK, orderRows
<1>6. QED
  BY <1>1, <1>2, <1>4, <1>5, RowsUntouched

LEMMA DecideInvariant ==
    ASSUME CInv, NEW n \in Notice, NEW p \in Payment, NEW outcome \in {"confirmed", "failed"},
           Decide(n, p, outcome)
    PROVE  CInv'
<1> USE DEF CInv
<1>1. UNCHANGED orderRows /\ UNCHANGED <<page, posted>>
  BY DEF Decide, client
<1>2. TypeOK'
  BY <1>1 DEF Decide, TypeOK, Result, orderRows
<1>3. QED
  BY <1>1, <1>2, RowsUntouched DEF QuotesSound

-----------------------------------------------------------------------------
(* Results *)

\* Activating a session whose amount is the order's total pays the order.
LEMMA ActivateInvariant ==
    ASSUME CInv, NEW p \in Payment, Activate(p), order.accepted # 0,
           payments[p].amount = order.total, payments[p].status # "none",
           UNCHANGED <<quotes, made, page, posted, results>>, events' \in SUBSET Notice
    PROVE  CInv' /\ ConfirmedPayments = {} /\ ConfirmedPayments' = {p}
<1> USE DEF CInv
<1>1. project.status = "payment_pending" /\ ConfirmedPayments = {} /\ called = FALSE
  BY DEF Activate, Activatable, PaidOnce, CallsFollowPayment
<1>2. /\ payments' = [payments EXCEPT ![p].status = "confirmed"]
      /\ order' = [order EXCEPT !.status = "confirmed"]
      /\ project' = [project EXCEPT !.status = "payment_completed"]
      /\ called' = (called \/ project.wantsCall)
  BY DEF Activate
<1>3. /\ payments'[p].status = "confirmed" /\ payments'[p].amount = payments[p].amount
      /\ \A r \in Payment \ {p} : payments'[r] = payments[r]
      /\ payments' \in [Payment -> PaymentRow]
  <2>1. payments \in [Payment -> PaymentRow]
    BY DEF TypeOK
  <2>2. QED
    BY ONLY <1>2, <2>1, StatusWritten
<1>4. /\ order'.accepted = order.accepted /\ order'.total = order.total
      /\ order' \in OrderRow
      /\ project'.status = "payment_completed" /\ project'.wantsCall = project.wantsCall
      /\ project' \in ProjectRow
  BY <1>2 DEF TypeOK
<1>5. ConfirmedPayments' = {p} /\ PendingPayments' \subseteq PendingPayments
  BY <1>1, <1>3
<1>6. called' \in BOOLEAN
  BY <1>1, <1>2 DEF TypeOK
<1>7. TypeOK'
  BY <1>3, <1>4, <1>6 DEF TypeOK
<1>8. QuotesSound' /\ RowsSound'
  BY <1>3, <1>4 DEF QuotesSound, RowsSound
<1>9. PaidOnce' /\ OneOpenSession'
  BY <1>4, <1>5 DEF PaidOnce, OneOpenSession
<1>10. PriceIsAgreed'
  BY <1>3, <1>4, <1>5 DEF PriceIsAgreed
<1>11. CallsFollowPayment'
  BY <1>1, <1>2, <1>4 DEF CallsFollowPayment
<1>12. QED
  BY <1>1, <1>5, <1>7, <1>8, <1>9, <1>10, <1>11

LEMMA FailInvariant ==
    ASSUME CInv, NEW p \in Payment, Fail(p),
           payments[p].status \notin {"none", "confirmed"},
           UNCHANGED <<quotes, made, page, posted, results>>, events' \in SUBSET Notice
    PROVE  /\ CInv' /\ ConfirmedPayments' = ConfirmedPayments
           /\ \A r \in Payment : payments'[r].amount = payments[r].amount
           /\ order'.accepted = order.accepted /\ order'.total = order.total
<1> USE DEF CInv
<1>1. /\ payments'[p].status = "failed" /\ payments'[p].amount = payments[p].amount
      /\ \A r \in Payment \ {p} : payments'[r] = payments[r]
      /\ payments' \in [Payment -> PaymentRow]
  <2>1. payments' = [payments EXCEPT ![p].status = "failed"]
    BY DEF Fail
  <2>2. payments \in [Payment -> PaymentRow]
    BY DEF TypeOK
  <2>3. QED
    BY ONLY <2>1, <2>2, StatusWritten
<1>2. /\ order'.accepted = order.accepted /\ order'.total = order.total
      /\ order' \in OrderRow
  BY DEF Fail, TypeOK
<1>3. ConfirmedPayments' = ConfirmedPayments /\ PendingPayments' \subseteq PendingPayments
  BY <1>1
<1>4. UNCHANGED <<project, called>>
  BY DEF Fail
<1>5. TypeOK'
  BY <1>1, <1>2, <1>4 DEF TypeOK
<1>6. QuotesSound' /\ RowsSound'
  BY <1>1, <1>2 DEF QuotesSound, RowsSound
<1>7. PaidOnce' /\ OneOpenSession' /\ CallsFollowPayment'
  BY <1>3, <1>4 DEF PaidOnce, OneOpenSession, CallsFollowPayment
<1>8. PriceIsAgreed'
  BY <1>1, <1>2, <1>3 DEF PriceIsAgreed
<1>9. QED
  BY <1>1, <1>2, <1>3, <1>5, <1>6, <1>7, <1>8

\* A result does one of three things to the order.
LEMMA ResultCases ==
    ASSUME CInv, NEW n \in Notice, ApplySandboxEvent(n) \/ ConfirmRazorpay(n)
    PROVE  /\ UNCHANGED <<quotes, made, page, posted, results>> /\ events' \in SUBSET Notice
           /\ \E p \in Payment :
                 \/ UNCHANGED <<payments, order, project, called>>
                 \/ /\ Activate(p) /\ payments[p].status # "none"
                    /\ order.accepted # 0 /\ payments[p].amount = order.total
                 \/ Fail(p) /\ payments[p].status \notin {"none", "confirmed"}
<1> USE DEF CInv
<1> DEFINE p == results[n].payment
<1>1. p \in Payment /\ results[n].outcome \in {"confirmed", "failed"}
  BY DEF ApplySandboxEvent, ConfirmRazorpay, TypeOK, Result
<1>2. UNCHANGED <<quotes, made, page, posted, results>> /\ events' \in SUBSET Notice
  BY DEF ApplySandboxEvent, ConfirmRazorpay, client, TypeOK
<1>3. CASE ApplySandboxEvent(n)
  <2>1. payments[p].provider = "sandbox" /\ payments[p].amount = order.total
    BY <1>1, <1>3 DEF ApplySandboxEvent, MatchesOrder
  <2>2. payments[p].status # "none" /\ payments[p].amount > 0
    BY <1>1, <2>1, CheckoutAssumption DEF RowsSound
  <2>3. order.accepted # 0
    BY <1>1, <2>1, <2>2 DEF RowsSound, TypeOK
  <2>4. \/ payments[p].status = "confirmed" /\ UNCHANGED <<payments, order, project, called>>
        \/ Activate(p)
        \/ payments[p].status # "confirmed" /\ Fail(p)
    BY <1>3 DEF ApplySandboxEvent
  <2>5. QED
    BY <1>1, <1>2, <2>1, <2>2, <2>3, <2>4
<1>4. CASE ConfirmRazorpay(n)
  <2>1. payments[p].status = "pending" /\ Activate(p)
    BY <1>4 DEF ConfirmRazorpay
  <2>2. order.accepted # 0 /\ payments[p].amount = order.total
    BY <1>1, <2>1 DEF PriceIsAgreed
  <2>3. QED
    BY <1>1, <1>2, <2>1, <2>2
<1>5. QED
  BY <1>3, <1>4

\* Every result keeps the invariant.
LEMMA ResultInvariant ==
    ASSUME CInv, NEW n \in Notice, ApplySandboxEvent(n) \/ ConfirmRazorpay(n)
    PROVE  CInv'
<1>1. UNCHANGED <<quotes, made, page, posted, results>> /\ events' \in SUBSET Notice
  BY ResultCases
<1>2. PICK p \in Payment :
         \/ UNCHANGED <<payments, order, project, called>>
         \/ /\ Activate(p) /\ payments[p].status # "none"
            /\ order.accepted # 0 /\ payments[p].amount = order.total
         \/ Fail(p) /\ payments[p].status \notin {"none", "confirmed"}
  BY ResultCases
<1>3. CASE UNCHANGED <<payments, order, project, called>>
  <2>1. TypeOK'
    BY <1>1, <1>3 DEF CInv, TypeOK
  <2>2. QED
    BY <1>1, <1>3, <2>1 DEF CInv, QuotesSound, RowsSound, PaidOnce, PriceIsAgreed,
                            OneOpenSession, CallsFollowPayment
<1>4. QED
  BY <1>1, <1>2, <1>3, ActivateInvariant, FailInvariant

LEMMA NextInvariant == CInv /\ [Next]_vars => CInv'
<1> SUFFICES ASSUME CInv, [Next]_vars PROVE CInv'
  OBVIOUS
<1>1. CASE Agree
  BY <1>1, SaveBriefInvariant, CreateQuoteInvariant, AcceptQuoteInvariant DEF Agree
<1>2. CASE Pay
  BY <1>2, StartCheckoutInvariant, AcceptAndPayInvariant, PagesInvariant DEF Pay
<1>3. CASE Settle
  BY <1>3, DecideInvariant, ResultInvariant DEF Settle
<1>4. CASE UNCHANGED vars
  <2>1. TypeOK'
    BY <1>4 DEF vars, orderRows, client, CInv, TypeOK
  <2>2. QED
    BY <1>4, <2>1, RowsUntouched DEF vars, client, CInv, QuotesSound
<1>5. QED
  BY <1>1, <1>2, <1>3, <1>4 DEF Next

-----------------------------------------------------------------------------
(* The theorems *)

\* The inductive invariant of checkout holds in every reachable state.
THEOREM CheckoutInvariant == Spec => []CInv
<1>1. QED
  BY InitInvariant, NextInvariant, PTL DEF Spec

\* Rows keep the types of the schema.
THEOREM CheckoutTypeOK == Spec => []TypeOK
<1>1. CInv => TypeOK
  BY DEF CInv
<1>2. QED
  BY <1>1, CheckoutInvariant, PTL

\* A project is paid by exactly one payment, whatever the provider repeats.
THEOREM CheckoutPaidOnce == Spec => []PaidOnce
<1>1. CInv => PaidOnce
  BY DEF CInv
<1>2. QED
  BY <1>1, CheckoutInvariant, PTL

\* Sessions wait for, and payments are, the agreed price.
THEOREM CheckoutPriceIsAgreed == Spec => []PriceIsAgreed
<1>1. CInv => PriceIsAgreed
  BY DEF CInv
<1>2. QED
  BY <1>1, CheckoutInvariant, PTL

\* Two sessions of an order are never payable at once.
THEOREM CheckoutOneOpenSession == Spec => []OneOpenSession
<1>1. CInv => OneOpenSession
  BY DEF CInv
<1>2. QED
  BY <1>1, CheckoutInvariant, PTL

\* Consultations are requested exactly for paid briefs that want them.
THEOREM CheckoutCallsFollowPayment == Spec => []CallsFollowPayment
<1>1. CInv => CallsFollowPayment
  BY DEF CInv
<1>2. QED
  BY <1>1, CheckoutInvariant, PTL

-----------------------------------------------------------------------------
(* Refinement *)

\* The refinement mapping.
AgreedPrice == IF order.accepted = 0 THEN {} ELSE {order.total}
PaidPrices  == {payments[p].amount : p \in ConfirmedPayments}

LEMMA NothingPaidYet ==
    ASSUME CInv, project.status = "payment_pending"
    PROVE  PaidPrices = {}
BY DEF CInv, PaidOnce, PaidPrices

\* Acceptance is an agreement, or a repetition of it.
LEMMA AcceptImplements ==
    ASSUME CInv, NEW q \in 1..made, Accept(q), PaidPrices' = PaidPrices
    PROVE  \/ \E price \in Price : PaidPrices = {} /\ AgreedPrice' = {price}
           \/ UNCHANGED <<AgreedPrice, PaidPrices>>
<1>1. order'.accepted = q /\ order'.total \in Price /\ order' = AcceptedOrder(q) /\ q # 0
  <2>1. order' = AcceptedOrder(q)
    BY DEF Accept
  <2>2. q # 0
    BY DEF CInv, TypeOK
  <2>3. QED
    BY <2>1, <2>2, AcceptSound
<1>2. CASE order.accepted = q
  BY <1>1, <1>2 DEF AcceptedOrder, AgreedPrice
<1>3. CASE order.accepted # q
  BY <1>1, <1>3, NothingPaidYet DEF Accept, Acceptable, Editable, AgreedPrice
<1>4. QED
  BY <1>2, <1>3

\* Only activation changes what is paid.
LEMMA SessionsImplement ==
    ASSUME CInv, NEW mode \in Mode, AcceptAndPay(mode) \/ StartCheckout(mode)
    PROVE  PaidPrices' = PaidPrices
<1>1. CASE UNCHANGED payments
  BY <1>1 DEF PaidPrices
<1>2. ASSUME NEW p \in Payment, NEW s, s.status = "pending", payments[p].status = "none",
             payments' = [payments EXCEPT ![p] = s]
      PROVE  PaidPrices' = PaidPrices
  <2>1. \A r \in Payment : payments'[r] = IF r = p THEN s ELSE payments[r]
    BY <1>2 DEF CInv, TypeOK
  <2>2. QED
    BY <1>2, <2>1 DEF PaidPrices
<1>3. QED
  BY <1>1, <1>2 DEF AcceptAndPay, StartCheckout, Session

\* accept_quote: an agreement never changes to anything but the latest quote.
THEOREM CheckoutOnlyLatestAccepted == Spec => OnlyLatestAccepted
<1> DEFINE Latest == order'.accepted # order.accepted /\ order'.accepted # 0 =>
                         order'.accepted = made
<1>1. CInv /\ [Next]_vars => [Latest]_vars
  <2> SUFFICES ASSUME CInv, Next PROVE Latest
    OBVIOUS
  <2>1. order \in OrderRow
    BY DEF CInv, TypeOK
  <2>2. ASSUME NEW q, Accept(q) PROVE Latest
    <3>1. CASE order.accepted = q
      BY <2>2, <3>1 DEF Accept, AcceptedOrder
    <3>2. CASE order.accepted # q
      BY <2>1, <2>2, <3>2 DEF Accept, AcceptedOrder, Acceptable
    <3>3. QED
      BY <3>1, <3>2
  <2>3. ASSUME NEW kind \in Kinds, NEW priced \in BOOLEAN, NEW wantsCall \in BOOLEAN,
               NEW total \in Price, SaveBrief(kind, priced, total, wantsCall)
        PROVE  Latest
    BY <2>3, SaveBriefInvariant, <2>1 DEF SaveBrief
  <2>4. ASSUME NEW p \in Payment, Activate(p) \/ Fail(p) PROVE Latest
    BY <2>1, <2>4 DEF Activate, Fail
  <2>5. ASSUME NEW n \in Notice, ApplySandboxEvent(n) \/ ConfirmRazorpay(n) PROVE Latest
    <3>1. PICK p \in Payment : Activate(p) \/ Fail(p) \/ UNCHANGED order
      BY <2>5, ResultCases
    <3>2. QED
      BY <2>4, <3>1
  <2>6. QED
    BY <2>2, <2>3, <2>5 DEF Next, Agree, Pay, Settle, AcceptQuote, CreateQuote, StartCheckout,
       AcceptAndPay, ShowOrder, PostCheckout, RefuseCheckout, Decide, orderRows
<1>2. QED
  BY <1>1, CheckoutInvariant, PTL DEF Spec, OnlyLatestAccepted

\* Checkout implements Settlement: the price agreed last is paid, once.
THEOREM CheckoutImplementsSettlement == Spec => ImplementsSettlement
<1>1. Init => Abstract!Init
  BY DEF Init, Abstract!Init
<1>2. CInv /\ [Next]_vars => [Abstract!Next]_(Abstract!settlement)
  <2> SUFFICES ASSUME CInv, [Next]_vars
               PROVE  Abstract!Next \/ UNCHANGED <<AgreedPrice, PaidPrices>>
    BY DEF Abstract!settlement, AgreedPrice, PaidPrices
  <2> USE DEF Abstract!Next, Abstract!Agree, Abstract!Withdraw, Abstract!Pay
  <2>1. ASSUME NEW kind \in Kinds, NEW priced \in BOOLEAN, NEW wantsCall \in BOOLEAN,
               NEW total \in Price, SaveBrief(kind, priced, total, wantsCall)
        PROVE  Abstract!Withdraw
    <3>1. CInv' /\ order'.accepted = 0 /\ project.status = "payment_pending"
      <4>1. CInv'
        BY <2>1, SaveBriefInvariant
      <4>2. order'.accepted = 0
        BY <2>1 DEF SaveBrief, CInv, TypeOK, OrderRow
      <4>3. project.status = "payment_pending"
        BY <2>1 DEF SaveBrief
      <4>4. QED
        BY <4>1, <4>2, <4>3
    <3>2. project'.status = "payment_pending"
      BY <2>1 DEF SaveBrief, CInv, TypeOK
    <3>3. PaidPrices = {} /\ PaidPrices' = {}
      BY <3>1, <3>2, NothingPaidYet DEF CInv, PaidOnce, PaidPrices
    <3>4. QED
      BY <3>1, <3>3 DEF AgreedPrice, PaidPrices
  <2>2. ASSUME NEW kind \in Kinds, NEW total \in Price, CreateQuote(kind, total)
        PROVE  UNCHANGED <<AgreedPrice, PaidPrices>>
    BY <2>2 DEF CreateQuote, AgreedPrice, PaidPrices
  <2>3. ASSUME NEW q \in Quote, AcceptQuote(q)
        PROVE  Abstract!Next \/ UNCHANGED <<AgreedPrice, PaidPrices>>
    <3>1. q \in 1..made /\ Accept(q) /\ PaidPrices' = PaidPrices
      BY <2>3, CheckoutAssumption DEF AcceptQuote, CInv, TypeOK, PaidPrices
    <3>2. QED
      BY <3>1, AcceptImplements DEF AgreedPrice, PaidPrices
  <2>4. ASSUME NEW mode \in Mode, StartCheckout(mode)
        PROVE  UNCHANGED <<AgreedPrice, PaidPrices>>
    BY <2>4, SessionsImplement DEF StartCheckout, AgreedPrice
  <2>5. ASSUME NEW mode \in Mode, AcceptAndPay(mode)
        PROVE  Abstract!Next \/ UNCHANGED <<AgreedPrice, PaidPrices>>
    <3>1. posted.quote \in 1..made /\ Accept(posted.quote) /\ PaidPrices' = PaidPrices
      BY <2>5, SessionsImplement DEF AcceptAndPay, CInv, QuotesSound
    <3>2. QED
      BY <3>1, AcceptImplements DEF AgreedPrice, PaidPrices
  <2>6. ASSUME ShowOrder \/ PostCheckout \/ RefuseCheckout
        PROVE  UNCHANGED <<AgreedPrice, PaidPrices>>
    BY <2>6 DEF ShowOrder, PostCheckout, RefuseCheckout, orderRows, AgreedPrice, PaidPrices
  <2>7. ASSUME NEW n \in Notice, NEW p \in Payment, NEW outcome \in {"confirmed", "failed"},
               Decide(n, p, outcome)
        PROVE  UNCHANGED <<AgreedPrice, PaidPrices>>
    BY <2>7 DEF Decide, orderRows, AgreedPrice, PaidPrices
  <2>8. ASSUME NEW n \in Notice, ApplySandboxEvent(n) \/ ConfirmRazorpay(n)
        PROVE  Abstract!Next \/ UNCHANGED <<AgreedPrice, PaidPrices>>
    <3>1. UNCHANGED <<quotes, made, page, posted, results>> /\ events' \in SUBSET Notice
      BY <2>8, ResultCases
    <3>2. PICK p \in Payment :
             \/ UNCHANGED <<payments, order, project, called>>
             \/ /\ Activate(p) /\ payments[p].status # "none"
                /\ order.accepted # 0 /\ payments[p].amount = order.total
             \/ Fail(p) /\ payments[p].status \notin {"none", "confirmed"}
      BY <2>8, ResultCases
    <3>3. CASE UNCHANGED <<payments, order, project, called>>
      BY <3>3 DEF AgreedPrice, PaidPrices
    <3>4. CASE /\ Activate(p) /\ payments[p].status # "none"
               /\ order.accepted # 0 /\ payments[p].amount = order.total
      <4>1. ConfirmedPayments = {} /\ ConfirmedPayments' = {p}
        BY <3>1, <3>4, ActivateInvariant
      <4>2. payments'[p].amount = payments[p].amount
        BY <3>4, StatusWritten DEF Activate, CInv, TypeOK
      <4>3. order'.accepted = order.accepted /\ order'.total = order.total
        BY <3>4 DEF Activate, CInv, TypeOK
      <4>4. PaidPrices = {} /\ AgreedPrice = {order.total} /\ AgreedPrice' = {order.total}
        BY <3>4, <4>1, <4>3 DEF PaidPrices, AgreedPrice
      <4>5. PaidPrices' = {order.total}
        BY <3>4, <4>1, <4>2 DEF PaidPrices
      <4>6. QED
        BY <4>4, <4>5 DEF AgreedPrice, PaidPrices
    <3>5. CASE Fail(p) /\ payments[p].status \notin {"none", "confirmed"}
      BY <3>1, <3>5, FailInvariant DEF AgreedPrice, PaidPrices
    <3>6. QED
      BY <3>2, <3>3, <3>4, <3>5
  <2>9. CASE UNCHANGED vars
    BY <2>9 DEF vars, orderRows, AgreedPrice, PaidPrices
  <2>10. QED
    BY <2>1, <2>2, <2>3, <2>4, <2>5, <2>6, <2>7, <2>8, <2>9 DEF Next, Agree, Pay, Settle
<1>3. QED
  BY <1>1, <1>2, CheckoutInvariant, PTL DEF Spec, ImplementsSettlement, Abstract!Spec

-----------------------------------------------------------------------------
(* The audit of orders *)

\* Two sessions of the order.
TwoSessions == \E p, r \in Payment : p # r /\ payments[p].status # "none" /\ payments[r].status # "none"

\* The order's agreement is an accepted quote, and sessions are at the total of
\* one.
QuotesAgree ==
    /\ \A q \in Quote : quotes[q].accepted => q <= made
    /\ order.accepted # 0 =>
          quotes[order.accepted].accepted /\ order.kind = quotes[order.accepted].kind
    /\ \A p \in Payment : payments[p].status # "none" =>
          \E q \in Quote : quotes[q].accepted /\ quotes[q].total = payments[p].amount

\* Results are about sessions, and what a result settled has its event.
EventsAgree ==
    /\ \A n \in Notice : results[n] # None =>
          /\ payments[results[n].payment].status # "none"
          /\ payments[results[n].payment].provider = "razorpay_test" =>
                results[n].outcome = "confirmed"
    /\ \A n \in events : results[n] # None /\ payments[results[n].payment].provider # None
    /\ \A p \in Payment : payments[p].status \in {"confirmed", "failed"} =>
          EventsOf(p, payments[p].status) # {}

\* The order's status, unless a second session spoils it.
StatusesAgree ==
    /\ order.status = "confirmed" => project.status = "payment_completed"
    /\ project.status = "payment_completed" => order.status = "confirmed" \/ TwoSessions
    /\ \A p \in Payment : payments[p].status = "failed" => order.status = "failed" \/ TwoSessions

AInv == CInv /\ QuotesAgree /\ EventsAgree /\ StatusesAgree

\* What a step that settles nothing does to sessions: none is lost, none is
\* settled.
NothingSettled ==
    /\ \A p \in Payment : payments[p].status # "none" =>
          /\ payments'[p].status # "none"
          /\ payments'[p].amount = payments[p].amount
          /\ payments'[p].provider = payments[p].provider
    /\ \A p \in Payment : payments'[p].status \in {"confirmed", "failed"} =>
          payments'[p].status = payments[p].status

LEMMA SettledKept ==
    ASSUME AInv, NothingSettled, UNCHANGED <<events, results>>,
           order'.status = order.status, project'.status = project.status
    PROVE  EventsAgree' /\ StatusesAgree'
<1>1. \A n \in Notice : results[n] # None => results[n].payment \in Payment
  BY DEF AInv, CInv, TypeOK, Result
<1>2. events \subseteq Notice
  BY DEF AInv, CInv, TypeOK
<1>3. \A n \in Notice : results[n] # None =>
         payments'[results[n].payment].status # "none"
         /\ payments'[results[n].payment].provider = payments[results[n].payment].provider
  BY <1>1 DEF AInv, EventsAgree, NothingSettled
<1>4. \A p \in Payment, s \in {"confirmed", "failed"} : EventsOf(p, s)' = EventsOf(p, s)
  BY DEF EventsOf
<1>5. \A p \in Payment, s \in {"confirmed", "failed"} :
         payments'[p].status = s => EventsOf(p, s)' # {}
  BY <1>4 DEF AInv, EventsAgree, NothingSettled
<1>6. (\A p \in Payment : payments[p].status \in {"confirmed", "failed"} =>
           EventsOf(p, payments[p].status) # {})'
  BY <1>5 DEF EventsOf
<1>7. EventsAgree'
  BY <1>2, <1>3, <1>6 DEF AInv, EventsAgree
<1>8. TwoSessions => TwoSessions'
  BY DEF TwoSessions, NothingSettled
<1>9. StatusesAgree'
  BY <1>8 DEF AInv, StatusesAgree, NothingSettled
<1>10. QED
  BY <1>7, <1>9

\* A new quote is nobody's agreement yet.
LEMMA NewQuoteAgrees ==
    ASSUME CInv, NEW kind \in Kinds, NEW total \in Price, NewQuote(kind, total)
    PROVE  /\ made' = made + 1 /\ made \in Nat
           /\ \A q \in Quote : q <= made => quotes'[q] = quotes[q]
           /\ \A q \in Quote : quotes'[q].accepted => quotes[q].accepted /\ quotes'[q] = quotes[q]
<1>1. made' = made + 1 /\ made \in Nat /\ made + 1 \in Quote
  BY CheckoutAssumption DEF NewQuote, CInv, TypeOK
<1>2. quotes'[made + 1] = [kind |-> kind, total |-> total, accepted |-> FALSE]
  BY <1>1 DEF NewQuote, CInv, TypeOK
<1>3. \A q \in Quote : q # made + 1 => quotes'[q] = quotes[q]
  BY DEF NewQuote, CInv, TypeOK
<1>4. QED
  BY <1>1, <1>2, <1>3

LEMMA SaveBriefAudit ==
    ASSUME AInv, NEW kind \in Kinds, NEW priced \in BOOLEAN, NEW wantsCall \in BOOLEAN,
           NEW total \in Price, SaveBrief(kind, priced, total, wantsCall)
    PROVE  QuotesAgree' /\ EventsAgree' /\ StatusesAgree'
<1>1. order'.accepted = 0 /\ order'.status = order.status
  <2>1. CASE order' = [order EXCEPT !.kind = kind, !.accepted = 0, !.total = 0]
    BY <2>1 DEF AInv, CInv, TypeOK
  <2>2. CASE order' = [order EXCEPT !.kind = kind] /\ order.accepted = 0
    BY <2>2 DEF AInv, CInv, TypeOK
  <2>3. QED
    BY <2>1, <2>2 DEF SaveBrief
<1>2. project'.status = project.status /\ UNCHANGED <<events, results>>
  BY DEF SaveBrief, AInv, CInv, TypeOK
<1>3. /\ NothingSettled
      /\ \A p \in Payment : /\ payments'[p].status = "none" <=> payments[p].status = "none"
                            /\ payments'[p].amount = payments[p].amount
  <2>1. CASE UNCHANGED payments
    BY <2>1 DEF NothingSettled
  <2>2. CASE payments' = CancelPending
    <3>1. \A p \in Payment : payments'[p] = IF payments[p].status = "pending"
                                          THEN [payments[p] EXCEPT !.status = "cancelled"]
                                          ELSE payments[p]
      BY <2>2 DEF CancelPending
    <3>2. \A p \in Payment : payments[p] \in PaymentRow
      BY DEF AInv, CInv, TypeOK
    <3>3. QED
      BY <3>1, <3>2 DEF NothingSettled
  <2>3. QED
    BY <2>1, <2>2 DEF SaveBrief
<1>4. EventsAgree' /\ StatusesAgree'
  BY <1>1, <1>2, <1>3, SettledKept
<1>5. QuotesAgree'
  <2>1. CASE NewQuote(kind, total)
    <3>1. /\ made' = made + 1 /\ made \in Nat
          /\ \A q \in Quote : q <= made => quotes'[q] = quotes[q]
          /\ \A q \in Quote : quotes'[q].accepted => quotes[q].accepted /\ quotes'[q] = quotes[q]
      BY <2>1, NewQuoteAgrees DEF AInv
    <3>2. \A q \in Quote : quotes'[q].accepted => q <= made'
      BY <3>1 DEF AInv, QuotesAgree
    <3>3. \A p \in Payment : payments'[p].status # "none" =>
             \E q \in Quote : quotes'[q].accepted /\ quotes'[q].total = payments'[p].amount
      BY <1>3, <3>1 DEF AInv, QuotesAgree
    <3>4. QED
      BY <1>1, <3>2, <3>3 DEF QuotesAgree
  <2>2. CASE UNCHANGED <<quotes, made>>
    BY <1>1, <1>3, <2>2 DEF AInv, QuotesAgree
  <2>3. QED
    BY <2>1, <2>2 DEF SaveBrief
<1>6. QED
  BY <1>4, <1>5

LEMMA CreateQuoteAudit ==
    ASSUME AInv, NEW kind \in Kinds, NEW total \in Price, CreateQuote(kind, total)
    PROVE  QuotesAgree' /\ EventsAgree' /\ StatusesAgree'
<1>1. UNCHANGED <<project, order, payments, events, results>> /\ NothingSettled
  BY DEF CreateQuote, NothingSettled
<1>2. /\ made' = made + 1 /\ made \in Nat
      /\ \A q \in Quote : q <= made => quotes'[q] = quotes[q]
      /\ \A q \in Quote : quotes'[q].accepted => quotes[q].accepted /\ quotes'[q] = quotes[q]
  BY NewQuoteAgrees DEF CreateQuote, AInv
<1>3. order.accepted # 0 => order.accepted \in Quote /\ order.accepted <= made
  BY DEF AInv, CInv, TypeOK, QuotesSound
<1>4. QuotesAgree'
  <2>1. \A q \in Quote : quotes'[q].accepted => q <= made'
    BY <1>2 DEF AInv, QuotesAgree
  <2>2. order'.accepted # 0 =>
           quotes'[order'.accepted].accepted /\ order'.kind = quotes'[order'.accepted].kind
    BY <1>1, <1>2, <1>3 DEF AInv, QuotesAgree
  <2>3. \A p \in Payment : payments'[p].status # "none" =>
           \E q \in Quote : quotes'[q].accepted /\ quotes'[q].total = payments'[p].amount
    BY <1>1, <1>2 DEF AInv, QuotesAgree
  <2>4. QED
    BY <2>1, <2>2, <2>3 DEF QuotesAgree
<1>5. QED
  BY <1>1, <1>4, SettledKept

\* What accepting leaves behind, before any session is opened.
LEMMA AcceptAgrees ==
    ASSUME AInv, NEW q \in 1..made, Accept(q)
    PROVE  /\ order'.accepted = q /\ order'.status = order.status
           /\ order'.total = quotes'[q].total
           /\ quotes'[q].accepted /\ order'.kind = quotes'[q].kind
           /\ \A k \in Quote : /\ quotes'[k].accepted => k <= made
                               /\ quotes[k].accepted => quotes'[k].accepted
                               /\ quotes'[k].total = quotes[k].total
<1>1. q \in Quote /\ q # 0 /\ q <= made /\ made \in Nat
  BY CheckoutAssumption DEF AInv, CInv, TypeOK
<1>2. order'.accepted = q /\ order'.status = order.status /\ order'.total = quotes[q].total
      /\ \A k \in Quote : quotes'[k].total = quotes[k].total
  BY AcceptSound DEF AInv
<1>3. quotes' = [quotes EXCEPT ![q] = [quotes[q] EXCEPT !.accepted = TRUE]]
  BY DEF Accept
<1>4. /\ quotes'[q].accepted /\ quotes'[q].kind = quotes[q].kind
      /\ \A k \in Quote : k # q => quotes'[k] = quotes[k]
  <2>1. quotes[q] \in QuoteRow /\ quotes \in [Quote -> QuoteRow]
    BY <1>1 DEF AInv, CInv, TypeOK
  <2>2. QED
    BY <1>1, <1>3, <2>1
<1>5. order'.kind = quotes[q].kind
  <2>1. CASE order.accepted = q
    BY <1>1, <2>1 DEF Accept, AcceptedOrder, AInv, QuotesAgree
  <2>2. CASE order.accepted # q
    BY <2>2 DEF Accept, AcceptedOrder, AInv, CInv, TypeOK
  <2>3. QED
    BY <2>1, <2>2
<1>6. QED
  BY <1>1, <1>2, <1>4, <1>5 DEF AInv, QuotesAgree

\* A session opened is pending, at the total of the row it was opened for.
LEMMA SessionAgrees ==
    ASSUME AInv, NEW mode, NEW row, Session(row, mode)
    PROVE  /\ NothingSettled
           /\ \A p \in Payment : payments'[p].status # "none" =>
                 \/ payments[p].status # "none" /\ payments'[p].amount = payments[p].amount
                 \/ payments'[p].amount = row.total
<1>1. CASE UNCHANGED payments
  BY <1>1 DEF NothingSettled
<1>2. CASE ~UNCHANGED payments
  <2>1. PICK p \in Payment :
           /\ payments[p].status = "none"
           /\ payments' = [payments EXCEPT ![p] =
                 [status |-> "pending", provider |-> mode, amount |-> row.total]]
    BY <1>2 DEF Session
  <2>2. /\ payments'[p].status = "pending" /\ payments'[p].amount = row.total
        /\ \A r \in Payment \ {p} : payments'[r] = payments[r]
    BY <2>1 DEF AInv, CInv, TypeOK
  <2>3. QED
    BY <2>1, <2>2 DEF NothingSettled
<1>3. QED
  BY <1>1, <1>2

LEMMA AcceptQuoteAudit ==
    ASSUME AInv, NEW q \in Quote, AcceptQuote(q)
    PROVE  QuotesAgree' /\ EventsAgree' /\ StatusesAgree'
<1>1. UNCHANGED <<project, made, payments, events, results>> /\ NothingSettled
  BY DEF AcceptQuote, NothingSettled
<1>2. q \in 1..made /\ Accept(q)
  BY CheckoutAssumption DEF AcceptQuote, AInv, CInv, TypeOK
<1>3. QuotesAgree'
  BY <1>1, <1>2, AcceptAgrees DEF AInv, QuotesAgree
<1>4. EventsAgree' /\ StatusesAgree'
  BY <1>1, <1>2, AcceptAgrees, SettledKept
<1>5. QED
  BY <1>3, <1>4

LEMMA StartCheckoutAudit ==
    ASSUME AInv, NEW mode \in Mode, StartCheckout(mode)
    PROVE  QuotesAgree' /\ EventsAgree' /\ StatusesAgree'
<1>1. UNCHANGED <<project, order, quotes, made, events, results>> /\ Session(order, mode)
  BY DEF StartCheckout
<1>2. /\ NothingSettled
      /\ \A p \in Payment : payments'[p].status # "none" =>
            \/ payments[p].status # "none" /\ payments'[p].amount = payments[p].amount
            \/ payments'[p].amount = order.total
  BY <1>1, SessionAgrees
<1>3. order.accepted \in Quote /\ quotes[order.accepted].accepted
      /\ order.total = quotes[order.accepted].total
  BY <1>1 DEF Session, AInv, CInv, TypeOK, PriceIsAgreed, QuotesAgree
<1>4. QuotesAgree'
  BY <1>1, <1>2, <1>3 DEF AInv, QuotesAgree
<1>5. QED
  BY <1>1, <1>2, <1>4, SettledKept

LEMMA AcceptAndPayAudit ==
    ASSUME AInv, NEW mode \in Mode, AcceptAndPay(mode)
    PROVE  QuotesAgree' /\ EventsAgree' /\ StatusesAgree'
<1> DEFINE q == posted.quote
<1>1. q \in 1..made /\ Accept(q) /\ Session(order', mode)
  BY DEF AcceptAndPay, Accept, AInv, CInv, QuotesSound
<1>2. UNCHANGED <<project, made, events, results>>
  BY DEF AcceptAndPay
<1> HIDE DEF q
<1>3. /\ order'.accepted = q /\ order'.status = order.status
      /\ order'.total = quotes'[q].total
      /\ quotes'[q].accepted /\ order'.kind = quotes'[q].kind
      /\ \A k \in Quote : /\ quotes'[k].accepted => k <= made
                          /\ quotes[k].accepted => quotes'[k].accepted
                          /\ quotes'[k].total = quotes[k].total
  BY <1>1, AcceptAgrees
<1>4. /\ NothingSettled
      /\ \A p \in Payment : payments'[p].status # "none" =>
            \/ payments[p].status # "none" /\ payments'[p].amount = payments[p].amount
            \/ payments'[p].amount = order'.total
  BY <1>1, SessionAgrees
<1>5. q \in Quote
  BY <1>1, CheckoutAssumption DEF AInv, CInv, TypeOK
<1>6. QuotesAgree'
  <2>1. \A p \in Payment : payments'[p].status # "none" =>
           \E k \in Quote : quotes'[k].accepted /\ quotes'[k].total = payments'[p].amount
    BY <1>3, <1>4, <1>5 DEF AInv, QuotesAgree
  <2>2. QED
    BY <1>2, <1>3, <2>1 DEF QuotesAgree
<1>7. QED
  BY <1>2, <1>3, <1>4, <1>6, SettledKept

\* The provider decides about a session that exists.
LEMMA DecideAudit ==
    ASSUME AInv, NEW n \in Notice, NEW p \in Payment, NEW outcome \in {"confirmed", "failed"},
           Decide(n, p, outcome)
    PROVE  QuotesAgree' /\ EventsAgree' /\ StatusesAgree'
<1>1. UNCHANGED <<project, order, quotes, made, payments, events>>
  BY DEF Decide, orderRows
<1>2. /\ results[n] = None /\ payments[p].status # "none"
      /\ payments[p].provider = "razorpay_test" => outcome = "confirmed"
      /\ results'[n] = [payment |-> p, outcome |-> outcome]
      /\ \A m \in Notice : m # n => results'[m] = results[m]
  BY DEF Decide, AInv, CInv, TypeOK
<1>3. n \notin events /\ events \subseteq Notice
  BY <1>2 DEF AInv, CInv, TypeOK, EventsAgree
<1>4. \A m \in events : results'[m] = results[m]
  BY <1>2, <1>3
<1>5. \A r \in Payment, s \in {"confirmed", "failed"} : EventsOf(r, s)' = EventsOf(r, s)
  BY <1>1, <1>4 DEF EventsOf
<1>6. EventsAgree'
  <2>1. \A m \in Notice : results'[m] # None =>
           /\ payments'[results'[m].payment].status # "none"
           /\ payments'[results'[m].payment].provider = "razorpay_test" =>
                 results'[m].outcome = "confirmed"
    BY <1>1, <1>2 DEF AInv, EventsAgree
  <2>2. \A m \in events' : results'[m] # None /\ payments'[results'[m].payment].provider # None
    BY <1>1, <1>4 DEF AInv, EventsAgree
  <2>3. \A r \in Payment, s \in {"confirmed", "failed"} :
           payments'[r].status = s => EventsOf(r, s)' # {}
    BY <1>1, <1>5 DEF AInv, EventsAgree
  <2>4. (\A r \in Payment : payments[r].status \in {"confirmed", "failed"} =>
             EventsOf(r, payments[r].status) # {})'
    BY <2>3 DEF EventsOf
  <2>5. QED
    BY <2>1, <2>2, <2>4 DEF EventsAgree
<1>7. QuotesAgree' /\ StatusesAgree'
  BY <1>1 DEF AInv, QuotesAgree, StatusesAgree, TwoSessions
<1>8. QED
  BY <1>6, <1>7

\* What a result does: the session it is about, its event, and its outcome.
LEMMA ResultEffect ==
    ASSUME AInv, NEW n \in Notice, ApplySandboxEvent(n) \/ ConfirmRazorpay(n), NEW p,
           p = results[n].payment
    PROVE  /\ p \in Payment /\ payments[p].status # "none" /\ payments[p].provider # None
           /\ results[n] # None /\ events' = events \cup {n}
           /\ UNCHANGED <<quotes, made, results>>
           /\ \/ UNCHANGED <<payments, order, project>>
              \/ Activate(p) /\ results[n].outcome = "confirmed"
              \/ Fail(p) /\ results[n].outcome = "failed" /\ payments[p].status # "confirmed"
<1>1. p \in Payment /\ results[n] # None /\ results[n].outcome \in {"confirmed", "failed"}
  BY DEF ApplySandboxEvent, ConfirmRazorpay, AInv, CInv, TypeOK, Result
<1>2. payments[p].status # "none" /\ n \in Notice
  BY <1>1 DEF AInv, EventsAgree
<1>3. payments[p].provider \in {"sandbox", "razorpay_test"} /\ payments[p].provider # None
  BY CheckoutAssumption DEF ApplySandboxEvent, ConfirmRazorpay
<1>4. events' = events \cup {n} /\ UNCHANGED <<quotes, made, results>>
  BY DEF ApplySandboxEvent, ConfirmRazorpay
<1>5. CASE ApplySandboxEvent(n)
  BY <1>1, <1>2, <1>3, <1>4, <1>5 DEF ApplySandboxEvent
<1>6. CASE ConfirmRazorpay(n)
  <2>1. Activate(p) /\ payments[p].provider = "razorpay_test"
    BY <1>6 DEF ConfirmRazorpay
  <2>2. results[n].outcome = "confirmed"
    BY <1>1, <2>1 DEF AInv, EventsAgree
  <2>3. QED
    BY <1>1, <1>2, <1>3, <1>4, <2>1, <2>2
<1>7. QED
  BY <1>5, <1>6

LEMMA ResultAudit ==
    ASSUME AInv, NEW n \in Notice, ApplySandboxEvent(n) \/ ConfirmRazorpay(n)
    PROVE  QuotesAgree' /\ EventsAgree' /\ StatusesAgree'
<1> DEFINE p == results[n].payment
<1>1. /\ p \in Payment /\ payments[p].status # "none" /\ payments[p].provider # None
      /\ results[n] # None /\ events' = events \cup {n}
      /\ UNCHANGED <<quotes, made, results>>
      /\ \/ UNCHANGED <<payments, order, project>>
         \/ Activate(p) /\ results[n].outcome = "confirmed"
         \/ Fail(p) /\ results[n].outcome = "failed" /\ payments[p].status # "confirmed"
  BY ResultEffect
<1>2. results[n].payment = p
  OBVIOUS
<1> HIDE DEF p
<1>3. payments \in [Payment -> PaymentRow] /\ order \in OrderRow /\ project \in ProjectRow
      /\ events \subseteq Notice
  BY DEF AInv, CInv, TypeOK
<1>4. \A r \in Payment : payments'[r].amount = payments[r].amount
                         /\ payments'[r].provider = payments[r].provider
                         /\ (payments'[r].status # "none" <=> payments[r].status # "none")
                         /\ (r # p => payments'[r] = payments[r])
  <2>1. CASE UNCHANGED payments
    BY <2>1
  <2>2. CASE payments' = [payments EXCEPT ![p].status = "confirmed"]
    BY <1>1, <1>3, <2>2, StatusWritten
  <2>3. CASE payments' = [payments EXCEPT ![p].status = "failed"]
    BY <1>1, <1>3, <2>3, StatusWritten
  <2>4. QED
    BY <1>1, <2>1, <2>2, <2>3 DEF Activate, Fail
<1>5. /\ order'.accepted = order.accepted /\ order'.kind = order.kind
  BY <1>1, <1>3 DEF Activate, Fail
<1>6. QuotesAgree'
  BY <1>1, <1>4, <1>5 DEF AInv, QuotesAgree
<1>7. \A r \in Payment, s \in {"confirmed", "failed"} : EventsOf(r, s) \subseteq EventsOf(r, s)'
  BY <1>1 DEF EventsOf
<1>8. payments'[p].status \in {"confirmed", "failed"} =>
         payments'[p].status = payments[p].status \/ payments'[p].status = results[n].outcome
  BY <1>1, <1>3, StatusWritten DEF Activate, Fail
<1>9. EventsAgree'
  <2>1. \A m \in Notice : results[m] # None => results[m].payment \in Payment
    BY DEF AInv, CInv, TypeOK, Result
  <2>2. \A m \in Notice : results'[m] # None =>
           /\ payments'[results'[m].payment].status # "none"
           /\ payments'[results'[m].payment].provider = "razorpay_test" =>
                 results'[m].outcome = "confirmed"
    BY <1>1, <1>4, <2>1 DEF AInv, EventsAgree
  <2>3. \A m \in events' : results'[m] # None /\ payments'[results'[m].payment].provider # None
    BY <1>1, <1>2, <1>3, <1>4, <2>1 DEF AInv, EventsAgree
  <2>4. ASSUME NEW r \in Payment, NEW s \in {"confirmed", "failed"}, payments'[r].status = s
        PROVE  EventsOf(r, s)' # {}
    <3>1. CASE payments[r].status = s
      BY <1>7, <2>4, <3>1 DEF AInv, EventsAgree
    <3>2. CASE payments[r].status # s
      <4>1. r = p /\ results[n].outcome = s
        BY <1>4, <1>8, <2>4, <3>2
      <4>2. n \in EventsOf(r, s)'
        BY <1>1, <1>2, <4>1 DEF EventsOf
      <4>3. QED
        BY <4>2
    <3>3. QED
      BY <3>1, <3>2
  <2>5. (\A r \in Payment : payments[r].status \in {"confirmed", "failed"} =>
             EventsOf(r, payments[r].status) # {})'
    BY <2>4 DEF EventsOf
  <2>6. QED
    BY <2>2, <2>3, <2>5 DEF EventsAgree
<1>10. TwoSessions => TwoSessions'
  BY <1>4 DEF TwoSessions
<1>11. StatusesAgree'
  <2>1. CASE UNCHANGED <<payments, order, project>>
    BY <2>1 DEF AInv, StatusesAgree, TwoSessions
  <2>2. CASE Activate(p)
    <3>1. order'.status = "confirmed" /\ project'.status = "payment_completed"
          /\ payments'[p].status = "confirmed"
      BY <1>1, <1>3, <2>2, StatusWritten DEF Activate
    <3>2. \A r \in Payment : payments'[r].status = "failed" => TwoSessions'
      BY <1>1, <1>4, <3>1 DEF TwoSessions
    <3>3. QED
      BY <3>1, <3>2 DEF StatusesAgree
  <2>3. CASE Fail(p) /\ payments[p].status # "confirmed"
    <3>1. order'.status = "failed" /\ project' = project
      BY <1>3, <2>3 DEF Fail
    <3>2. project.status = "payment_completed" => TwoSessions'
      <4> SUFFICES ASSUME project.status = "payment_completed" PROVE TwoSessions'
        OBVIOUS
      <4>1. PICK r \in Payment : payments[r].status = "confirmed"
        BY DEF AInv, CInv, PaidOnce
      <4>2. r # p /\ payments'[r].status # "none" /\ payments'[p].status # "none"
        BY <1>1, <1>4, <2>3, <4>1
      <4>3. QED
        BY <1>1, <4>2 DEF TwoSessions
    <3>3. QED
      BY <3>1, <3>2 DEF StatusesAgree
  <2>4. QED
    BY <1>1, <2>1, <2>2, <2>3
<1>12. QED
  BY <1>6, <1>9, <1>11

LEMMA AuditStep == AInv /\ [Next]_vars => AInv'
<1> SUFFICES ASSUME AInv, [Next]_vars PROVE AInv'
  OBVIOUS
<1>1. CInv'
  BY NextInvariant DEF AInv
<1>2. CASE Agree
  BY <1>1, <1>2, SaveBriefAudit, CreateQuoteAudit, AcceptQuoteAudit DEF Agree, AInv
<1>3. CASE \E mode \in Mode : StartCheckout(mode) \/ AcceptAndPay(mode)
  BY <1>1, <1>3, StartCheckoutAudit, AcceptAndPayAudit DEF AInv
<1>4. CASE ShowOrder \/ PostCheckout \/ RefuseCheckout \/ UNCHANGED vars
  <2>1. UNCHANGED <<project, order, quotes, made, payments, events, results>>
    BY <1>4 DEF ShowOrder, PostCheckout, RefuseCheckout, vars, orderRows
  <2>2. NothingSettled
    BY <2>1 DEF NothingSettled
  <2>3. EventsAgree' /\ StatusesAgree'
    BY <2>1, <2>2, SettledKept
  <2>4. QuotesAgree'
    BY <2>1 DEF AInv, QuotesAgree
  <2>5. QED
    BY <1>1, <2>3, <2>4 DEF AInv
<1>5. CASE Settle
  BY <1>1, <1>5, DecideAudit, ResultAudit DEF Settle, AInv
<1>6. QED
  BY <1>2, <1>3, <1>4, <1>5 DEF Next, Pay

\* Whoever audits finds what the invariant excludes.
LEMMA AuditPasses ==
    ASSUME AInv
    PROVE  CommerceReconciles
<1>1. /\ order \in OrderRow /\ project \in ProjectRow /\ payments \in [Payment -> PaymentRow]
      /\ order.accepted \in Quote \cup {0}
      /\ called \in BOOLEAN
  BY DEF AInv, CInv, TypeOK
<1>2. MissingEvents = {} /\ EventFindings = {}
  BY DEF MissingEvents, EventFindings, Sessions, AInv, EventsAgree
<1>3. UnpaidActivation = {}
  BY DEF UnpaidActivation, AInv, StatusesAgree
<1>4. MissingCalls = {}
  BY <1>1 DEF MissingCalls, AInv, CInv, CallsFollowPayment, StatusesAgree
<1>5. UnpricedConfirmation = {}
  <2> SUFFICES ASSUME order.status = "confirmed" PROVE order.total # 0 /\ order.accepted # 0
    BY DEF UnpricedConfirmation
  <2>1. project.status = "payment_completed"
    BY DEF AInv, StatusesAgree
  <2>2. PICK p \in Payment : payments[p].status = "confirmed"
    BY <2>1 DEF AInv, CInv, PaidOnce
  <2>3. order.accepted # 0 /\ payments[p].amount = order.total
    BY <2>2 DEF AInv, CInv, PriceIsAgreed
  <2>4. payments[p].amount > 0 /\ payments[p].amount \in Nat
    BY <1>1, <2>2 DEF AInv, CInv, RowsSound
  <2>5. QED
    BY <2>3, <2>4
<1>6. UnacceptedTerms = {}
  BY <1>1 DEF UnacceptedTerms, AInv, QuotesAgree
<1>7. ASSUME order.accepted # 0, \A q \in Quote : quotes[q].accepted => q = order.accepted,
             MultiplePayments = {}
      PROVE  /\ AcceptedQuoteFindings = {} /\ AmountFindings = {}
             /\ ConfirmedFindings = {} /\ FailedFindings = {} /\ UnpaidCalls = {}
  <2>1. ~TwoSessions
    <3> SUFFICES ASSUME NEW p \in Sessions, NEW r \in Sessions, p # r PROVE FALSE
      BY DEF TwoSessions, Sessions
    <3>1. <<p, r>> \in MultiplePayments
      BY DEF MultiplePayments
    <3>2. QED
      BY <1>7, <3>1
  <2>2. order.total = quotes[order.accepted].total /\ order.kind = quotes[order.accepted].kind
    BY <1>7 DEF AInv, CInv, PriceIsAgreed, QuotesAgree
  <2>3. 1..made \subseteq Quote
    BY CheckoutAssumption DEF AInv, CInv, TypeOK
  <2>4. AcceptedQuoteFindings = {}
    BY <1>7, <2>2, <2>3 DEF AcceptedQuoteFindings
  <2>5. AmountFindings = {}
    <3> SUFFICES ASSUME NEW p \in Payment, payments[p].status # "none"
                 PROVE  payments[p].amount # 0 /\ payments[p].amount = order.total
      BY DEF AmountFindings, Sessions
    <3>1. payments[p].amount > 0 /\ payments[p].amount \in Nat
      BY <1>1 DEF AInv, CInv, RowsSound
    <3>2. payments[p].amount = order.total
      BY <1>7, <2>2 DEF AInv, QuotesAgree
    <3>3. QED
      BY <3>1, <3>2
  <2>6. project.status = "payment_completed" => order.status = "confirmed"
    BY <2>1 DEF AInv, StatusesAgree
  <2>7. ConfirmedFindings = {}
    BY <2>6 DEF ConfirmedFindings, AInv, CInv, PaidOnce
  <2>8. FailedFindings = {}
    BY <2>1 DEF FailedFindings, Sessions, AInv, StatusesAgree
  <2>9. UnpaidCalls = {}
    BY <2>6 DEF UnpaidCalls, AInv, CInv, CallsFollowPayment
  <2>10. QED
    BY <2>4, <2>5, <2>7, <2>8, <2>9
<1>8. QED
  BY <1>2, <1>3, <1>4, <1>5, <1>6, <1>7 DEF CommerceReconciles

\* run_commerce_reconciliation: whatever quotes, sessions and results an order
\* goes through, the nightly audit finds its payments, events, terms and
\* consultation in order.
THEOREM CheckoutReconciles == Spec => []CommerceReconciles
<1>1. Init => AInv
  <2> SUFFICES ASSUME Init PROVE AInv
    OBVIOUS
  <2>1. QuotesAgree
    BY DEF Init, QuotesAgree
  <2>2. EventsAgree
    BY DEF Init, EventsAgree
  <2>3. StatusesAgree
    BY DEF Init, StatusesAgree
  <2>4. QED
    BY <2>1, <2>2, <2>3, InitInvariant DEF AInv
<1>2. AInv => CommerceReconciles
  BY AuditPasses
<1>3. QED
  BY <1>1, <1>2, AuditStep, PTL DEF Spec

=============================================================================
