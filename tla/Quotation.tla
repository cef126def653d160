----------------------------- MODULE Quotation -----------------------------
(* From the administrator's catalogue to the quote a client agrees to: the    *)
(* catalogue forms and configure_test_quotation, the brief form of            *)
(* core/views.py, and create_quote and accept_quote of core/commerce.py, for  *)
(* one order that waits for its payment.  Its checkout sessions are in        *)
(* Checkout; here a catalogue that keeps changing is what may go wrong.       *)
(*                                                                            *)
(* Every handler locks the rows it prices by, so each is one action.          *)
EXTENDS Pricing

CONSTANTS
    PolicyForms, ServiceForms, PlanForms,   \* what an administrator may type
    FeatureForms,
    TestPrices,      \* arguments of configure_test_quotation
    TestCurrency,
    DefaultTier,     \* Project.revisions_needed when the form leaves it out
    Brief,           \* custom briefs: the features wanted and the tier
    MaxEdits,        \* bound on catalogue edits and redeployments
    MaxQuotes        \* bound on quotes of the order

QuoteId == 1..MaxQuotes
NoBrief == [wants |-> {}, tier |-> DefaultTier]

\* Item ids are primary keys, or words and "revisions:<tier>".
ASSUME QuotationAssumption ==
    /\ IsFiniteSet(Service) /\ IsFiniteSet(Feature)
    /\ Service \cap (Tier \cup {"base", "weighted-estimate"}) = {}
    /\ Tier \cap {"base", "weighted-estimate"} = {}
    /\ PolicyForms \subseteq PolicyRow(Entered)
    /\ ServiceForms \subseteq ServiceRow(Entered)
    /\ PlanForms \subseteq PlanRow(Entered)
    /\ FeatureForms \subseteq FeatureRow
    /\ TestPrices \subseteq [base : MinorAmount, point : MinorAmount,
                             min : MinorAmount, max : MinorAmount]
    /\ Brief \subseteq [wants : SUBSET Feature, tier : Tier]
    /\ TestCurrency \in Currency /\ DefaultTier \in Tier
    /\ MaxEdits \in Nat /\ MaxQuotes \in Nat

VARIABLES
    commercePolicy,   \* the commerce_policy row
    services,         \* custom_services
    plan,             \* the plan of the one slot that is modelled
    features,         \* quotation_features
    testing,          \* the server runs with DEBUG and a test payment gateway
    brief,            \* the saved customisation, NoBrief for a plan order
    estimate,         \* projects.quotation_snapshot
    quotes,           \* order_quotes
    made,             \* the number of quotes so far, hence the id of the latest
    accepted,         \* the quote the order's terms are a copy of, 0 if none
    edits

catalogue     == <<commercePolicy, services, plan, features>>
order         == <<brief, estimate, quotes, made, accepted>>
quotationVars == <<catalogue, testing, order, edits>>

Ids      == {"base", "weighted-estimate", "plan"} \cup Service \cup Tier
Item     == [id : Ids, amount : Nat]
Snapshot == [weighted : BOOLEAN, items : SUBSET Item, total : Nat,
             currency : Currency, context : Contexts,
             inputs : [wants : SUBSET Feature, tier : Tier]]
Quote    == [kind : {"plan", "custom"}, items : SUBSET Item, total : Nat,
             currency : Currency, context : Contexts,
             inputs : [wants : SUBSET Feature, tier : Tier]]

QuotationTypeOK ==
    /\ commercePolicy \in PolicyRow(MinorAmount) \cup {Null}
    /\ \A s \in Service : services[s] = Null \/ services[s] \in ServiceRow(MinorAmount)
    /\ plan \in PlanRow(MinorAmount) \cup {Null}
    /\ features \in [Feature -> FeatureRow]
    /\ testing \in BOOLEAN
    /\ brief \in Brief \cup {NoBrief}
    /\ estimate \in Snapshot \cup {Null}
    /\ made \in 0..MaxQuotes
    /\ \A q \in 1..made : quotes[q] \in Quote
    /\ accepted \in 0..made
    /\ edits \in 0..MaxEdits

-----------------------------------------------------------------------------
(* The administrator *)

Edit == edits < MaxEdits /\ edits' = edits + 1

\* catalog_edit, one action per kind that quotes read.  An older form page may
\* be sent at any time.
SaveCommercePolicy(form) ==
    /\ Edit
    /\ PolicySaves(form, ConvertPolicy(form, "minor"))
    /\ commercePolicy' = ConvertPolicy(form, "minor")
    /\ UNCHANGED <<services, plan, features, testing, order>>

SaveService(s, form) ==
    /\ Edit
    /\ ServiceSaves(form, ConvertService(form, "minor"))
    /\ form.code # Null =>
          \A t \in Service \ {s} : services[t] # Null => services[t].code # form.code
    /\ services' = [services EXCEPT ![s] = ConvertService(form, "minor")]
    /\ UNCHANGED <<commercePolicy, plan, features, testing, order>>

SavePlan(form) ==
    /\ Edit
    /\ PlanSaves(form, ConvertPlan(form, "minor"))
    /\ plan' = ConvertPlan(form, "minor")
    /\ UNCHANGED <<commercePolicy, services, features, testing, order>>

SaveFeature(f, form) ==
    /\ Edit
    /\ features' = [features EXCEPT ![f] = form]
    /\ UNCHANGED <<commercePolicy, services, plan, testing, order>>

TestPolicy(p) ==
    [context |-> "test", currency |-> TestCurrency, worded |-> TRUE, enabled |-> TRUE,
     base |-> p.base, limits |-> TRUE, engine |-> TRUE,
     weight |-> [a \in Axis |-> IF a = "importance" THEN 20 ELSE 40],
     point |-> p.point, min |-> p.min, max |-> p.max, revision |-> [t \in Tier |-> Null]]

ConfigureTestQuotation(prices) ==
    /\ Edit
    /\ testing
    /\ \A m \in PolicyAmounts(TestPolicy(prices)) : Stored(m, TestCurrency)
    /\ PolicyRules(TestPolicy(prices))
    /\ commercePolicy' = TestPolicy(prices)
    /\ UNCHANGED <<services, plan, features, testing, order>>

\* The server restarts with other settings.
Redeploy ==
    /\ Edit
    /\ testing' = ~testing
    /\ UNCHANGED <<catalogue, order>>

-----------------------------------------------------------------------------
(* Quotes *)

NewQuote(quote) ==
    /\ made < MaxQuotes
    /\ Chargeable(quote.total)
    /\ made' = made + 1
    /\ quotes' = [quotes EXCEPT ![made + 1] = quote]

PlanQuote(period) ==
    /\ PolicyReady(commercePolicy, testing)
    /\ plan # Null
    /\ PlanOffered(plan, commercePolicy.currency)
    /\ Positive(plan.price[period])
    /\ NewQuote([kind |-> "plan", items |-> {[id |-> "plan", amount |-> plan.price[period]]},
                 total |-> plan.price[period], currency |-> commercePolicy.currency,
                 context |-> commercePolicy.context, inputs |-> brief])

\* Mutant: the saved estimate is only used while its currency is the policy's.
BasisRecomputed(e, b) ==
    IF Reusable(e) /\ e.currency = commercePolicy.currency THEN {e}
    ELSE IF Estimable(commercePolicy, services, b, testing)
    THEN {Estimate(commercePolicy, services, features, b)} ELSE {}

\* What a custom quote starts from, as a set of at most one: the estimate saved
\* with the brief if a weighted one, or one made now.
Basis(e, b) ==
    IF Reusable(e) THEN {e}
    ELSE IF Estimable(commercePolicy, services, b, testing)
         /\ Chargeable(Estimate(commercePolicy, services, features, b).total)
    THEN {Estimate(commercePolicy, services, features, b)} ELSE {}

\* A service the estimate already contains is not an extra.
Extras(basis, ids) ==
    IF basis.weighted THEN ids ELSE ids \ Required(services, basis.inputs)

Offered(s, c) == ServiceOffered(services[s], c)

\* create_quote for a custom order whose project has estimate e and brief b.
CustomQuote(e, b, ids) ==
    /\ PolicyReady(commercePolicy, testing)
    /\ \E basis \in Basis(e, b) :
          LET extras == Extras(basis, ids)
          IN /\ \A s \in extras : Offered(s, basis.currency)
             /\ NewQuote([kind |-> "custom",
                          items |-> basis.items \cup
                                       {[id |-> s, amount |-> services[s].price] : s \in extras},
                          total |-> basis.total
                                       + MapThenSumSet(LAMBDA s : services[s].price, extras),
                          currency |-> basis.currency, context |-> basis.context,
                          inputs |-> b])

\* The client's quote page.  Its lists of plans and services are read before
\* create_quote locks, so any existing service may be asked for.
CreatePlanQuote(period) ==
    /\ PlanQuote(period)
    /\ UNCHANGED <<catalogue, testing, brief, estimate, accepted, edits>>

CreateCustomQuote(ids) ==
    /\ \A s \in ids : services[s] # Null
    /\ CustomQuote(estimate, brief, ids)
    /\ UNCHANGED <<catalogue, testing, brief, estimate, accepted, edits>>

\* _project_form with the custom choice: the estimate is saved if the catalogue
\* can make one, and then quoted in the same transaction; otherwise the brief
\* is saved without.
SaveCustomBrief(b) ==
    LET priced == /\ Estimable(commercePolicy, services, b, testing)
                  /\ Chargeable(Estimate(commercePolicy, services, features, b).total)
        saved  == Estimate(commercePolicy, services, features, b)
    IN /\ brief' = b
       /\ accepted' = 0
       /\ IF priced
          THEN estimate' = saved /\ CustomQuote(saved, b, {})
          ELSE estimate' = Null /\ UNCHANGED <<quotes, made>>
       /\ UNCHANGED <<catalogue, testing, edits>>

\* _project_form with a plan; its quote is made and accepted in transactions of
\* their own, CreatePlanQuote and AcceptQuote.
SavePlanBrief ==
    /\ plan # Null
    /\ plan.active /\ Positive(plan.price["per_reel"])
    /\ brief' = NoBrief
    /\ estimate' = Null
    /\ accepted' = 0
    /\ UNCHANGED <<catalogue, testing, quotes, made, edits>>

\* A quote is honoured as quoted, whatever the catalogue says now.
AcceptQuote(q) ==
    /\ q = made
    /\ accepted # q
    /\ quotes[q].context = "test" => testing
    /\ accepted' = q
    /\ UNCHANGED <<catalogue, testing, brief, estimate, quotes, made, edits>>

-----------------------------------------------------------------------------

QuotationInit ==
    /\ commercePolicy = Null
    /\ services = [s \in Service |-> Null]
    /\ plan = Null
    /\ features \in [Feature -> FeatureForms]
    /\ testing \in BOOLEAN
    /\ brief = NoBrief
    /\ estimate = Null
    /\ quotes = [q \in QuoteId |-> Null]
    /\ made = 0
    /\ accepted = 0
    /\ edits = 0

Administer ==
    \/ \E form \in PolicyForms : SaveCommercePolicy(form)
    \/ \E s \in Service, form \in ServiceForms : SaveService(s, form)
    \/ \E form \in PlanForms : SavePlan(form)
    \/ \E f \in Feature, form \in FeatureForms : SaveFeature(f, form)
    \/ \E prices \in TestPrices : ConfigureTestQuotation(prices)
    \/ Redeploy

Order ==
    \/ \E b \in Brief : SaveCustomBrief(b)
    \/ SavePlanBrief
    \/ \E period \in Periods : CreatePlanQuote(period)
    \/ \E ids \in SUBSET Service : CreateCustomQuote(ids)
    \/ \E q \in QuoteId : AcceptQuote(q)

QuotationNext == Administer \/ Order

QuotationSpec == QuotationInit /\ [][QuotationNext]_quotationVars

-----------------------------------------------------------------------------
(* Properties *)

SumsUp(priced) ==
    /\ priced.items # {}
    /\ \A item \in priced.items : item.amount > 0
    /\ \A item, other \in priced.items : item.id = other.id => item = other
    /\ TotalOf(priced.items) = priced.total
    /\ Chargeable(priced.total)

\* Every saved estimate and every quote is a list of distinct positive items
\* that add up to the total asked (malformed_quote_snapshots of
\* commerce_reconciliation.py), whichever engine made it, whichever services
\* were added and however the catalogue changed in between.
QuotesAddUp ==
    /\ estimate # Null => SumsUp(estimate)
    /\ \A q \in 1..made : SumsUp(quotes[q])

\* DECISIONS 2026-10-06: later score, weight and price changes do not rewrite a
\* submitted estimate.  A custom quote made while a weighted estimate is saved
\* contains all of it, in its currency and context; what else it contains is
\* services sold in the quote's currency at their price of the day.
EstimateIsHonoured ==
    [][made' # made /\ quotes'[made'].kind = "custom" =>
          LET quote == quotes'[made']
          IN /\ estimate' # Null /\ estimate'.weighted =>
                   /\ estimate'.items \subseteq quote.items
                   /\ \A item \in quote.items \ estimate'.items : item.id \in Service
                   /\ quote.currency = estimate'.currency
                   /\ quote.context = estimate'.context
             /\ \A item \in quote.items : item.id \in Service =>
                   /\ services[item.id].active
                   /\ services[item.id].currency = quote.currency
                   /\ services[item.id].price = item.amount]_quotationVars

\* PHASE_3: existing stored values are converted back to major units when
\* edited.  Opening a row in its form and saving it unchanged is accepted and
\* changes nothing, in every currency; and what could be published passes the
\* same rules again, in minor units, when a quote reads it.
StoredPricesAreStable ==
    /\ \A s \in Service : services[s] # Null =>
          /\ ServiceSaves(ConvertService(services[s], "major"), services[s])
          /\ services[s].active => ServiceOffered(services[s], services[s].currency)
    /\ plan # Null =>
          /\ PlanSaves(ConvertPlan(plan, "major"), plan)
          /\ plan.active => PlanOffered(plan, plan.currency)
    /\ commercePolicy # Null =>
          /\ PolicySaves(ConvertPolicy(commercePolicy, "major"), commercePolicy)
          /\ commercePolicy.enabled => PolicyReady(commercePolicy, TRUE)

-----------------------------------------------------------------------------
(* What documents say, and the code does not keep *)

\* PHASE_3: saving a revised brief "creates a new immutable quote from the
\* revised inputs".  When the catalogue cannot price the revised brief, the
\* quote of the old one remains the latest and can be accepted.
AgreementIsForTheBrief ==
    accepted # 0 /\ quotes[accepted].kind = "custom" => quotes[accepted].inputs = brief

\* DECISIONS 2026-10-09: test quotations "cannot be generated or accepted
\* outside DEBUG with a test payment gateway".  A saved test estimate is quoted
\* after the policy became a production one.
TestQuotesOnlyWhereTesting ==
    [][made' # made /\ quotes'[made'].context = "test" => testing]_quotationVars

=============================================================================
