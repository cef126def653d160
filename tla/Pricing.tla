------------------------------- MODULE Pricing -------------------------------
(* What an administrator may put in the catalogue and what it costs:          *)
(* core/money.py, the forms of core/commerce_forms.py and the arithmetic of   *)
(* core/commerce.py, as operators over catalogue rows.                        *)
(*                                                                            *)
(* A row holds whole minor units.  A form holds what was typed, in            *)
(* thousandths of the major unit, so that an amount with too many decimals    *)
(* can be typed.  Multipliers are in thousandths too.                         *)
(*                                                                            *)
(* Operators whose comment starts with "Mutant" restate the definition below  *)
(* them with a plausible bug; nothing uses them.                              *)
EXTENDS Integers, FiniteSets, FiniteSetsExt

CONSTANTS
    Currency,
    WholeUnits,   \* currencies without a minor unit
    Service,      \* custom services
    Feature,      \* the features quotations are scored by
    Mappable,     \* those a custom service may be mapped to by its code
    Tier,         \* how many revisions a brief asks for
    MaxPrice,     \* largest amount in minor units
    Null          \* no value, no currency, no row

ASSUME PricingAssumption ==
    /\ WholeUnits \subseteq Currency
    /\ Mappable \subseteq Feature
    /\ MaxPrice \in Nat \ {0}
    /\ Null \notin Currency \cup Feature \cup Int

Axis     == {"time", "importance", "complexity"}
Contexts == {"unconfigured", "test", "production"}
Periods  == {"per_reel", "monthly", "yearly"}

MinorAmount == Nat \cup {Null}   \* in a row
Entered     == Int \cup {Null}   \* in a form

MaxMultiplier == 100 * 1000

\* Rows and forms have the same fields, and A in the places of amounts.
ServiceRow(A) == [price : A, currency : Currency \cup {Null}, code : Mappable \cup {Null},
                  active : BOOLEAN]
PlanRow(A)    == [price : [Periods -> A], currency : Currency \cup {Null},
                  complete : BOOLEAN, active : BOOLEAN]
FeatureRow    == [score : [Axis -> 1..5], multiplier : 1..MaxMultiplier]
\* worded: the four terms texts; limits: revisions, hours, seconds and priority.
PolicyRow(A)  == [context : Contexts, currency : Currency \cup {Null}, worded : BOOLEAN,
                  enabled : BOOLEAN, base : A, limits : BOOLEAN, engine : BOOLEAN,
                  weight : [Axis -> 0..100], point : A, min : A, max : A,
                  revision : [Tier -> A]]

TotalOf(items) == MapThenSumSet(LAMBDA item : item.amount, items)

-----------------------------------------------------------------------------
(* Money *)

\* Thousandths of the major unit in one minor unit.
Quantum(c) == IF c \in WholeUnits THEN 1000 ELSE 10

\* Mutant: every currency has two decimals.
MinorToMajorTwoDecimals(m, c) == IF m = Null THEN Null ELSE m * 10

MinorToMajor(m, c) == IF m = Null THEN Null ELSE m * Quantum(c)

\* major_to_minor raises an error for an amount it cannot represent.
Representable(a, c) == a % Quantum(c) = 0

MajorToMinor(a, c) == IF a = Null THEN Null ELSE a \div Quantum(c)

\* A form opens a row in major units and saves it in minor ones.
Convert(a, c, to) == IF to = "minor" THEN MajorToMinor(a, c) ELSE MinorToMajor(a, c)

-----------------------------------------------------------------------------
(* Forms *)

\* What MajorUnitPriceFormMixin.clean refuses in a typed amount.
Typed(a, c) ==
    a # Null => /\ c # Null
                /\ a >= 0
                /\ Representable(a, c)
                /\ MajorToMinor(a, c) <= MaxPrice

\* The same for a stored one, values_are_minor.
Stored(m, c) == m # Null => c # Null /\ m \in 0..MaxPrice

Positive(m) == m # Null /\ m > 0

\* CatalogForm.clean
ServiceRules(row) == row.active => Positive(row.price) /\ row.currency # Null

\* PlanForm.clean; complete: limits, hours, seconds, priority and features.
PlanRules(row) ==
    /\ row.active => Positive(row.price["per_reel"]) /\ row.currency # Null /\ row.complete
    /\ \A period \in {"monthly", "yearly"} : row.price[period] # Null =>
          Positive(row.price[period]) /\ row.currency # Null

RevisionPrices(row) == {row.revision[t] : t \in Tier}

\* PolicyForm.clean
PolicyRules(row) ==
    /\ row.enabled => row.context # "unconfigured" /\ row.currency # Null /\ row.worded
    /\ row.base # Null => row.base > 0 /\ row.limits
    /\ MapThenSumSet(LAMBDA a : row.weight[a], Axis) = 100
    /\ row.engine => /\ row.base # Null /\ Positive(row.point)
                     /\ row.min # Null /\ Positive(row.max) /\ row.min <= row.max
    /\ Null \in RevisionPrices(row) => RevisionPrices(row) = {Null}

\* The amounts of a row, and the row in other units.
ServiceAmounts(row) == {row.price}
PlanAmounts(row)    == {row.price[period] : period \in Periods}
PolicyAmounts(row)  == {row.base, row.point, row.min, row.max} \cup RevisionPrices(row)

ConvertService(row, to) == [row EXCEPT !.price = Convert(@, row.currency, to)]

ConvertPlan(row, to) ==
    [row EXCEPT !.price = [period \in Periods |-> Convert(row.price[period], row.currency, to)]]

ConvertPolicy(row, to) ==
    [row EXCEPT !.base = Convert(@, row.currency, to), !.point = Convert(@, row.currency, to),
                !.min = Convert(@, row.currency, to), !.max = Convert(@, row.currency, to),
                !.revision = [t \in Tier |-> Convert(row.revision[t], row.currency, to)]]

\* A form saves the row it converts to when every amount and the row are valid.
ServiceSaves(form, row) ==
    /\ \A a \in ServiceAmounts(form) : Typed(a, form.currency)
    /\ row = ConvertService(form, "minor")
    /\ ServiceRules(row)

PlanSaves(form, row) ==
    /\ \A a \in PlanAmounts(form) : Typed(a, form.currency)
    /\ row = ConvertPlan(form, "minor")
    /\ PlanRules(row)

PolicySaves(form, row) ==
    /\ \A a \in PolicyAmounts(form) : Typed(a, form.currency)
    /\ row = ConvertPolicy(form, "minor")
    /\ PolicyRules(row)

-----------------------------------------------------------------------------
(* What may be sold: stored rows go through their form again *)

ServiceOffered(row, c) ==
    /\ row.active /\ row.currency = c
    /\ \A m \in ServiceAmounts(row) : Stored(m, row.currency)
    /\ ServiceRules(row)

PlanOffered(row, c) ==
    /\ row.active /\ row.currency = c
    /\ \A m \in PlanAmounts(row) : Stored(m, row.currency)
    /\ PlanRules(row)

\* check_policy; testing: DEBUG with a test payment gateway.
PolicyReady(row, testing) ==
    /\ row # Null
    /\ row.enabled
    /\ row.context = "test" => testing
    /\ row.context # "unconfigured"
    /\ \A m \in PolicyAmounts(row) : Stored(m, row.currency)
    /\ PolicyRules(row)

-----------------------------------------------------------------------------
(* Estimates *)

\* Mutant: a free tier becomes an item of nothing.
RevisionItemsFree(row, tier) ==
    IF row.revision[tier] = Null THEN {} ELSE {[id |-> tier, amount |-> row.revision[tier]]}

\* A free tier is shown but is no item.
RevisionItems(row, tier) ==
    IF row.revision[tier] \in {Null, 0} THEN {} ELSE {[id |-> tier, amount |-> row.revision[tier]]}

\* ROUND_HALF_UP
HalfUp(n, d) == (2 * n + d) \div (2 * d)

Contribution(row, feature) ==
    HalfUp(MapThenSumSet(LAMBDA a : feature.score[a] * row.weight[a], Axis)
               * feature.multiplier * row.point,
           100 * 1000)

Clamp(x, low, high) == Max({low, Min({x, high})})

WeightedItems(row, features, brief) ==
    LET raw == row.base + MapThenSumSet(LAMBDA f : Contribution(row, features[f]), brief.wants)
    IN {[id |-> "weighted-estimate", amount |-> Clamp(raw, row.min, row.max)]}
          \cup RevisionItems(row, brief.tier)

\* The services the saved choices are mapped to.
Required(services, brief) == {s \in Service : services[s] # Null /\ services[s].code \in brief.wants}

Mapped(services, brief) ==
    \A f \in brief.wants \cap Mappable : \E s \in Service : services[s] # Null /\ services[s].code = f

LegacyItems(row, services, brief) ==
    {[id |-> "base", amount |-> row.base]}
       \cup {[id |-> s, amount |-> services[s].price] : s \in Required(services, brief)}
       \cup RevisionItems(row, brief.tier)

\* custom_estimate_result: the catalogue prices this brief.
Estimable(row, services, brief, testing) ==
    /\ PolicyReady(row, testing)
    /\ row.base # Null
    /\ ~row.engine => /\ Mapped(services, brief)
                      /\ \A s \in Required(services, brief) : ServiceOffered(services[s], row.currency)

\* saved_custom_estimate_snapshot
Estimate(row, services, features, brief) ==
    LET items == IF row.engine THEN WeightedItems(row, features, brief)
                 ELSE LegacyItems(row, services, brief)
    IN [weighted |-> row.engine, items |-> items, total |-> TotalOf(items),
        currency |-> row.currency, context |-> row.context, inputs |-> brief]

Chargeable(total) == total \in 1..MaxPrice

\* _validated_saved_weighted_estimate
Reusable(estimate) ==
    /\ estimate # Null
    /\ estimate.weighted
    /\ estimate.items # {} /\ \A item \in estimate.items : item.amount > 0
    /\ estimate.total > 0 /\ TotalOf(estimate.items) = estimate.total
    /\ estimate.context \in {"test", "production"}

=============================================================================
