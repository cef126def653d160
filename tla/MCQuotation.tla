----------------------------- MODULE MCQuotation -----------------------------
(* An instance of Quotation for TLC: two currencies, one with cents; a policy *)
(* per engine, a free revision tier, amounts at the bounds of the estimate.   *)
EXTENDS Quotation

CONSTANTS inr, jpy, s1, s2

Weights == [a \in Axis |-> IF a = "importance" THEN 20 ELSE 40]
Unset   == [t \in Tier |-> Null]
Tiered  == [t \in Tier |-> IF t = "0" THEN 0 ELSE 3000]

\* Typed amounts are in thousandths of the major unit.
Weighted(context) ==
    [context |-> context, currency |-> inr, worded |-> TRUE, enabled |-> TRUE,
     base |-> 40, limits |-> TRUE, engine |-> TRUE, weight |-> Weights,
     point |-> 10, min |-> 90, max |-> 120, revision |-> [t \in Tier |-> IF t = "0" THEN 0 ELSE 20]]

Legacy ==
    [context |-> "production", currency |-> jpy, worded |-> TRUE, enabled |-> TRUE,
     base |-> 2000, limits |-> TRUE, engine |-> FALSE, weight |-> Weights,
     point |-> Null, min |-> Null, max |-> Null, revision |-> Tiered]

Disabled == [Legacy EXCEPT !.enabled = FALSE]
Unsound  == [Weighted("production") EXCEPT !.min = 130]

Policies == {Weighted("production"), Legacy, Disabled, Unsound}
Tests    == {[base |-> 6, point |-> 1, min |-> 0, max |-> 9]}

ServiceOf(price, c, code, active) == [price |-> price, currency |-> c, code |-> code, active |-> active]

Services ==
    {ServiceOf(30, inr, "colour", TRUE), ServiceOf(1000, jpy, "colour", TRUE),
     ServiceOf(2000, jpy, Null, TRUE), ServiceOf(1500, jpy, Null, TRUE)}

Plans ==
    {[price |-> [p \in Periods |-> IF p = "yearly" THEN Null ELSE 4000],
      currency |-> jpy, complete |-> TRUE, active |-> TRUE]}

Scores == {[score |-> [a \in Axis |-> IF a = "time" THEN 3 ELSE 4], multiplier |-> 1000],
           [score |-> [a \in Axis |-> 5], multiplier |-> 1500]}

Briefs == {[wants |-> {"colour"}, tier |-> "0"], [wants |-> {"colour", "song"}, tier |-> "5+"]}
=============================================================================
