------------------------------- MODULE Pricing -------------------------------
(***************************************************************************)
(* The order in which invoke uses a pricing policy: reserve_credits before  *)
(* the provider is called, price_usage on the usage it reports.             *)
(***************************************************************************)
EXTENDS PricingPolicies

CONSTANT Scale  \* digits after the point that the properties need

ASSUME ScaleHoldsRates == Scale \in Nat /\ \A r \in Rates : r.exp + Scale >= 0

VARIABLES
    policy,    \* what the service was configured with
    limits,    \* the token limits of the PricingContext
    reserved,  \* reserve_credits, NoPrice before or when it raises
    reported,  \* the usage the provider reported
    price,     \* price_usage, NoPrice before or when it raises
    stage

pricingVars == <<policy, limits, reserved, reported, price, stage>>

NoPrice == -1

PricingInit ==
    /\ policy \in Policies
    /\ limits = NoTokens
    /\ reserved = NoPrice
    /\ reported = NoTokens
    /\ price = NoPrice
    /\ stage = "idle"

\* reserve_credits for a request with these limits.
Quote(max) ==
    /\ stage = "idle"
    /\ limits' = max
    /\ QuoteOf(policy, max) > 0
    /\ reserved' = QuoteOf(policy, max)
    /\ stage' = "reserved"
    /\ UNCHANGED <<policy, reported, price>>

\* InvalidPricingContextError: the limits would reserve nothing.
QuoteRaises(max) ==
    /\ stage = "idle"
    /\ QuoteOf(policy, max) <= 0
    /\ limits' = max
    /\ stage' = "refused"
    /\ UNCHANGED <<policy, reserved, reported, price>>

\* Fault: the output limit is not enforced.
BillableAnyOutput(u, sameModel) ==
    /\ u # NoTokens
    /\ sameModel
    /\ u.input <= limits.input

\* What token pricing asks of the usage, NoTokens being a missing record:
\* some tokens, the context's provider and model, and its limits.
Billable(u, sameModel) ==
    /\ u # NoTokens
    /\ sameModel
    /\ u.input <= limits.input
    /\ u.output <= limits.output

PriceUsage(u, sameModel) ==
    /\ stage = "reserved"
    /\ policy.kind = "token" => Billable(u, sameModel)
    /\ reported' = u
    /\ price' = IF policy.kind = "flat" THEN reserved ELSE TokenPrice(policy, u)
    /\ stage' = "priced"
    /\ UNCHANGED <<policy, limits, reserved>>

\* InvalidUsageError, which makes the request FINALIZATION_FAILED.
PriceUsageRaises(u, sameModel) ==
    /\ stage = "reserved"
    /\ policy.kind = "token"
    /\ ~Billable(u, sameModel)
    /\ reported' = u
    /\ stage' = "rejected"
    /\ UNCHANGED <<policy, limits, reserved, price>>

NextRequest ==
    /\ stage \in {"refused", "priced", "rejected"}
    /\ limits' = NoTokens
    /\ reserved' = NoPrice
    /\ reported' = NoTokens
    /\ price' = NoPrice
    /\ stage' = "idle"
    /\ UNCHANGED policy

PricingNext ==
    \/ \E t \in Tokens :
         \/ Quote(t) \/ QuoteRaises(t)
         \/ \E sameModel \in BOOLEAN :
              PriceUsage(t, sameModel) \/ PriceUsageRaises(t, sameModel)
    \/ NextRequest

PricingSpec == PricingInit /\ [][PricingNext]_pricingVars
-----------------------------------------------------------------------------
\* The value of rate_in * in + rate_out * out, in units of 10^-Scale credits
\* per 1,000 tokens.
ExactValue(p, t) ==
    p.input.coef * Power(10, p.input.exp + Scale) * t.input
    + p.output.coef * Power(10, p.output.exp + Scale) * t.output

\* n is the exact cost rounded up to whole credits, once.
IsCeilingOf(n, p, t) ==
    LET unit == Power(10, Scale + TokensPerRateUnitExp) IN
    /\ n * unit >= ExactValue(p, t)
    /\ (n - 1) * unit < ExactValue(p, t)

\* The decimal context is always wide enough: a quote and a price are the
\* exact cost rounded up once, never the rounding of a rounded product.
PricesAreExact ==
    policy.kind = "token" =>
        /\ stage = "reserved" => IsCeilingOf(reserved, policy, limits)
        /\ stage = "priced" => IsCeilingOf(price, policy, reported)

\* Usage within the limits never costs more than was reserved for them, so
\* that a finalization is never refused because of the price.
ActualWithinReservation ==
    stage = "priced" => price \in 0..reserved

\* Two policies have the same id exactly when they charge the same rates,
\* however those are written (0.1 or 0.10): the id tells a retry under
\* another price from a retry under the same one.
SameRate(x, y) == x.coef * Power(10, x.exp + Scale) = y.coef * Power(10, y.exp + Scale)
PolicyIdIdentifiesRates ==
    policy.kind = "token" =>
        \A p \in TokenPolicies :
            (PolicyId(p) = PolicyId(policy) <=>
                 /\ SameRate(p.input, policy.input)
                 /\ SameRate(p.output, policy.output))
=============================================================================
