--------------------------- MODULE PricingPolicies ---------------------------
(***************************************************************************)
(* The pricing policies of Managed Access: what they reserve for token      *)
(* limits, what they take for a usage, and their ids.                       *)
(*                                                                          *)
(* A Decimal is [coef |-> n, exp |-> e], n * 10^e.  The arithmetic of a     *)
(* decimal context with ROUND_CEILING and a precision is modelled by its    *)
(* effect: each operation's exact result is rounded up to as many digits.   *)
(* Emax, Emin and clamp do not bite for rates of ordinary size.             *)
(***************************************************************************)
EXTENDS Integers, FiniteSetsExt

CONSTANTS
    Rates,        \* credits per 1,000 tokens, as Decimals
    TokenCounts,  \* token limits and usages tried
    FlatPrices

DecimalNumber == [coef: Nat, exp: Int]

ASSUME RatesAreDecimals == Rates \subseteq DecimalNumber
ASSUME ZeroIsTried == 0 \in TokenCounts /\ TokenCounts \subseteq Nat
ASSUME FlatPricesArePositive == FlatPrices \subseteq Nat \ {0}

\* base^n
Power(base, n) ==
    LET power[k \in Nat] == IF k = 0 THEN 1 ELSE base * power[k - 1] IN power[n]

TokensPerRateUnitExp == 3  \* TOKENS_PER_RATE_UNIT = 10^3

\* len(as_tuple().digits)
Digits(n) ==
    LET digits[k \in Nat] == IF k < 10 THEN 1 ELSE 1 + digits[k \div 10] IN digits[n]

\* int.bit_length
BitLength(n) ==
    LET bits[k \in Nat] == IF k = 0 THEN 0 ELSE 1 + bits[k \div 2] IN bits[n]

\* _integer_decimal_digits: an estimate by log10(2), lowered when n is short.
IntegerDecimalDigits(n) ==
    LET estimate == (BitLength(n) * 30103) \div 100000 + 1
    IN  IF n < Power(10, estimate - 1) THEN estimate - 1 ELSE estimate

CeilDiv(n, m) == (n + m - 1) \div m

\* The closest Decimal at or above x with at most precision digits.
RoundUp(x, precision) ==
    LET excess == Digits(x.coef) - precision IN
    IF excess <= 0 THEN x
    ELSE [coef |-> CeilDiv(x.coef, Power(10, excess)), exp |-> x.exp + excess]

Multiply(x, n, precision) ==
    RoundUp([coef |-> x.coef * n, exp |-> x.exp], precision)

Add(x, y, precision) ==
    LET e == Min({x.exp, y.exp}) IN
    RoundUp([coef |-> x.coef * Power(10, x.exp - e) + y.coef * Power(10, y.exp - e),
             exp |-> e], precision)

DivideByUnit(x) == [x EXCEPT !.exp = @ - TokensPerRateUnitExp]

ToIntegralCeiling(x) ==
    IF x.exp >= 0 THEN x.coef * Power(10, x.exp) ELSE CeilDiv(x.coef, Power(10, -x.exp))

\* The (rate, tokens) pairs of _price that contribute.
Terms(p, tokens) ==
    {k \in {"input", "output"} : p[k].coef # 0 /\ tokens[k] # 0}

\* Fault: no digit is kept for the carry of the sum.
PrecisionWithoutCarry(p, tokens, terms) ==
    LET lowest == Min({p[k].exp : k \in terms}) IN
    Max({Digits(p[k].coef) + IntegerDecimalDigits(tokens[k])
             + p[k].exp - lowest : k \in terms})

Precision(p, tokens, terms) ==
    LET lowest == Min({p[k].exp : k \in terms}) IN
    2 + Max({Digits(p[k].coef) + IntegerDecimalDigits(tokens[k])
                 + p[k].exp - lowest : k \in terms})

\* TokenPricingPolicy._price.
TokenPrice(p, tokens) ==
    LET terms == Terms(p, tokens) IN
    IF terms = {} THEN 0
    ELSE LET prec == Precision(p, tokens, terms)
             product(k) == Multiply(p[k], tokens[k], prec)
             total == IF terms = {"input", "output"}
                      THEN Add(product("input"), product("output"), prec)
                      ELSE product(CHOOSE k \in terms : TRUE)
         IN  ToIntegralCeiling(DivideByUnit(total))

\* Fault: the rate is taken as it is written.
CanonicalAsWritten(rate) == rate

\* _canonical_decimal: the digits without trailing zeros, and where the
\* point goes; policy_id is a digest of the two texts.
Canonical(rate) ==
    IF rate.coef = 0 THEN [coef |-> 0, exp |-> 0]
    ELSE LET zeros == CHOOSE z \in 0..Digits(rate.coef) :
                          /\ rate.coef % Power(10, z) = 0
                          /\ (rate.coef \div Power(10, z)) % 10 # 0
         IN  [coef |-> rate.coef \div Power(10, zeros), exp |-> rate.exp + zeros]

PolicyId(p) ==
    IF p.kind = "flat" THEN <<"flat", p.credits>>
    ELSE <<"token", Canonical(p.input), Canonical(p.output)>>

\* The constructors refuse a price of zero and two rates of zero.
FlatPolicies == [kind: {"flat"}, credits: FlatPrices]
TokenPolicies ==
    {p \in [kind: {"token"}, input: Rates, output: Rates] :
        p.input.coef # 0 \/ p.output.coef # 0}
Policies == FlatPolicies \cup TokenPolicies

Tokens == [input: TokenCounts, output: TokenCounts]
NoTokens == [input |-> 0, output |-> 0]

QuoteOf(p, max) == IF p.kind = "flat" THEN p.credits ELSE TokenPrice(p, max)
==============================================================================
