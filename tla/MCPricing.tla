------------------------------ MODULE MCPricing ------------------------------
(***************************************************************************)
(* Pricing and SchemaMigration share no variable, so each is run with the   *)
(* other switched off.                                                      *)
(*                                                                          *)
(* Pricing: rates that are zero, written in two ways, a fraction of a       *)
(* credit per thousand tokens, and so large that the last digit of a sum of *)
(* two products is worth whole credits.                                     *)
(*                                                                          *)
(* SchemaMigration: two services, restarted with one of two flat prices or  *)
(* a token price, on a new file or one with up to two requests of V3.0.1.   *)
(***************************************************************************)
EXTENDS Pricing, SchemaMigration, TLC

CONSTANTS none, s1, s2, i1, i2, prompt1, prompt2

MCRate(coef, exp) == [coef |-> coef, exp |-> exp]

MCRates == {MCRate(0, 0), MCRate(1, -1), MCRate(10, -2), MCRate(99, 0),
            MCRate(97, 3), MCRate(99, 3)}

MCConfigurations ==
    {FlatPolicy(1), FlatPolicy(3),
     [kind |-> "token", input |-> MCRate(99, 0), output |-> MCRate(0, 0)]}
MCTokenLimits == {NoTokens, [input |-> 11, output |-> 0]}

MCSymmetry == Permutations({s1, s2}) \cup Permutations({i1, i2})

PricingOff ==
    /\ stage = "off"
    /\ policy = FlatPolicy(1)
    /\ limits = NoTokens /\ reported = NoTokens
    /\ reserved = NoPrice /\ price = NoPrice

MigrationOff ==
    /\ old = << >>
    /\ file = [columns |-> NoTable, rows |-> << >>, usage |-> NoTable]
    /\ working = None /\ writer = None /\ answer = None
    /\ phase = [s \in Services |-> "off"]
    /\ configured = [s \in Services |-> None]
    /\ busy = [s \in Services |-> None]

MCInit ==
    \/ PricingInit /\ MigrationOff
    \/ MigrationInit /\ PricingOff

MCNext ==
    \/ PricingNext /\ UNCHANGED migrationVars
    \/ MigrationNext /\ UNCHANGED pricingVars

MCSpec == MCInit /\ [][MCNext]_<<pricingVars, migrationVars>>
=============================================================================
