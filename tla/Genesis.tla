------------------------------ MODULE Genesis ------------------------------
(***************************************************************************)
(* The chain parameters of a genesis (genesis.go) and the curParams that   *)
(* NewSysParamsState (system_params.go) builds from them, which every      *)
(* getter of sysParams reads until a governed change replaces them.  The   *)
(* fee-mechanism fields, the allocations (Load, which sets balances in the *)
(* host's store) and the codec tags are left out.  Addresses are the hex   *)
(* strings of the code.                                                     *)
(***************************************************************************)
EXTENDS Integers

\* DefaultGenesis: its chain parameters.  TotalTokens (2.1 * 10^12) is past
\* TLC's integers; the reward modules take it scaled, as a constant.
DefaultGenesis ==
    [claimMinUnits |-> 100, chainCreateTime |-> 1668125288,
     claimMinInterval |-> 7 * 24 * 60 * 60, totalYears |-> 10, rateSustainYears |-> 1,
     minStakeTime |-> 90 * 24 * 60 * 60, minerPerc |-> 20, foundationPerc |-> 40,
     routePerc |-> 30, serPerc |-> 50, validatorPerc |-> 20,
     baseSerPerc |-> 20, meritSerPerc |-> 80, baseRoutePerc |-> 20, meritRoutePerc |-> 80,
     routeStake |-> 200000000, serStake |-> 100000000,
     monthCard |-> 100, seasonCard |-> 300, annualCard |-> 1200, burnPerc |-> 20,
     rootAddress |-> "0x8db97c7cece249c2b98bdc0226cc4c2a57bf52fc",
     foundationAddr |-> "0x8db97c7cece249c2b98bdc0226cc4c2a57bf52fc"]

\* The genesis fields the composite literal of NewSysParamsState copies.
CopiedFields ==
    {"claimMinUnits", "chainCreateTime", "claimMinInterval", "totalYears",
     "rateSustainYears", "routePerc", "serPerc", "minerPerc", "baseSerPerc", "meritSerPerc",
     "baseRoutePerc", "meritRoutePerc", "routeStake", "serStake", "rootAddress", "burnPerc",
     "monthCard", "seasonCard", "annualCard", "minStakeTime"}
StringFields == {"rootAddress", "foundationAddr"}

\* NewSysParamsState's curParams (the store holds no copy yet): a copied
\* field has the genesis value, any other keeps Go's zero value.
NewSysParams(g) ==
    [f \in DOMAIN g |-> IF f \in CopiedFields THEN g[f]
                        ELSE IF f \in StringFields THEN "" ELSE 0]

\* The getters the reward code reads (GetPercRoute ... GetPercFoundation),
\* under the keys the reward modules use.
PercParams(p) ==
    [routePerc |-> p.routePerc, serPerc |-> p.serPerc, validatorPerc |-> p.validatorPerc,
     routeBase |-> p.baseRoutePerc, routeMerit |-> p.meritRoutePerc,
     serBase |-> p.baseSerPerc, serMerit |-> p.meritSerPerc,
     foundationPerc |-> p.foundationPerc, burnPerc |-> p.burnPerc]

\* The field CompCurParam and ModifyParams read and write for each
\* governed key.
GovernedField ==
    [routePerc |-> "routePerc", serPerc |-> "serPerc", routeBase |-> "baseRoutePerc",
     routeMerit |-> "meritRoutePerc", serBase |-> "baseSerPerc", serMerit |-> "meritSerPerc",
     burn |-> "burnPerc"]

\* The governed percentages in force, by governed key.
GovernedParams(p) == [k \in DOMAIN GovernedField |-> p[GovernedField[k]]]

\* GetFoundationAddress.
GetFoundationAddress(p) == p.foundationAddr
=============================================================================
