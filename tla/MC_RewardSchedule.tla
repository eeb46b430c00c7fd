------------------------- MODULE MC_RewardSchedule --------------------------
(***************************************************************************)
(* StakerReword and RewardCurYear evaluated over every small input: a      *)
(* role, a role count and three times t0 <= t1 <= t2 within the           *)
(* configured total years.  The inputs are the variables; no step changes  *)
(* them.                                                                   *)
(***************************************************************************)
EXTENDS RewardSchedule, Genesis

CONSTANTS RoleNums, Params, UserTime, TotalTime

VARIABLES role, n, t0, t1, t2
vars == <<role, n, t0, t1, t2>>

\* The percentages in force on a chain started from DefaultGenesis: what
\* NewSysParamsState copied into curParams (validatorPerc is not copied).
MCParams == PercParams(NewSysParams(DefaultGenesis))

Horizon == TotalYears * SecondsYear

Init ==
    /\ role \in {"route", "ser", "validator"}
    /\ n \in RoleNums
    /\ t0 \in 0 .. Horizon /\ t1 \in t0 .. Horizon /\ t2 \in t1 .. Horizon
Next == UNCHANGED vars
Spec == Init /\ [][Next]_vars

\* A fresh staker's reward over [s, e].
Once(s, e) == StakerReword(Params, role, n, NoReward, s, e, 0, UserTime, TotalTime)

\* The record UpdateStakerReward leaves after a settlement at e.
After(r, e) == [base |-> r.base, merit |-> r.merit, yield |-> r.yield,
                lastOpr |-> e, lastClaim |-> e]

\* Reward over [t0, t1], stored, then continued to t2.
Split == StakerReword(Params, role, n, After(Once(t0, t1), t1), t0, t2, 0, UserTime, TotalTime)

\* Reference: each tick of [s, e) earns the base rate of its own year.
BaseRate(y) ==
    LET roleTotal == (RewardCurYear(y) * StakePercentage(Params, role)) \div 100
    IN  IF role = "validator" THEN roleTotal \div (n * SecondsYear)
        ELSE ((roleTotal * PercBase(Params, role)) \div 100) \div (n * SecondsYear)
BaseReference(s, e) == MapThenSumSet(LAMBDA t : BaseRate(YearOf(t)), s .. e - 1)

(***************************************************************************)
(* Properties                                                              *)
(***************************************************************************)

\* The base reward StakerReword's year walk computes over [t0, t2] is the
\* sum, tick by tick, of each year's flat per-staker rate: the workSecs
\* slicing of the loop in StakerReword neither loses nor repeats a tick at
\* a year boundary.
BaseMatchesReference == Once(t0, t2).base = BaseReference(t0, t2)

\* Spec section 8: settling the base reward at t1 and continuing from the
\* stored LastOprTime to t2 gives what one settlement over [t0, t2] gives.
BaseAdditive == Split.base = Once(t0, t2).base

\* The same for the merit reward, for a sole miner (all of the role's work
\* time is its own).
MeritAdditive == Split.merit = Once(t0, t2).merit

=============================================================================
