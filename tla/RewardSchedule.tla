--------------------------- MODULE RewardSchedule ---------------------------
(***************************************************************************)
(* The reward arithmetic of src/chain/state.go as pure operators: the      *)
(* yearly emission RewardCurYear, the year-by-year walk of StakerReword    *)
(* and the guard of FoundationReword.  Time is counted in ticks and        *)
(* SecondsYear is the length of a year in ticks.  Every quantity is a      *)
(* uint64 in the code; Word stands for 2^64, and U64 reduces a result the  *)
(* way the machine does where the code can leave the range (a subtraction  *)
(* below zero, or the product of a wrapped interval and a rate).           *)
(* The float64 steps of RewardCurYear are exact rationals here: 0.8^i is   *)
(* 4^i / 5^i.                                                              *)
(***************************************************************************)
EXTENDS Integers, FiniteSetsExt

CONSTANTS
    TotalTokens,       \* curParams.TotalTokens
    MinerPerc,         \* curParams.MinerPerc
    TotalYears,        \* curParams.TotalYears
    RateSustainYears,  \* curParams.RateSustainYears
    ChainCreateTime,   \* curParams.ChainCreateTime
    SecondsYear,       \* SecondsYear, in ticks
    Word               \* 2^64, the range of uint64

ASSUME TotalYears >= RateSustainYears /\ RateSustainYears > 0

U64(x) == x % Word

\* GetChainTokenAmount: the miners' share of the supply.
ChainTokenAmount == (TotalTokens \div 100) * MinerPerc

\* uint64(math.Pow(0.8, float64(i))): 1 for i = 0, truncated to 0 after.
TruncPow8(i) == IF i = 0 THEN 1 ELSE 0

\* RewardCurYear(index): the normaliser sums the truncated powers, then
\* the year's emission is ChainTokenAmount * 0.8^index / total.
RewardCurYear(index) ==
    LET total == MapThenSumSet(TruncPow8, 0 .. (TotalYears \div RateSustainYears) - 1)
    IN  (ChainTokenAmount * 4^index) \div (5^index * total)

\* StakePercentage, and the base and merit splits StakerReword picks.
StakePercentage(P, role) ==
    CASE role = "route" -> P["routePerc"]
      [] role = "ser"   -> P["serPerc"]
      [] role = "validator" -> P["validatorPerc"]
PercBase(P, role) ==
    CASE role = "route" -> P["routeBase"]
      [] role = "ser"   -> P["serBase"]
      [] role = "validator" -> 100
PercMerit(P, role) ==
    CASE role = "route" -> P["routeMerit"]
      [] role = "ser"   -> P["serMerit"]
      [] role = "validator" -> 0

\* The year index of a time: (t - createTime) / SecondsYear.
YearOf(t) == U64(t - ChainCreateTime) \div SecondsYear

\* Mutant: the slice of a year always starts at the start of the year.
WorkSecsFromYearStart(i, start, end) ==
    LET tmpStart == ChainCreateTime + i * SecondsYear
        tmpEnd   == tmpStart + SecondsYear
    IN  U64((IF tmpEnd < end THEN tmpEnd ELSE end) - tmpStart)

\* workSecs of year i within [start, end]: the four branches of the code
\* are the later of the two starts subtracted from the earlier of the two
\* ends, in uint64.
WorkSecs(i, start, end) ==
    LET tmpStart == ChainCreateTime + i * SecondsYear
        tmpEnd   == tmpStart + SecondsYear
    IN  U64((IF tmpEnd < end THEN tmpEnd ELSE end)
            - (IF tmpStart > start THEN tmpStart ELSE start))

\* One pass of the loop body of StakerReword for year i.  acc holds the
\* running base, merit and meritInc; c the call's inputs.
RewardYear(c, i, acc) ==
    LET roleTotalYear == (RewardCurYear(i) * StakePercentage(c.P, c.role)) \div 100
        w    == WorkSecs(i, c.start, c.end)
        rate == (roleTotalYear * PercBase(c.P, c.role)) \div 100
        inc  == U64(acc.inc + (((roleTotalYear * PercMerit(c.P, c.role)) \div 100)
                               \div SecondsYear) * w)
    IN  IF c.role = "validator"
        THEN [acc EXCEPT !.base = U64(@ + (roleTotalYear \div (c.roleNum * SecondsYear)) * w),
                         !.merit = 0]
        ELSE [acc EXCEPT !.base = U64(@ + (rate \div (c.roleNum * SecondsYear)) * w),
                         !.inc = inc,
                         !.merit = IF c.totalTime # 0
                                   THEN U64(@ + (inc * c.userTime) \div c.totalTime)
                                   ELSE @]

\* for i := sYear; i < eYear+1; i++ { ... }
RECURSIVE YearLoop(_, _, _, _)
YearLoop(c, i, last, acc) ==
    IF i > last THEN acc ELSE YearLoop(c, i + 1, last, RewardYear(c, i, acc))

\* The absent RewardMeta.
NoReward == [base |-> 0, merit |-> 0, yield |-> 0, lastOpr |-> -1, lastClaim |-> -1]

\* StakerReword(stakerType, roleNum, address, stakeTime, endTime): the walk
\* starts at the staker's last operation when it has a RewardMeta and
\* carries its totals; the yield share is added once per call.
StakerReword(P, role, roleNum, reward, stakeTime, endTime, yields, userTime, totalTime) ==
    LET start == IF reward = NoReward THEN stakeTime ELSE reward.lastOpr
        c == [P |-> P, role |-> role, roleNum |-> roleNum, start |-> start,
              end |-> endTime, userTime |-> userTime, totalTime |-> totalTime]
        acc == YearLoop(c, YearOf(start), YearOf(endTime),
                        [base |-> reward.base, merit |-> reward.merit, inc |-> 0])
    IN  [base  |-> acc.base,
         merit |-> acc.merit,
         yield |-> U64(reward.yield + ((yields * StakePercentage(P, role)) \div 100) \div roleNum)]

\* FoundationReword succeeds unless endTime precedes the last claim (or the
\* chain's creation), and then returns 0 whatever fReward it computed.
FoundationRewordOK(reward, endTime) ==
    endTime >= IF reward = NoReward THEN ChainCreateTime ELSE reward.lastClaim
FoundationReword(reward, endTime) == 0
=============================================================================
