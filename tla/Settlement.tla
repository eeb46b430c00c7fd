----------------------------- MODULE Settlement -----------------------------
(***************************************************************************)
(* Reward settlement of src/chain: the staker registry (stake_status.go),  *)
(* the reward ledger and its global checkpoint (reward_status.go), the     *)
(* yield pool (yields_status.go), proof metering (pow_status.go) and the  *)
(* subscriber registry (users_status.go), driven by Stake, UnStake, Claim, *)
(* Proof and AddUser and by the host's Commit or Abort.  The reward        *)
(* arithmetic is RewardSchedule's.                                         *)
(*                                                                         *)
(* Admission to staking is the business of the Governance module: here     *)
(* any address that is not a staker may stake.  The system parameters are  *)
(* fixed (Params), and so is the catalogue of user types (UserTypes: the   *)
(* committed curUserTypes after their Govern).  Balances live in the host's store (ModifyBalance is not *)
(* part of src/chain); the reward part of every credit is kept in paid.    *)
(***************************************************************************)
EXTENDS Integers, FiniteSets, StagedMap, RewardSchedule

CONSTANTS
    Addr,          \* the addresses that sign transactions
    Foundation,    \* GetFoundationAddress()
    StakeRoles,    \* the roles a Stake may name
    StakeAddrs,    \* the addresses a Stake may name
    Params,        \* curParams: percentage key -> value
    WorkOf,        \* staker address -> the address of its work key
    WorkTimes,     \* EndTime - StartTime a Proof may carry (minTime..maxTime)
    Week,          \* Seconds7Day, in ticks
    MinStakeTime,  \* GetMinStakeTime(), in ticks
    EffectiveSecs, \* EffectiveSecs of unstake_tx.go, in ticks
    MaxTime,       \* bound on the wall clock
    MaxWork,       \* bound on the work time metered for one miner
    MaxTxs,        \* bound on the transactions of one block
    Subscribers,   \* AddUserTx.Address values (never the zero address)
    UserTypes,     \* curUserTypes: type id -> FeeUnits
    PayAmounts,    \* AddUserTx.PayAmount values
    Durations      \* EndTime - StartTime of an AddUserTx, in days

Roles == {"route", "ser", "validator"}
MonthDays == 30
PowRoles == {"route", "ser"}

VARIABLES
    stakers,   \* role -> staged map address -> [time]
    rewards,   \* staged map address -> [base, merit, yield, lastOpr, lastClaim]
    global,    \* RewardGlobal.LastOprTime: [cur, pend, db]
    yields,    \* [cur, pend] of YieldMeta: [total, undist]
    pow,       \* role -> staged map miner -> TotalTime
    now,       \* time.Now() of the executing node
    blkTime,   \* t.BlockTime of the block being executed
    ntx,       \* transactions executed in the current block
    paid,      \* history: address -> [base, merit] credited by Claim and UnStake
    paidTo,    \* history: address -> the time its accrual restarts from
    paidAt,    \* history: <<paid, paidTo>> as of the last committed block
    work,      \* history: [cur, blk] miner -> work time of its proofs
    users,     \* staged map address -> [type, amount]; db is the store
    sold       \* history: [cur, blk] address -> AddUser transactions for it

vars == <<stakers, rewards, global, yields, pow, now, blkTime, ntx, paid, paidTo, paidAt, work,
          users, sold>>

-----------------------------------------------------------------------------
(* Reads                                                                    *)

\* GetStakersNum / StakersNum(stakerType).
StakersNum(r) == Cardinality(DOMAIN stakers[r].cur)
IsStaker(a) == \E r \in Roles : Has(stakers[r], a)

\* GetStakerMeta: the current record of a staker of role r.
GetStakerMeta(r, a) == stakers[r].cur[a]

\* GetRewardMeta: the current record, or none.
RewardOf(a) == IF Has(rewards, a) THEN rewards.cur[a] ELSE NoReward

\* GetLastClaimTime: 0 when there is no record.
LastClaimTime(a) == IF Has(rewards, a) THEN rewards.cur[a].lastClaim ELSE 0

\* GetLastUpdateTime: the later of the pending and current checkpoints.
LastUpdateTime == IF global.pend > global.cur THEN global.pend ELSE global.cur

\* GetPowMeta: GetCurPow has no map for a validator, so nothing is found.
GetPowMeta(r, a) == r \in PowRoles /\ Has(pow[r], a)

\* TotalPowTime: the sum over the current map of the pow type.
TotalPowTime(r) ==
    IF r \in PowRoles THEN MapThenSumSet(LAMBDA m : pow[r].cur[m], DOMAIN pow[r].cur) ELSE 0

\* StakePowMinutes and ChainTotalPowMinutes.
StakePowMinutes(r, a) == IF GetPowMeta(r, a) THEN pow[r].cur[a] ELSE 0
ChainTotalPowMinutes(r) == TotalPowTime(r)

\* StakerReword for staker a of role r with the current ledger's inputs.
Reword(r, a, stakeTime, endTime) ==
    StakerReword(Params, r, StakersNum(r), RewardOf(a), stakeTime, endTime,
                 yields.cur.total, StakePowMinutes(r, a), ChainTotalPowMinutes(r))

Settled(m, endTime) ==
    [base |-> m.base, merit |-> m.merit, yield |-> m.yield,
     lastOpr |-> endTime, lastClaim |-> endTime]

\* Mutant: the lookup stops at the cache, like the other sub-ledgers' getters.
GetUserMetaCacheOnly(u) == Has(users, u)

\* GetUserMeta: the cached record, and otherwise the store.  The cache
\* holds only committed records, but the store already holds every record
\* put, in this block or in an aborted one.
GetUserMeta(u) == Has(users, u) \/ u \in DOMAIN users.db

\* CheckUserType and CheckPayAmount: the type is in the current catalogue,
\* the interval a whole number of months, the amount the type's fee.
CheckUserType(ty) == ty \in DOMAIN UserTypes
CheckPayAmount(ty, amount, d) ==
    d % MonthDays = 0 /\ CheckUserType(ty) /\ amount = UserTypes[ty]

\* DealAddUserTx: the yield a subscription adds, its price less the burn.
SubscriptionYield(amount) == (amount * (100 - Params["burnPerc"])) \div 100

-----------------------------------------------------------------------------
(* Mutators                                                                 *)

\* UpdateOwner: put the reward record (pending and store).
UpdateOwner(R, a, m) == Put(R, a, m)

\* UpdateGlobal: the checkpoint goes to the store only, neither to
\* pendigGlobal nor to curGlobal.
UpdateGlobal(G, endTime) == [G EXCEPT !.db = endTime]

\* ModifyYields: pending = current + yield; a zero yield resets the
\* undistributed amount.
ModifyYields(Y, yield) ==
    [Y EXCEPT !.pend = [total |-> Y.cur.total + yield,
                        undist |-> IF yield = 0 THEN 0 ELSE Y.cur.undist + yield]]

\* UpdateStakerReward(stakerType, address, endTime), as a step of rewards,
\* global and yields: fails when the checkpoint is past endTime, does
\* nothing at the checkpoint or without stakers, and otherwise rewrites the
\* record of every staker of the role that staked before endTime (zero for
\* the address that triggered it), then UpdateGlobal and ModifyYields.
UpdateStakerReward(r, addr, endTime) ==
    /\ ~(LastUpdateTime > endTime)
    /\ IF LastUpdateTime = endTime \/ StakersNum(r) = 0
       THEN UNCHANGED <<rewards, global, yields>>
       ELSE LET batch == {a \in DOMAIN stakers[r].cur : stakers[r].cur[a].time < endTime}
                meta(a) == IF a = addr THEN [base |-> 0, merit |-> 0, yield |-> 0]
                           ELSE Reword(r, a, stakers[r].cur[a].time, endTime)
            IN  /\ rewards' = PutAll(rewards, [a \in batch |-> Settled(meta(a), endTime)])
                /\ global' = UpdateGlobal(global, endTime)
                /\ yields' = ModifyYields(yields, 0)

\* UpdateFoundationReward: the same checkpoint guard, then UpdateOwner of a
\* zero record; the global checkpoint is not written.
UpdateFoundationReward(a, endTime) ==
    /\ ~(LastUpdateTime > endTime)
    /\ IF LastUpdateTime = endTime
       THEN UNCHANGED rewards
       ELSE rewards' = UpdateOwner(rewards, a, Settled([base |-> 0, merit |-> 0, yield |-> 0], endTime))
    /\ UNCHANGED <<global, yields>>

\* Mutant: the proof is added to the current total even when the miner
\* already has a pending record in this block.
PutPowFromCur(P, m, wt) == Put(P, m, (IF Has(P, m) THEN P.cur[m] ELSE 0) + wt)

\* PutPow: accumulate into the pending record if the miner has one in this
\* block, otherwise start from its current total.
PutPow(P, m, wt) ==
    IF m \in DOMAIN P.add THEN Put(P, m, P.add[m] + wt)
    ELSE Put(P, m, (IF Has(P, m) THEN P.cur[m] ELSE 0) + wt)

\* PutUser: put the subscriber record (pending and store).
PutUser(U, u, rec) == Put(U, u, rec)

\* The reward part of a credit to a.
Credit(a, rw) == [paid EXCEPT ![a] = [base |-> @.base + rw.base, merit |-> @.merit + rw.merit]]

-----------------------------------------------------------------------------
(* Transactions                                                             *)

\* StakeTx.Execute after its approval: IsStaker, then DealStakeTx, which
\* settles the role at the block time and puts the staker.
Stake(a, r) ==
    /\ ~IsStaker(a)
    /\ UpdateStakerReward(r, a, blkTime)
    /\ stakers' = [stakers EXCEPT ![r] = Put(@, a, [time |-> blkTime])]
    /\ paidTo' = [paidTo EXCEPT ![a] = blkTime]
    /\ UNCHANGED <<pow, now, blkTime, paid, work, users, sold>>

\* DealUnStakeTx: settle the role at endTime, then DelStaker.
DealUnStakeTx(r, a, endTime) ==
    /\ UpdateStakerReward(r, a, endTime)
    /\ stakers' = [stakers EXCEPT ![r] = Delete(@, a)]

\* Mutant: the two window checks read the wrong way round, accepting an
\* EndTime up to EffectiveSecs in the future.
UnStakeFutureEnd(a, r, endTime) ==
    /\ r \in {"route", "ser"}
    /\ now <= endTime /\ endTime <= now + EffectiveSecs
    /\ Has(stakers[r], a)
    /\ now >= GetStakerMeta(r, a).time + MinStakeTime
    /\ endTime >= GetStakerMeta(r, a).time
    /\ paid' = Credit(a, Reword(r, a, GetStakerMeta(r, a).time, endTime))
    /\ paidTo' = [paidTo EXCEPT ![a] = endTime]
    /\ DealUnStakeTx(r, a, endTime)
    /\ UNCHANGED <<pow, now, blkTime, work, users, sold>>

\* UnStakeTx.Execute: EndTime within [now - EffectiveSecs, now], the
\* minimum stake time, CalcReward (endTime not before the stake), the
\* credit of the reward, then DealUnStakeTx: settle the role, delete.
UnStake(a, r, endTime) ==
    /\ r \in {"route", "ser"}
    /\ now - EffectiveSecs <= endTime /\ endTime <= now
    /\ Has(stakers[r], a)
    /\ now >= GetStakerMeta(r, a).time + MinStakeTime
    /\ endTime >= GetStakerMeta(r, a).time
    /\ paid' = Credit(a, Reword(r, a, GetStakerMeta(r, a).time, endTime))
    /\ paidTo' = [paidTo EXCEPT ![a] = endTime]
    /\ DealUnStakeTx(r, a, endTime)
    /\ UNCHANGED <<pow, now, blkTime, work, users, sold>>

\* ClaimTx.Execute by a staker: seven days since its last claim, EndTime
\* the current day or the one before, CalcReward, the credit, then
\* UpdateStakerReward.
ClaimStaker(a, endTime) ==
    \E r \in Roles :
      /\ Has(stakers[r], a)
      /\ endTime >= GetStakerMeta(r, a).time
      /\ paid' = Credit(a, Reword(r, a, GetStakerMeta(r, a).time, endTime))
      /\ paidTo' = [paidTo EXCEPT ![a] = endTime]
      /\ UpdateStakerReward(r, a, endTime)

\* ClaimTx.Execute by the foundation: FoundationReword credits 0.  With the
\* curParams NewSysParamsState builds, Foundation is the zero address,
\* which is not in Addr, so no transaction reaches this branch.
ClaimFoundation(a, endTime) ==
    /\ ~IsStaker(a) /\ a = Foundation
    /\ FoundationRewordOK(RewardOf(a), endTime)
    /\ UpdateFoundationReward(a, endTime)
    /\ UNCHANGED <<paid, paidTo>>

\* CheckClaimAddress: a staker of some role, or the foundation.
CheckClaimAddress(a) == IsStaker(a) \/ a = Foundation

Claim(a) ==
    /\ CheckClaimAddress(a)
    /\ U64(now - LastClaimTime(a)) >= Week
    /\ \E endTime \in {now - 1, now} \cap Nat :
          ClaimStaker(a, endTime) \/ ClaimFoundation(a, endTime)
    /\ UNCHANGED <<stakers, pow, now, blkTime, work, users, sold>>

\* IsValidWorkAddress: m is the work address of a node whose stake address
\* is a staker of the node's role r (route or ser).
IsValidWorkAddress(m, r) == \E a \in Addr : WorkOf[a] = m /\ Has(stakers[r], a)

\* ProofTx.Execute: IsValidWorkAddress (the sender is the work address of
\* a route or ser staker, whose role is the pow type), then PutPow.
Proof(m, wt) ==
    /\ work.cur[m] + work.blk[m] + wt <= MaxWork
    /\ \E r \in PowRoles :
          /\ IsValidWorkAddress(m, r)
          /\ pow' = [pow EXCEPT ![r] = PutPow(@, m, wt)]
    /\ work' = [work EXCEPT !.blk[m] = @ + wt]
    /\ UNCHANGED <<stakers, rewards, global, yields, now, blkTime, paid, paidTo, users, sold>>

\* DealAddUserTx: PutUser (GetUserMeta found nothing, so the record is
\* new), then ModifyYields with the subscription's yield.
DealAddUserTx(u, ty, amount) ==
    /\ users' = PutUser(users, u, [type |-> ty, amount |-> amount])
    /\ yields' = ModifyYields(yields, SubscriptionYield(amount))

\* AddUserTx.Execute: a 28 to 31 day interval, a known type, the type's fee
\* for a whole number of months, an address without a record; then
\* DealAddUserTx puts the record and adds the yield to the pool.  The start
\* time (not before now - 60s) is not read again and is left out.
AddUser(u, ty, amount, d) ==
    /\ 28 <= d /\ d <= 31
    /\ CheckUserType(ty)
    /\ CheckPayAmount(ty, amount, d)
    /\ ~GetUserMeta(u)
    /\ DealAddUserTx(u, ty, amount)
    /\ sold' = [sold EXCEPT !.blk[u] = @ + 1]
    /\ UNCHANGED <<stakers, rewards, global, pow, now, blkTime, paid, paidTo, work>>

-----------------------------------------------------------------------------
(* The host                                                                 *)

\* CacheRewardsCommit, for the global checkpoint: the pending checkpoint
\* replaces the current one only when it is set.
CacheGlobalCommit(G) ==
    IF G.pend # 0 THEN [G EXCEPT !.cur = G.pend, !.pend = 0] ELSE G

\* CacheRewardsAbort, for the global checkpoint.
CacheGlobalAbort(G) == [G EXCEPT !.pend = 0]

\* CacheYieldsCommit: only a pending total other than 0 is published.
CacheYieldsCommit(Y) ==
    IF Y.pend.total # 0 THEN [cur |-> Y.pend, pend |-> [Y.pend EXCEPT !.total = 0]]
    ELSE Y

\* CacheYieldsAbort: the pending total is reset, the rest kept.
CacheYieldsAbort(Y) == [Y EXCEPT !.pend.total = 0]

\* CachePowsCommit and CachePowsAbort, over both pow types.
CachePowsCommit(P) == [r \in PowRoles |-> Commit(P[r])]
CachePowsAbort(P) == [r \in PowRoles |-> Abort(P[r])]

\* CacheUsersCommit and CacheUsersAbort: the LRU cache takes the pending
\* records (Evict, then Put); the cache is never full here.
CacheUsersCommit(U) == Commit(U)
CacheUsersAbort(U) == Abort(U)

\* samaState.Commit: every sub-ledger publishes its pending writes.
EndCommit ==
    /\ stakers' = [r \in Roles |-> Commit(stakers[r])]
    /\ rewards' = Commit(rewards)
    /\ global' = CacheGlobalCommit(global)
    /\ yields' = CacheYieldsCommit(yields)
    /\ pow' = CachePowsCommit(pow)
    /\ work' = [cur |-> [m \in DOMAIN work.cur |-> work.cur[m] + work.blk[m]],
                blk |-> [m \in DOMAIN work.blk |-> 0]]
    /\ users' = CacheUsersCommit(users)
    /\ sold' = [cur |-> [u \in Subscribers |-> sold.cur[u] + sold.blk[u]],
                blk |-> [u \in Subscribers |-> 0]]
    /\ blkTime' = now
    /\ ntx' = 0
    /\ paidAt' = <<paid, paidTo>>
    /\ UNCHANGED <<now, paid, paidTo>>

\* samaState.Abort: every sub-ledger drops its pending buffers.
EndAbort ==
    /\ stakers' = [r \in Roles |-> Abort(stakers[r])]
    /\ rewards' = Abort(rewards)
    /\ global' = CacheGlobalAbort(global)
    /\ yields' = CacheYieldsAbort(yields)
    /\ pow' = CachePowsAbort(pow)
    /\ work' = [work EXCEPT !.blk = [m \in DOMAIN work.blk |-> 0]]
    /\ users' = CacheUsersAbort(users)
    /\ sold' = [sold EXCEPT !.blk = [u \in Subscribers |-> 0]]
    /\ blkTime' = now
    /\ ntx' = 0
    /\ paid' = paidAt[1] /\ paidTo' = paidAt[2]
    /\ UNCHANGED <<now, paidAt>>

Tick ==
    /\ now < MaxTime
    /\ now' = now + 1
    /\ UNCHANGED <<stakers, rewards, global, yields, pow, blkTime, ntx, paid, paidTo, paidAt, work,
                   users, sold>>

Tx(A) == ntx < MaxTxs /\ A /\ ntx' = ntx + 1 /\ UNCHANGED paidAt

Miners == {WorkOf[a] : a \in StakeAddrs}

\* The constructors SamaNew calls, over the empty store of a new chain:
\* their reloads find nothing, so every map is empty and every total 0.
NewRewardState == [rewards |-> NewStaged(EmptyMap), global |-> [cur |-> 0, pend |-> 0, db |-> 0]]
NewYieldsState == [cur |-> [total |-> 0, undist |-> 0], pend |-> [total |-> 0, undist |-> 0]]
NewPowState == [r \in PowRoles |-> NewStaged(EmptyMap)]
NewUserstate == NewStaged(EmptyMap)

Init ==
    /\ stakers = [r \in Roles |-> NewStaged(EmptyMap)]
    /\ rewards = NewRewardState.rewards
    /\ global = NewRewardState.global
    /\ yields = NewYieldsState
    /\ pow = NewPowState
    /\ now = 0
    /\ blkTime = 0
    /\ ntx = 0
    /\ paid = [a \in Addr |-> [base |-> 0, merit |-> 0]]
    /\ paidTo = [a \in Addr |-> 0]
    /\ paidAt = <<paid, paidTo>>
    /\ work = [cur |-> [m \in Miners |-> 0], blk |-> [m \in Miners |-> 0]]
    /\ users = NewUserstate
    /\ sold = [cur |-> [u \in Subscribers |-> 0], blk |-> [u \in Subscribers |-> 0]]

Next ==
    \/ \E a \in StakeAddrs, r \in StakeRoles : Tx(Stake(a, r))
    \/ \E a \in StakeAddrs, r \in StakeRoles, e \in 0 .. MaxTime + EffectiveSecs : Tx(UnStake(a, r, e))
    \/ \E a \in Addr : Tx(Claim(a))
    \/ \E m \in Miners, wt \in WorkTimes : Tx(Proof(m, wt))
    \/ \E u \in Subscribers, ty \in DOMAIN UserTypes, amt \in PayAmounts, d \in Durations :
          Tx(AddUser(u, ty, amt, d))
    \/ EndCommit
    \/ EndAbort
    \/ Tick

Spec == Init /\ [][Next]_vars

-----------------------------------------------------------------------------
(* Properties                                                               *)

Record == [base : Nat, merit : Nat, yield : Nat, lastOpr : 0 .. MaxTime, lastClaim : 0 .. MaxTime]
Yield == [total : Nat, undist : Nat]

TypeOK ==
    /\ \A r \in Roles : DOMAIN stakers[r].cur \subseteq Addr
                       /\ \A a \in DOMAIN stakers[r].cur : stakers[r].cur[a].time \in 0 .. MaxTime
    /\ \A a \in DOMAIN rewards.cur : rewards.cur[a] \in Record
    /\ \A a \in DOMAIN rewards.add : rewards.add[a] \in Record
    /\ global \in [cur : 0 .. MaxTime, pend : 0 .. MaxTime, db : 0 .. MaxTime]
    /\ yields \in [cur : Yield, pend : Yield]
    /\ \A r \in PowRoles : \A m \in DOMAIN pow[r].cur : pow[r].cur[m] \in Nat
    /\ now \in 0 .. MaxTime /\ blkTime \in 0 .. now /\ ntx \in 0 .. MaxTxs
    /\ paidTo \in [Addr -> 0 .. MaxTime]
    /\ DOMAIN users.db \subseteq Subscribers
    /\ \A u \in DOMAIN users.db : users.db[u].amount \in PayAmounts
    /\ sold \in [cur : [Subscribers -> Nat], blk : [Subscribers -> Nat]]

\* PutPow accumulates a miner's proofs within a block in its pending record
\* and CachePowsCommit publishes it: after every commit the work time
\* metered for a miner (over both pow types) is the sum of the work times of
\* all its proofs in committed blocks, however the proofs fell in blocks.
PowAccounting ==
    \A m \in Miners : StakePowMinutes("route", m) + StakePowMinutes("ser", m) = work.cur[m]

\* AddUser refuses an address that GetUserMeta finds, and GetUserMeta
\* falls back to the store, where PutUser wrote the records of this block:
\* no address is ever sold a subscription twice, not even by two AddUser
\* transactions of one block.
SubscriberOnce == \A u \in Subscribers : sold.cur[u] + sold.blk[u] <= 1

\* The yield pool's committed total is the sum of the yields of the
\* committed subscriptions: DealAddUserTx adds each one through
\* ModifyYields, and a reward settlement (ModifyYields with 0) adds nothing
\* and takes nothing away from the total.
YieldsCollected ==
    yields.cur.total =
        MapThenSumSet(LAMBDA u : IF Has(users, u)
                                 THEN sold.cur[u] * SubscriptionYield(users.cur[u].amount)
                                 ELSE 0,
                      Subscribers)

\* The reward StakerReword pays to a staker of role r over [s, e), at
\* most: every tick at the per-staker rate of a role with one staker.
RoleYear(r, y) == (RewardCurYear(y) * StakePercentage(Params, r)) \div 100
Cap(r, perc, s, e) ==
    MapThenSumSet(LAMBDA t : ((RoleYear(r, YearOf(t)) * perc) \div 100) \div SecondsYear,
                  s .. e - 1)
BaseCap(r, s, e) == Cap(r, PercBase(Params, r), s, e)
MeritCap(r, s, e) == Cap(r, PercMerit(Params, r), s, e)

\* A Claim or UnStake credits a staker at most the base and merit reward
\* its role emits to a sole staker over the time since the staker's last
\* settlement (or its stake): no interval is paid twice, and nothing is
\* paid for time it was not staked (spec section 4.2).  The credits of a
\* block that aborts are rolled back with it: the balances live in the
\* host's block state (t.Database), which a rejected block discards.
PayoutWithinAccrual ==
    [][\A a \in Addr :
         ntx' > 0 /\ paid'[a] # paid[a] =>
            \E r \in Roles :
               /\ Has(stakers[r], a)
               /\ paid'[a].base - paid[a].base <= BaseCap(r, paidTo[a], paidTo'[a])
               /\ paid'[a].merit - paid[a].merit <= MeritCap(r, paidTo[a], paidTo'[a])]_vars
=============================================================================
