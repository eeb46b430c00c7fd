----------------------------- MODULE Governance -----------------------------
(***************************************************************************)
(* Governance and staking admission of src/chain: the staker registry      *)
(* (stake_status.go), the action registry (action_status.go), the node     *)
(* detail registry (node_params.go) and the system parameters              *)
(* (system_params.go) and the user types (users_type.go), driven by the   *)
(* transactions Proposal, Register, Refresh, Vote, Withdraw, Govern, Stake *)
(* and UnStake, by the host's Commit or                                    *)
(* Abort at each block boundary, and by a restart of the process, which    *)
(* rebuilds every registry from the store as SamaNew does.                 *)
(*                                                                         *)
(* Every registry is a StagedMap value: validation reads its "cur" map     *)
(* only, mutations are staged and published by Commit.  Two clocks are     *)
(* kept: blkTime, the timestamp of the block being executed (t.BlockTime), *)
(* and now, the wall clock of the executing node (time.Now()), which the   *)
(* code also consults.  Balances, stake amounts, rewards and the reward    *)
(* checkpoint are left out: the in-memory checkpoint never advances past  *)
(* the time of the last reload (reward_status.go:105), so                  *)
(* UpdateStakerReward never fails inside Stake or UnStake and only touches *)
(* reward records.                                                         *)
(***************************************************************************)
EXTENDS Integers, FiniteSets, TLC, StagedMap

CONSTANTS
    Addr,          \* account addresses, Root among them
    Root,          \* the root address of the system parameters
    InitRoutes,    \* route stakers present at start
    ActionIDs,     \* action ids a transaction may name
    WorkAddrs,     \* work addresses recovered from a Register work key
    IPs,           \* public IPs a Register may carry
    ProposalKeys,  \* parameter keys a Proposal may name
    ParamVals,     \* percentage values a Proposal may carry
    TypeIDs,       \* user-type ids a Proposal may name
    Fees,          \* user-type fees a Proposal may carry
    RouteStake,    \* t.Genesis.RouteStake
    SerStake,      \* t.Genesis.SerStake
    InitParams,    \* the percentage parameters at start: key -> value
    Week,          \* Seconds7Day, scaled
    MinStakeTime,  \* GetMinStakeTime(), scaled
    MaxTime,       \* bound on the wall clock
    MaxTxs,        \* bound on the transactions of one block
    MaxRestarts    \* bound on the restarts of the process

ASSUME Root \in Addr /\ InitRoutes \subseteq Addr \ {Root}

Roles == {"route", "ser", "validator"}
AddStaker == "addStaker"
ModifySysParam == "modifySysParam"
AddUserTypeAction == "addUserType"
ModifyUserTypeAction == "modifyUserType"
MinPercentage == 5
MaxPercentage == 95

\* The complementary parameter that ModifyParams sets to 100 - v.
Partner == ("routePerc" :> "serPerc") @@ ("serPerc" :> "routePerc")
        @@ ("routeBase" :> "routeMerit") @@ ("routeMerit" :> "routeBase")
        @@ ("serBase" :> "serMerit") @@ ("serMerit" :> "serBase")

VARIABLES
    stakers,   \* role -> staged map address -> [time]
    actions,   \* staged map id -> [type, key, value, end, voters]
    details,   \* staged map address -> [role, ip, stake, work]
    params,    \* [cur, pend, dirty, db]: curParams, pendingParams, TotalTokens # 0, store
    now,       \* time.Now() of the executing node
    blkTime,   \* t.BlockTime of the block being executed
    ballots,   \* history: staged set of <<id, voter>> pairs a successful tx meant to count
    decisions, \* history: the confirmations Stake and Govern acted upon
    ntx,       \* transactions executed in the current block
    restarts,  \* restarts of the process so far
    userTypes, \* staged map user-type id -> fee
    up         \* the process is running (its last start succeeded)

vars == <<stakers, actions, details, params, now, blkTime, ballots, decisions, ntx, restarts,
          userTypes, up>>

-----------------------------------------------------------------------------
(* Reads: every one of them looks at the current maps only.                *)

RouteNum == Cardinality(DOMAIN stakers["route"].cur)
IsRoute(a) == Has(stakers["route"], a)
IsStaker(a) == \E r \in Roles : Has(stakers[r], a)

\* GetStakerMeta: the current record of a staker of role r.
GetStakerMeta(r, a) == stakers[r].cur[a]

\* GetDetailMeta: a node detail is found in the current map only.
GetDetailMeta(w) == Has(details, w)

\* IsRegistered: same public IP, work key (the key of the record) and role.
IsRegistered(d, r, ip) == d.ip = ip /\ d.role = r

\* IsRepeated: RefreshTx carries the same endpoint fields.
IsRepeated(d, ip) == d.ip = ip

\* PutDetail: put the record under address w (pending and store).
PutDetail(D, w, d) == Put(D, w, d)

UpdateNodeParams(D, d) == PutDetail(D, d.work, d)

\* AddUserType: put the type's fee (pending and store).
AddUserType(T, ty, fee) == Put(T, ty, fee)

\* GetActionMeta: found and not overdue against the wall clock.
Live(id) == Has(actions, id) /\ actions.cur[id].end >= now

\* Mutant: the proposer is counted whoever it is.
InitialVotersAll(s) == {s}

\* Initial voter list of Proposal and Register.
InitialVoters(s) ==
    IF (s = Root /\ RouteNum < 3) \/ IsRoute(s) THEN {s} ELSE {}

\* The confirmation rule of Govern and ProposalStatus.
Confirmed(a) ==
    IF RouteNum < 3 THEN Root \in a.voters
    ELSE Cardinality(a.voters) >= (RouteNum * 2) \div 3

\* IsBeConfirmed(add-staker, key): GetVotersNum returns the first cur action
\* of that type and key in map order, expired or not; only the bootstrap
\* branch goes through GetActionMeta, which rejects an overdue action.
StakeApproval(key) ==
    {id \in DOMAIN actions.cur :
        /\ actions.cur[id].type = AddStaker /\ actions.cur[id].key = key}
IsBeConfirmed(id) ==
    IF RouteNum < 3 THEN Live(id) /\ Root \in actions.cur[id].voters
    ELSE Cardinality(actions.cur[id].voters) >= (RouteNum * 2) \div 3

\* ProposalRepeat: id and key free in cur (expired actions included) and in
\* pending-add.
ProposalRepeat(id, key) ==
    /\ id \notin DOMAIN actions.cur \cup DOMAIN actions.add
    /\ \A x \in DOMAIN actions.cur : actions.cur[x].key # key
    /\ \A x \in DOMAIN actions.add : actions.add[x].key # key

\* CheckUserType and CheckFee: the type is current (with that fee).
CheckUserType(ty) == Has(userTypes, ty)
CheckFee(ty, fee) == CheckUserType(ty) /\ userTypes.cur[ty] = fee

\* CompCurParam: the key is known and the value differs from the current one.
CompCurParam(key, v) == key \in DOMAIN params.cur /\ params.cur[key] # v

\* Mutant: the complementary parameter is left alone.
ModifyParamsNoPartner(p, key, v) == [p EXCEPT ![key] = v]

\* ModifyParams on curParams: range check, then the key and its partner.
ModifyParams(p, key, v) ==
    IF key \in DOMAIN Partner
    THEN [p EXCEPT ![key] = v, ![Partner[key]] = 100 - v]
    ELSE [p EXCEPT ![key] = v]

NewAction(type, key, value, s) ==
    [type |-> type, key |-> key, value |-> value, end |-> blkTime + Week,
     voters |-> InitialVoters(s)]

\* Pairs of the history kept for id.
BallotsOf(id) == {b \in DOMAIN Tentative(ballots) : b[1] = id}
DropAll(S, ks) ==
    [S EXCEPT !.add = Restrict(@, DOMAIN @ \ ks), !.del = @ \cup ks,
              !.db = Restrict(@, DOMAIN @ \ ks)]
Cast(S, ks) == [S EXCEPT !.add = @ @@ [k \in ks |-> TRUE], !.del = @ \ ks,
                         !.db = @ @@ [k \in ks |-> TRUE]]

\* A confirmation acted upon in the current block, with what it was about.
Record(kind, id, a, what) ==
    decisions' = [decisions EXCEPT !.blk = @ \cup
        {[kind |-> kind, id |-> id, what |-> what, voters |-> Cardinality(a.voters),
          routes |-> RouteNum, expired |-> a.end < now]}]

-----------------------------------------------------------------------------
(* Transactions.  A failing Execute leaves no trace: the block carrying it *)
(* is rejected, which is the Abort step below.                             *)

\* ProposalTx's switch on the action type: a percentage parameter that
\* changes, a user type that is new, or a user type whose fee changes.
\* A user-type key that does not parse is not a member of TypeIDs.
ProposalCheck(type, key, v) ==
    \/ type = ModifySysParam /\ CompCurParam(key, v)
    \/ type = AddUserTypeAction /\ key \in TypeIDs /\ ~CheckUserType(key)
    \/ type = ModifyUserTypeAction /\ CheckUserType(key) /\ ~CheckFee(key, v)

\* ProposalTx.Execute.
Proposal(s, id, type, key, v) ==
    /\ ~Live(id)
    /\ ProposalCheck(type, key, v)
    /\ ProposalRepeat(id, key)
    /\ LET a == NewAction(type, key, v, s) IN
         /\ actions' = Put(actions, id, a)
         /\ ballots' = Cast(ballots, {<<id, x>> : x \in a.voters})
    /\ UNCHANGED <<stakers, details, params, now, blkTime, decisions, restarts, userTypes>>

\* RegisterTx.Execute: work address w recovered from the work key.  The
\* action is put under the caller's id whether or not one exists.
Register(s, id, a, r, w, ip) ==
    /\ ~IsStaker(a)
    /\ GetDetailMeta(w) => /\ details.cur[w].role = r
                           /\ ~IsRegistered(details.cur[w], r, ip)
    /\ LET act == NewAction(AddStaker, a, 0, s) IN
         /\ actions' = Put(actions, id, act)
         /\ ballots' = Cast(ballots, {<<id, x>> : x \in act.voters})
    /\ details' = UpdateNodeParams(details, [role |-> r, ip |-> ip, stake |-> a, work |-> w])
    /\ UNCHANGED <<stakers, params, now, blkTime, decisions, restarts, userTypes>>

\* IsValidWorkAddress: some current detail record, whatever its key, has
\* work address w and a stake address that is a staker of its role, route
\* or ser.  The records are scanned in map order and the first match
\* decides, so any matching record may be the one.
IsValidWorkAddress(w) ==
    \E k \in DOMAIN details.cur :
        LET d == details.cur[k] IN
          /\ d.work = w
          /\ d.role \in {"route", "ser"}
          /\ Has(stakers[d.role], d.stake)

\* RefreshTx.Execute: a valid work address with a detail record that the
\* refresh changes (IsRepeated), looked up under the work address; the
\* record keeps its role and stake address.  The endpoint fields are
\* abstracted to the IP.
Refresh(w, ip) ==
    /\ IsValidWorkAddress(w)
    /\ GetDetailMeta(w)
    /\ ~IsRepeated(details.cur[w], ip)
    /\ details' = PutDetail(details, w, [details.cur[w] EXCEPT !.ip = ip])
    /\ UNCHANGED <<stakers, actions, params, now, blkTime, ballots, decisions, restarts, userTypes>>

\* Mutant: the route (or bootstrap root) check is dropped.
VoteAnyone(s, id) ==
    /\ Live(id)
    /\ s \notin actions.cur[id].voters
    /\ actions' = Put(actions, id, [actions.cur[id] EXCEPT !.voters = @ \cup {s}])
    /\ ballots' = Cast(ballots, {<<id, s>>})
    /\ UNCHANGED <<stakers, details, params, now, blkTime, decisions, restarts, userTypes>>

\* VoteTx.Execute: a copy of the current action with the voter appended.
Vote(s, id) ==
    /\ IsRoute(s) \/ (s = Root /\ RouteNum <= 3)
    /\ Live(id)
    /\ s \notin actions.cur[id].voters
    /\ actions' = Put(actions, id, [actions.cur[id] EXCEPT !.voters = @ \cup {s}])
    /\ ballots' = Cast(ballots, {<<id, s>>})
    /\ UNCHANGED <<stakers, details, params, now, blkTime, decisions, restarts, userTypes>>

\* WithdrawnTx.Execute: the voter is removed from the current action
\* itself (GetActionMeta returns the pointer held in curActions), which is
\* then also put.
Withdraw(s, id) ==
    /\ IsRoute(s)
    /\ Live(id)
    /\ LET w == [actions.cur[id] EXCEPT !.voters = @ \ {s}] IN
         actions' = Put([actions EXCEPT !.cur[id] = w], id, w)
    /\ ballots' = DropAll(ballots, {<<id, s>>})
    /\ UNCHANGED <<stakers, details, params, now, blkTime, decisions, restarts, userTypes>>

\* Mutant: ModifyParams' range check is dropped.
InRangeAny(v) == TRUE

\* ModifyParams' range check on the new percentage.
InRange(v) == v \in MinPercentage..MaxPercentage

\* GovernTx's switch on the action type: ModifyParams, which writes the
\* pending copy and the store, or AddUserType with the action's fee.
Execute(a) ==
    \/ /\ a.type = ModifySysParam
       /\ InRange(a.value)
       /\ LET p == ModifyParams(params.cur, a.key, a.value) IN
            params' = [params EXCEPT !.pend = p, !.dirty = TRUE, !.db = p]
       /\ UNCHANGED userTypes
    \/ /\ a.type \in {AddUserTypeAction, ModifyUserTypeAction}
       /\ userTypes' = AddUserType(userTypes, a.key, a.value)
       /\ UNCHANGED params

\* GovernTx.Execute.  The 14-day check is unreachable: GetActionMeta
\* already failed once now > EndTime.  The action is not deleted.
Govern(id) ==
    /\ Live(id)
    /\ LET a == actions.cur[id] IN
         /\ Confirmed(a)
         /\ Execute(a)
         /\ Record("govern", id, a, a.key)
    /\ UNCHANGED <<stakers, actions, details, now, blkTime, ballots, restarts>>

\* StakeTx.Execute: the amount is one of the two genesis stake amounts,
\* whatever the role; the approval is looked up under the sender, the
\* staker record is created under StakerAddr a, and the approving action
\* deleted.  The balance moves touch no state modelled here.
Stake(s, a, r, amt) ==
    /\ amt \in {RouteStake, SerStake}
    /\ ~IsStaker(a)
    /\ \E id \in StakeApproval(s) :
         /\ IsBeConfirmed(id)
         /\ stakers' = [stakers EXCEPT ![r] = Put(@, a, [time |-> blkTime])]
         /\ actions' = Delete(actions, id)
         /\ ballots' = DropAll(ballots, BallotsOf(id))
         /\ Record("stake", id, actions.cur[id], <<a, r, s, amt>>)
    /\ UNCHANGED <<details, params, now, blkTime, restarts, userTypes>>

\* UnStakeTx.Execute: an EndTime inside [now - EffectiveSecs, now] always
\* exists, so the window check constrains nothing here.
UnStake(s, r) ==
    /\ r \in {"route", "ser"}
    /\ Has(stakers[r], s)
    /\ now >= GetStakerMeta(r, s).time + MinStakeTime
    /\ stakers' = [stakers EXCEPT ![r] = Delete(@, s)]
    /\ UNCHANGED <<actions, details, params, now, blkTime, ballots, decisions, restarts, userTypes>>

-----------------------------------------------------------------------------
(* The host: block boundaries and the passage of time.                      *)

\* The per-registry Commit and Abort of samaState.Commit and Abort.
CacheStakersCommit == [r \in Roles |-> Commit(stakers[r])]
CacheStakersAbort == [r \in Roles |-> Abort(stakers[r])]
CacheDetailsCommit == Commit(details)
CacheDetailsAbort == Abort(details)
CacheUserTypesCommit == Commit(userTypes)
CacheUserTypesAbort == Abort(userTypes)

\* CacheParamsCommit: the pending copy replaces the current one if set.
CacheParamsCommit ==
    IF params.dirty THEN [params EXCEPT !.cur = params.pend, !.dirty = FALSE] ELSE params

\* CacheParamsAbort: the pending copy is dropped; the store keeps it.
CacheParamsAbort == [params EXCEPT !.dirty = FALSE]

\* samaState.Commit: every registry publishes its pending buffers.
EndCommit ==
    /\ up
    /\ stakers' = CacheStakersCommit
    /\ actions' = Commit(actions)
    /\ details' = CacheDetailsCommit
    /\ params' = CacheParamsCommit
    /\ userTypes' = CacheUserTypesCommit
    /\ ballots' = Commit(ballots)
    /\ decisions' = [done |-> decisions.done \cup decisions.blk, blk |-> {}]
    /\ blkTime' = now
    /\ ntx' = 0
    /\ UNCHANGED <<now, restarts, up>>

\* samaState.Abort: every registry drops its pending buffers.
EndAbort ==
    /\ up
    /\ stakers' = CacheStakersAbort
    /\ actions' = Abort(actions)
    /\ details' = CacheDetailsAbort
    /\ params' = CacheParamsAbort
    /\ userTypes' = CacheUserTypesAbort
    /\ ballots' = Abort(ballots)
    /\ decisions' = [decisions EXCEPT !.blk = {}]
    /\ blkTime' = now
    /\ ntx' = 0
    /\ UNCHANGED <<now, restarts, up>>

\* ReloadStakers: each role's current map is the role's stored rows.
ReloadStakers == [r \in Roles |-> NewStaged(stakers[r].db)]

\* ReloadActions: the stored actions, less those already overdue.
ReloadActions == Reload(actions, {id \in DOMAIN actions.db : actions.db[id].end >= now})

\* ReloadDetails: every stored record is put under its stake address; of
\* two records with the same stake address the later one in the scan wins.
ReloadDetails(db) ==
    LET S == {db[w].stake : w \in DOMAIN db} IN
    {[NewStaged([a \in S |-> db[p[a]]]) EXCEPT !.db = db] :
        p \in {q \in [S -> DOMAIN db] : \A a \in S : db[q[a]].stake = a}}

\* AddUserType writes a type's row under PrefixUserTypesKey, whose first
\* byte is usersPrefix; ReloadUserTypes scans baseUserTypesPrefix, whose
\* first byte is userTypesPrefix, and keeps the rows it finds.
PrefixUserTypesKey == "usersPrefix"
BaseUserTypesPrefix == "userTypesPrefix"
ReloadUserTypes ==
    Reload(userTypes, IF PrefixUserTypesKey = BaseUserTypesPrefix THEN DOMAIN userTypes.db ELSE {})

\* NewUserstate's ReloadUsers scans baseUsersPrefix and unmarshals every
\* row into a UserMeta; an error fails NewUserstate and so SamaNew.  The
\* rows of user types lie under the same prefix, and a UserType
\* (TypeName, TypeID, FeeUnits: 18 bytes) is too short for the uint64
\* fields a UserMeta starts with, so the codec refuses it.  Subscriber
\* rows, not modelled here, decode.
BaseUsersPrefix == "usersPrefix"
ReloadUsersOK == PrefixUserTypesKey = BaseUsersPrefix => DOMAIN userTypes.db = {}

\* ReloadParams: the stored copy, read into curParams.
ReloadParams == params.db

\* NewSysParamsState: the genesis parameters, overwritten by the stored
\* copy when there is one (the store starts with none, which is the
\* genesis copy here); nothing is pending.
NewSysParamsState == [cur |-> ReloadParams, pend |-> params.db, dirty |-> FALSE, db |-> params.db]

\* A restart of the process: SamaNew builds every registry afresh from the
\* store, and the process runs again only if every constructor succeeded.
\* The pending buffers of the block in progress are lost; the store is
\* left as it is.
Restart ==
    /\ restarts < MaxRestarts
    /\ stakers' = ReloadStakers
    /\ actions' = ReloadActions
    /\ details' \in ReloadDetails(details.db)
    /\ params' = NewSysParamsState
    /\ userTypes' = ReloadUserTypes
    /\ up' = ReloadUsersOK
    /\ ballots' = Abort(ballots)
    /\ decisions' = [decisions EXCEPT !.blk = {}]
    /\ ntx' = 0
    /\ restarts' = restarts + 1
    /\ UNCHANGED <<now, blkTime>>

Tick ==
    /\ now < MaxTime
    /\ now' = now + 1
    /\ UNCHANGED <<stakers, actions, details, params, blkTime, ballots, decisions, ntx, restarts, userTypes, up>>

\* One more transaction of the current block, executed by A.
Tx(A) == up /\ ntx < MaxTxs /\ A /\ ntx' = ntx + 1 /\ UNCHANGED up

Init ==
    /\ stakers = [r \in Roles |->
                    NewStaged(IF r = "route"
                              THEN [a \in InitRoutes |-> [time |-> 0]]
                              ELSE EmptyMap)]
    /\ actions = NewStaged(EmptyMap)
    /\ details = NewStaged(EmptyMap)
    /\ params = [cur |-> InitParams, pend |-> InitParams, dirty |-> FALSE, db |-> InitParams]
    /\ now = 0
    /\ blkTime = 0
    /\ ballots = NewStaged(EmptyMap)
    /\ decisions = [done |-> {}, blk |-> {}]
    /\ ntx = 0
    /\ restarts = 0
    /\ userTypes = NewStaged(EmptyMap)
    /\ up = TRUE

Next ==
    \/ \E s \in Addr, id \in ActionIDs, type \in {ModifySysParam, AddUserTypeAction, ModifyUserTypeAction},
          k \in ProposalKeys \cup TypeIDs, v \in ParamVals \cup Fees :
          Tx(Proposal(s, id, type, k, v))
    \/ \E s, a \in Addr, id \in ActionIDs, r \in Roles, w \in WorkAddrs, ip \in IPs :
          Tx(Register(s, id, a, r, w, ip))
    \/ \E w \in WorkAddrs, ip \in IPs : Tx(Refresh(w, ip))
    \/ \E s \in Addr, id \in ActionIDs : Tx(Vote(s, id))
    \/ \E s \in Addr, id \in ActionIDs : Tx(Withdraw(s, id))
    \/ \E id \in ActionIDs : Tx(Govern(id))
    \/ \E s, a \in Addr, r \in Roles, amt \in {RouteStake, SerStake} : Tx(Stake(s, a, r, amt))
    \/ \E s \in Addr, r \in Roles : Tx(UnStake(s, r))
    \/ EndCommit
    \/ EndAbort
    \/ Restart
    \/ Tick

Spec == Init /\ [][Next]_vars

-----------------------------------------------------------------------------
(* Properties.                                                             *)

ActionRec == [type : {AddStaker, ModifySysParam, AddUserTypeAction, ModifyUserTypeAction},
              key : Addr \cup ProposalKeys \cup TypeIDs,
              value : ParamVals \cup Fees \cup {0}, end : 0..(MaxTime + Week), voters : SUBSET Addr]
StagedOver(K, V) ==
    [cur : UNION {[D -> V] : D \in SUBSET K}, add : UNION {[D -> V] : D \in SUBSET K},
     del : SUBSET K, db : UNION {[D -> V] : D \in SUBSET K}]

\* Type invariant.  It includes that the percentage parameters in force
\* stay inside [MinPercentage, MaxPercentage] unless still at genesis,
\* which is what ModifyParams' range check is for.
TypeOK ==
    /\ \A r \in Roles : DOMAIN stakers[r].cur \subseteq Addr
    /\ \A id \in DOMAIN actions.cur : actions.cur[id] \in ActionRec
    /\ \A k \in DOMAIN params.cur :
          params.cur[k] = InitParams[k] \/ params.cur[k] \in MinPercentage..MaxPercentage
    /\ now \in 0..MaxTime /\ blkTime \in 0..now /\ ntx \in 0..MaxTxs
    /\ params.dirty \in BOOLEAN

\* The routes at start and every address a committed Stake made a route.
EverRoutes ==
    InitRoutes \cup {d.what[1] : d \in {e \in decisions.done : e.kind = "stake" /\ e.what[2] = "route"}}

\* Every voter on a committed action is the root or an address that was a
\* route: Proposal, Register and Vote only count a route (or the root), and
\* Withdraw only removes.  A vote by anyone else would let an outsider carry
\* the quorum of Govern or Stake.
VotersEligible ==
    \A id \in DOMAIN actions.cur : actions.cur[id].voters \subseteq EverRoutes \cup {Root}

\* Each complementary pair of parameters in force sums to 100 unless both
\* are still at genesis: ModifyParams sets the partner of the key it
\* changes, and Commit publishes the whole pending copy at once.
ParamsComplementary ==
    \A k \in DOMAIN Partner \cap DOMAIN params.cur :
        \/ params.cur[k] + params.cur[Partner[k]] = 100
        \/ params.cur[k] = InitParams[k] /\ params.cur[Partner[k]] = InitParams[Partner[k]]

\* Every ballot that a committed Proposal, Register or Vote counted, and no
\* later committed Withdraw or Stake took back, is in the voter list of its
\* committed action.  Three code paths lose ballots: Vote puts a copy of
\* the current action, so two votes in one block keep only the last;
\* Withdraw edits the current action in place, so an aborted withdrawal
\* stays done; Register puts a fresh action under an id that may be open.
BallotsCounted ==
    \A b \in DOMAIN ballots.cur :
        Has(actions, b[1]) => b[2] \in actions.cur[b[1]].voters

\* The stake amount spec 4.4 asks of a role.
RoleStake(r) == IF r = "route" THEN RouteStake ELSE SerStake

\* Spec 4.4: Stake admits an address that is not already staked, on the
\* confirmed add-staker action of that address, with exactly the stake
\* amount of its role (route or ser), and section 4.3 (b) treats an
\* overdue action as not found.  So every committed staker holds one role,
\* and every committed Stake used an approval of the address it staked
\* that was not overdue, and paid its role's amount.  StakeTx reads
\* IsStaker from the current maps (a Stake earlier in the block is not
\* seen), looks the approval up under t.Sender rather than StakerAddr, in
\* steady state counts the voters of GetVotersNum's action without the
\* overdue check, and accepts either genesis amount for any role.
StakeAdmission ==
    /\ \A a \in Addr : Cardinality({r \in Roles : Has(stakers[r], a)}) <= 1
    /\ \A d \in decisions.done :
          d.kind = "stake" =>
             /\ d.what[1] = d.what[3] /\ ~d.expired
             /\ d.what[2] \in {"route", "ser"} => d.what[4] = RoleStake(d.what[2])

StoreAgrees ==
    /\ ntx = 0
    /\ \A r \in Roles : stakers[r].db = stakers[r].cur
    /\ actions.db = actions.cur /\ details.db = details.cur
    /\ params.db = params.cur /\ userTypes.db = userTypes.cur

\* So a restart at a block boundary where the store agrees with the
\* current state rebuilds that state: the process runs again, with the
\* same stakers, node details, parameters and user types, and the same
\* actions less the overdue ones.  ReloadDetails keys the records by stake
\* address where PutDetail keys them by work address, ReloadUserTypes
\* scans another prefix than AddUserType writes, and ReloadUsers finds the
\* user-type rows under its own prefix and fails to decode them, so the
\* process does not start again at all.
RestartRecovers ==
    [][restarts' # restarts /\ StoreAgrees =>
         /\ up'
         /\ \A r \in Roles : stakers'[r].cur = stakers[r].cur
         /\ actions'.cur = Restrict(actions.cur, {id \in DOMAIN actions.cur : actions.cur[id].end >= now})
         /\ details'.cur = details.cur
         /\ params'.cur = params.cur
         /\ userTypes'.cur = userTypes.cur]_vars
=============================================================================
