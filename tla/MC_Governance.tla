--------------------------- MODULE MC_Governance ---------------------------
(* Instances of Governance for TLC: a bootstrap chain with no routes, and a *)
(* steady-state chain with four routes.  Times are in ticks: an action is  *)
(* open for Week ticks, a staker may leave MinStakeTime ticks after it     *)
(* staked.                                                                 *)
EXTENDS Governance, Genesis

CONSTANTS root, a1, a2, a3, a4, id1, id2, w1, ip1, ip2, t1

\* The governed percentages in force on a chain started from DefaultGenesis.
MCInitParams == GovernedParams(NewSysParams(DefaultGenesis))

\* The stake amounts StakeTx reads from t.Genesis.
MCRouteStake == DefaultGenesis.routeStake
MCSerStake == DefaultGenesis.serStake

\* One value inside [5, 95] and one outside, which CompCurParam lets through
\* and Govern's ModifyParams rejects.
MCParamVals == {60, 3}
MCProposalKeys == {"routePerc", "serPerc"}

\* Action ids and public IPs are only compared for equality.
MCSymmetry == Permutations({id1, id2}) \cup Permutations({ip1, ip2})

\* With the routes at start interchangeable as well.
MCRouteSymmetry == MCSymmetry \cup Permutations(InitRoutes)

\* The stores are read by Restart only, so once the last restart is taken
\* states that differ only in their stores behave alike.
MCStores ==
    IF restarts < MaxRestarts
    THEN <<[r \in Roles |-> stakers[r].db], actions.db, details.db, params.db, userTypes.db>>
    ELSE <<>>
Volatile(S) == [S EXCEPT !.db = 0]
MCView == <<[r \in Roles |-> Volatile(stakers[r])], Volatile(actions), Volatile(details),
            Volatile(params), Volatile(userTypes), now, blkTime, Volatile(ballots), decisions, ntx,
            restarts, up, MCStores>>

\* For properties that read neither the ballots nor the decisions beyond
\* EverRoutes: both histories are written and never read by the actions.
MCStateView == <<[r \in Roles |-> Volatile(stakers[r])], Volatile(actions), Volatile(details),
                 Volatile(params), Volatile(userTypes), now, blkTime, ntx, EverRoutes, restarts,
                 up, MCStores>>
=============================================================================
