--------------------------- MODULE MC_Settlement ---------------------------
EXTENDS Settlement, Genesis, TLC

CONSTANTS a1, a2, f, u1, zero

\* The percentages in force on a chain started from DefaultGenesis: what
\* NewSysParamsState copied into curParams.
MCParams == PercParams(NewSysParams(DefaultGenesis))

\* common.HexToAddress: "" is the zero address, the one non-empty address
\* string of the genesis is f's.
HexToAddress(s) == IF s = "" THEN zero ELSE f

\* GetFoundationAddress of that curParams: NewSysParamsState does not copy
\* FoundationAddr, so the foundation is the zero address, which signs no
\* transaction.
MCFoundation == HexToAddress(GetFoundationAddress(NewSysParams(DefaultGenesis)))

\* Every node's work key is its staking key.
MCWorkOf == [a \in {a1, a2, f} |-> a]

\* One user type, governed with a fee of 10 (a scaled month card price).
MCUserTypes == 1 :> 10

MCSymmetry == Permutations({a1, a2})

\* The stores and the credits are never read by an action, except the
\* subscriber store, of which GetUserMeta reads which keys it holds.  The
\* yield pool and the yield field of a reward record flow only into yield
\* fields: no guard, no other field and none of the run's properties read
\* them, so states that differ only there have the same futures.
NoYield(m) == [a \in DOMAIN m |-> [m[a] EXCEPT !.yield = 0]]
MCView ==
    <<[r \in Roles |-> [stakers[r] EXCEPT !.db = 0]],
      [rewards EXCEPT !.cur = NoYield(@), !.add = NoYield(@), !.db = 0],
      [global EXCEPT !.db = 0], [r \in PowRoles |-> [pow[r] EXCEPT !.db = 0]],
      now, blkTime, ntx, work, [users EXCEPT !.db = DOMAIN users.db], sold>>
=============================================================================
