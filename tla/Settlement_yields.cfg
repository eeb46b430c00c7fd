\* The yield of a subscription reaches the pool's committed total: AddUser
\* and a reward settlement in one block, two transactions per block.
CONSTANTS
    TotalTokens = 1000
    MinerPerc = 20
    TotalYears = 3
    RateSustainYears = 1
    ChainCreateTime = 0
    SecondsYear = 4
    Word = 64
    a1 = a1
    a2 = a2
    f = f
    zero = zero
    Addr = {a1, a2, f}
    Foundation <- MCFoundation
    StakeRoles = {"route"}
    StakeAddrs = {a1, a2}
    Params <- MCParams
    WorkOf <- MCWorkOf
    WorkTimes = {1}
    Week = 1
    MinStakeTime = 1
    EffectiveSecs = 1
    MaxTime = 2
    MaxWork = 2
    MaxTxs = 2
    u1 = u1
    Subscribers = {u1}
    UserTypes <- MCUserTypes
    PayAmounts = {10}
    Durations = {30}
SPECIFICATION Spec
INVARIANT YieldsCollected
SYMMETRY MCSymmetry
