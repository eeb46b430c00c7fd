\* Stake admission on a bootstrap chain (root and one account), two
\* transactions per block, node registration, no parameter proposals.
CONSTANTS
    root = root  a1 = a1  a2 = a2  a3 = a3  a4 = a4
    id1 = id1  id2 = id2  w1 = w1  ip1 = ip1  ip2 = ip2  t1 = t1
    Addr = {root, a1}
    Root = root
    InitRoutes = {}
    ActionIDs = {id1}
    WorkAddrs = {w1}
    IPs = {ip1}
    ProposalKeys = {}
    ParamVals = {60}
    TypeIDs = {}
    Fees = {}
    InitParams <- MCInitParams
    RouteStake <- MCRouteStake
    SerStake <- MCSerStake
    Week = 1
    MinStakeTime = 2
    MaxTime = 1
    MaxTxs = 2
    MaxRestarts = 0
SPECIFICATION Spec
INVARIANT StakeAdmission
VIEW MCView
