\* Ballots on parameter proposals: three routes and the root, two
\* transactions per block, no node registration.
CONSTANTS
    root = root  a1 = a1  a2 = a2  a3 = a3  a4 = a4
    id1 = id1  id2 = id2  w1 = w1  ip1 = ip1  ip2 = ip2  t1 = t1
    Addr = {root, a1, a2, a3}
    Root = root
    InitRoutes = {a1, a2, a3}
    ActionIDs = {id1}
    WorkAddrs = {}
    IPs = {ip1}
    ProposalKeys = {"routePerc"}
    ParamVals = {60}
    TypeIDs = {}
    Fees = {}
    InitParams <- MCInitParams
    RouteStake <- MCRouteStake
    SerStake <- MCSerStake
    Week = 1
    MinStakeTime = 2
    MaxTime = 1
    MaxTxs = 2
    MaxRestarts = 0
SPECIFICATION Spec
INVARIANT BallotsCounted
VIEW MCView
