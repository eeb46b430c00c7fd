\* A restart of the process on a bootstrap chain: root and one account, no
\* routes at start, node registration, no parameter proposals.
CONSTANTS
    root = root  a1 = a1  a2 = a2  a3 = a3  a4 = a4
    id1 = id1  id2 = id2  w1 = w1  ip1 = ip1  ip2 = ip2  t1 = t1
    Addr = {root, a1}
    Root = root
    InitRoutes = {}
    ActionIDs = {id1, id2}
    WorkAddrs = {w1}
    IPs = {ip1, ip2}
    ProposalKeys = {}
    ParamVals = {}
    TypeIDs = {t1}
    Fees = {10, 20}
    InitParams <- MCInitParams
    RouteStake <- MCRouteStake
    SerStake <- MCSerStake
    Week = 1
    MinStakeTime = 1
    MaxTime = 1
    MaxTxs = 1
    MaxRestarts = 1
SPECIFICATION Spec
PROPERTY RestartRecovers
VIEW MCView
SYMMETRY MCSymmetry
