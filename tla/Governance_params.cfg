\* Parameter governance: three routes at start (steady state, root may still
\* vote) and one account that is not a route; proposals on the route/service
\* split; no node registration; one restart of the process, one transaction
\* per block.
CONSTANTS
    root = root  a1 = a1  a2 = a2  a3 = a3  a4 = a4
    id1 = id1  id2 = id2  w1 = w1  ip1 = ip1  ip2 = ip2  t1 = t1
    Addr = {root, a1, a2, a3, a4}
    Root = root
    InitRoutes = {a1, a2, a3}
    ActionIDs = {id1, id2}
    WorkAddrs = {}
    IPs = {ip1}
    ProposalKeys <- MCProposalKeys
    ParamVals <- MCParamVals
    TypeIDs = {}
    Fees = {}
    InitParams <- MCInitParams
    RouteStake <- MCRouteStake
    SerStake <- MCSerStake
    Week = 1
    MinStakeTime = 2
    MaxTime = 1
    MaxTxs = 1
    MaxRestarts = 1
SPECIFICATION Spec
INVARIANT TypeOK VotersEligible ParamsComplementary
VIEW MCStateView
SYMMETRY MCRouteSymmetry
