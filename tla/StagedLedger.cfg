CONSTANTS
    k1 = k1
    k2 = k2
    v1 = v1
    v2 = v2
    Keys <- MCKeys
    Vals <- MCVals
    InitDb <- MCInitDb
SPECIFICATION FairSpec
INVARIANT TypeOK
PROPERTY AtomicRefinement
