\* Merit accrues cumulatively across the years of one StakerReword call.
CONSTANTS
    TotalTokens = 1000
    MinerPerc = 20
    TotalYears = 3
    RateSustainYears = 1
    ChainCreateTime = 0
    SecondsYear = 4
    Word = 1048576
    RoleNums = {1, 2}
    Params <- MCParams
    UserTime = 1
    TotalTime = 1
SPECIFICATION Spec
INVARIANT MeritAdditive
