SPECIFICATION FairSpec
CONSTANTS
    LotLimit = 6
    FeeWord = 8
    MinTick = 0
    MaxTick = 3
    Owners = {o1}
    RangeLocs <- MCRangeLocs
    KoLocs <- MCKnockoutLocs
    LotSizes = {0, 2}
    OffGrid = {}
    KoBits <- MCKnockoutBits
    JitThresh = 0
    InitTicks = {1}
    FeeSteps = {0}
    MaxGrowth = 0
    MaxTime = 2
    o1 = o1
INVARIANTS
    FlagMatchesPivot
    BidsNeverPassed
PROPERTIES
    ImplementsProfile
    SwapEnds
