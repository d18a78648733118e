SPECIFICATION Spec
CONSTANTS
    LotLimit = 6
    FeeWord = 16
    MinTick = 0
    MaxTick = 4
    Owners = {o1}
    RangeLocs <- MCRangeLocs
    KoLocs <- MCKnockoutLocs
    LotSizes = {2}
    OffGrid <- MCOffGrid
    KoBits <- MCKnockoutBits
    JitThresh = 0
    InitTicks = {1}
    FeeSteps = {0, 1}
    MaxGrowth = 2
    MaxTime = 1
    o1 = o1
INVARIANTS
    TypeOK
    ActiveLiquidity
    BookMatchesDepth
    DepthIsPositions
    BookmarkCoversLots
    OdometerBounded
    CrossingNeverReverts
PROPERTY
    ClockTracksGrowth
