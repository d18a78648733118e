SPECIFICATION LedgerSpec
CONSTANTS
    LotLimit = 6
    FeeWord = 16
    MinTick = 0
    MaxTick = 4
    Owners = {o1}
    RangeLocs <- MCRangeLocs
    KoLocs <- MCKnockoutLocs
    LotSizes = {2}
    OffGrid <- MCRangeLocs
    KoBits <- MCKnockoutBits
    JitThresh = 0
    InitTicks = {2}
    FeeSteps = {0, 3, 4}
    MaxGrowth = 7
    MaxTime = 2
    o1 = o1
INVARIANTS
    RewardsNeverOverpaid
    ClaimsNeverOverpaid
CONSTRAINT
    LedgerOpen
