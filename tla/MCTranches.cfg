SPECIFICATION Spec
CONSTANTS
    LotLimit = 6
    FeeWord = 8
    MinTick = 0
    MaxTick = 4
    Owners = {o1, o2}
    RangeLocs <- MCRangeLocs
    KoLocs <- MCKnockoutLocs
    LotSizes = {2}
    OffGrid = {}
    KoBits <- MCKnockoutBits
    JitThresh = 1
    InitTicks = {1}
    FeeSteps = {0}
    MaxGrowth = 0
    MaxTime = 3
    o1 = o1
    o2 = o2
SYMMETRY MCOwnerSymmetry
INVARIANTS
    TrancheFresh
    PivotBacked
    DeadTrancheRecoverable
PROPERTY
    HistoryGrows
