SPECIFICATION Spec
CONSTANTS
    LotLimit = 64
    FeeWord = 16
    MIN_TICK <- MCMinTick
    MAX_TICK <- MCMaxTick
    RootPrice <- MCRootPrice
    Tokens <- MCTokens
    Pairs <- MCPairs
    Indexes <- MCIndexes
    OracleAt <- MCOracleAt
    NoOracle = none
    PermitOracles = {oracle}
    Specs <- MCSpecs
    TakeRates = {64, 129}
    LiqAntes = {5, 10000000}
    Improvements <- MCImprovements
    Ranges <- MCRanges
    LotSizes = {0, 1, 8}
    PriceTicks <- MCPriceTicks
    Times = {0, 300, 2560}
    MaxLots = 9
    MaxOrders = 1
    MaxCommands = 3
    base = base
    quote = quote
    small = small
    large = large
    oracle = oracle
    none = none
CHECK_DEADLOCK FALSE
INVARIANTS
    NeverLockedOut
    TakeOnceInForce
    WingsStayBacked
PROPERTY
    PermitFixed
