SPECIFICATION Spec
CONSTANTS
    Policy = policy
    Masters = {policy, successor}
    Treasuries = {t1}
    NoTreasury = none
    TakeRates = {0, 1}
    TreasuryDelay = 1
    Holdings = {0, 1}
    MaxFees = 1
    MaxTime = 2
    Deployer = deployer
    Cabinets <- MCCabinets
    Conduits = {conduit}
    RulePaths = {"COLD"}
    Drafts <- MCDrafts
    TimeWord = 4
    ops = ops
    treasury = treasury
    emergency = emergency
    policy = policy
    successor = successor
    t1 = t1
    none = none
    deployer = deployer
    conduit = conduit
INVARIANTS
    TypeOK
    MandateKept
    SafeModeEscapable
PROPERTIES
    HaltFreezes
    PowersSeparated
    TreasuryWaits
