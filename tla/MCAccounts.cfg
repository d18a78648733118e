SPECIFICATION Spec
CONSTANTS
    Owners = {alice, bob}
    Pockets = {0, 1}
    Ether = ether
    Tokens = {safe, taxed}
    SafeTokens = {safe}
    TokenFee = 1
    TipUnit = 2
    TakeOfTips = 1
    Funds <- MCFunds
    Treasury = bob
    Cmds <- MCCmds
    Messages <- MCMessages
    Anyone = anyone
    NoTip = notip
    AnySender = sender
    Attached = {0, 1}
    WordMax = 2
    MaxTime = 1
    alice = alice
    bob = bob
    safe = safe
    taxed = taxed
INVARIANTS
    TypeOK
    Balanced
    BankedInAccounts
    StreamsInOrder
PROPERTIES
    OnlyOwnerPays
    RouterConfined
