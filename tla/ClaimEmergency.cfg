SPECIFICATION Spec
CONSTANTS
    Params <- MainnetParams
    MaxCopies = 3
    MaxMishaps = 2
    MaxPrints = 5
CHECK_DEADLOCK FALSE
INVARIANT
    EmergencyHasItsTimelock
