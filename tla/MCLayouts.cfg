SPECIFICATION Spec
CONSTANTS
    Variables <- MCVariables
    Core <- MCCore
    MaxEntries = 4
INVARIANT VerdictExact
CHECK_DEADLOCK FALSE
