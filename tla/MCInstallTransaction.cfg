CONSTANTS
    NTargets = 2
    NCovered = 1
    MaxIds = 3
    MaxFaults = 2
SPECIFICATION Spec
INVARIANTS Recoverable FailureIsUndone
PROPERTIES LedgerIsUpsert
CHECK_DEADLOCK FALSE
