SPECIFICATION FairSpec
CONSTANTS
    MaxGenerations = 2
    MaxWrappers = 3
    MaxRelaunches = 2
    MaxDowns = 1
    Faults = {"crash", "signal", "wrapper", "spawn", "launch", "block"}
INVARIANTS
    StartedOnce
    AdoptedIsKept
PROPERTIES
    ControllerReturns
CHECK_DEADLOCK FALSE
