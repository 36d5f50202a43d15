SPECIFICATION Spec
CONSTANTS
    MaxGenerations = 2
    MaxWrappers = 3
    MaxRelaunches = 2
    MaxDowns = 1
    Faults = {}
INVARIANTS
    CompleteLeavesNobody
CHECK_DEADLOCK FALSE
