CONSTANTS
    Jobs = {1}
    Items = {qa}
    Trees = {t1, t2}
    NoJob = NoJob
    NoItem = NoItem
    Freezable = TRUE
    MaxPending = 1
    MaxWrappers = 2
    MaxFaults = 1
SPECIFICATION FairSpec
INVARIANTS OnceOnly VerdictIsEarned KnownOrphanIsDead
PROPERTIES IntentsDrain
CHECK_DEADLOCK FALSE
