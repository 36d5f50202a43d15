CONSTANTS
    Jobs <- MCJobs
    Items = {qa}
    Trees = {t1}
    NoJob = NoJob
    NoItem = NoItem
    Freezable = FALSE
    MaxPending = 1
    MaxWrappers = 1
    MaxFaults = 0
SPECIFICATION Spec
INVARIANTS JobsTypeOK OneReusableJob CertifiedIsBacked
PROPERTIES ImplementsJobContract
CHECK_DEADLOCK FALSE
