CONSTANTS
    Tracks <- MCTracks
    Shas <- MCShas
    NoSha <- MCNoSha
    LateAdd = FALSE
    MaxParallel = 1
    Bindable = {1, 2}
    Workers = {2}
    AutoBegin = FALSE
    Disciplined = {"requests"}
    Faults = {"conflict", "integration-failure"}
    MaxCommits = 3
    MaxCrashes = 1
SPECIFICATION CohortSpec
INVARIANTS MergedIsInPlan
PROPERTIES CompleteIsCertified
CHECK_DEADLOCK FALSE
