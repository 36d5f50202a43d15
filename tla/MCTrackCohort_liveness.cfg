CONSTANTS
    Tracks <- MCTracks
    Shas <- MCShas
    NoSha <- MCNoSha
    LateAdd = FALSE
    MaxParallel = 2
    Bindable = {}
    Workers = {1}
    AutoBegin = TRUE
    Disciplined = {"commits", "requests"}
    Faults = {"foreign-path", "foreign-identity", "add-failure", "journal-failure", "wrapper-crash"}
    MaxCommits = 2
    MaxCrashes = 1
SPECIFICATION FairCohortSpec
PROPERTIES BootstrapSettles TeardownConverges
CHECK_DEADLOCK FALSE
