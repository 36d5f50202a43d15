CONSTANTS
    Tracks <- MCTracks
    Shas <- MCShas
    NoSha <- MCNoSha
    LateAdd = FALSE
    MaxParallel = 2
    Bindable = {1, 2}
    Workers = {1}
    AutoBegin = TRUE
    Disciplined = {"commits"}
    Faults = {"conflict", "foreign-merge", "foreign-path", "foreign-identity", "add-failure", "journal-failure", "wrapper-crash", "watch-crash"}
    MaxCommits = 2
    MaxCrashes = 0
SPECIFICATION CohortSpec
INVARIANTS CohortTypeOK ArmedBarrier CommittedWorkSurvives
PROPERTIES ForeignNeverTouched MergesUnderLease
CHECK_DEADLOCK FALSE
