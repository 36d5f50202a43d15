SPECIFICATION Spec
CONSTANTS
    Files = {"src", "doc", "base"}
    Baseline = "base"
    Sensors = {"lint"}
    Globs <- MCGlobs
    Always <- MCAlways
    Module <- MCModule
    Contents <- MCContents
    Bad <- MCBad
    Opaque <- MCOpaque
    Accepts <- MCAccepts
    Start <- MCStart
    Runners = {1}
    Selections = {"full"}
    Caching = {TRUE}
    MaxEdits = 2
    MaxCommits = 3
    MaxProcesses = 3
    MaxRuns = 2
INVARIANTS CacheIsTrue ReceiptIsTrue StrictIsTrue
CHECK_DEADLOCK FALSE
