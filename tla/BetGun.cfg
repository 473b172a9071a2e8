\* Two workers with two calls each, and any number of reports in between.
SPECIFICATION FairSpec
CONSTANTS
    Workers = {w1, w2}
    MaxCalls = 2
    None = None
INVARIANTS NothingLost CompletedIsAllOfThem NoLatencyOwed
PROPERTY FireEnds
CHECK_DEADLOCK FALSE
