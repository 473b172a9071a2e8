\* Two workers, each with a window of two calls and two completions to handle, and any number of reports in between.
SPECIFICATION Spec
CONSTANTS
    Threads = {t1, t2}
    requestsPerThread = 2
    Endings = {"OK", "NOT_FOUND", "OTHER"}
    MaxCompletions = 2
    None = None
SYMMETRY ThreadSymmetry
INVARIANTS TypeOK OnlyWindowMissed AverageSkewIsBounded
CHECK_DEADLOCK FALSE
