\* Three calls on one row over two connections, in either build, and a signal at any
\* moment.  Without symmetry, for the sake of the liveness properties.
SPECIFICATION BoundedService
CONSTANTS
    Calls = {c1, c2, c3}
    Users = {u1}
    UserIds = {u1}
    Amounts = {1}
    StartBalance = 2
    Cancellable = {c1}
    InitBalance <- MCInitBalance
    MaxConns = 2
    None = None
INVARIANTS PoolOpenWhileUsed DrainedBeforeExit
PROPERTIES RowsGetUnlocked SignalEndsProcess
CHECK_DEADLOCK FALSE
