\* Three concurrent calls on one account whose balance covers two small stakes
\* or one large one, with fewer connections than calls; one id has no row, and one
\* client may cancel.
SPECIFICATION BoundedSpec
CONSTANTS
    Calls = {c1, c2, c3}
    Users = {u1}
    UserIds = {u1, stranger}
    Amounts = {1, 2}
    StartBalance = 2
    MaxCancelled = 1
    InitBalance <- MCInitBalance
    MaxConns = 2
    None = None
SYMMETRY CallSymmetry
INVARIANTS Conservation NoOverdraft BalancesChain SuccessIsRecorded FailureIsUnrecorded
PROPERTY ImplementsLedger
CHECK_DEADLOCK FALSE
