\* One call that can bet on either of two rows, at first less than it stakes, and
\* two calls of the filler.
SPECIFICATION FairFiller
CONSTANTS
    Calls = {c1}
    Users = {u1, u2}
    UserIds = {u1, u2}
    Amounts = {1, 2}
    StartBalance = 1
    InitBalance <- MCInitBalance
    MaxConns = 2
    None = None
    BATCH = 2
    Grants = {1}
    MaxFills = 2
    Filler = filler
INVARIANTS MoneyConserved AllOrNothing
PROPERTY NobodyBlocksForGood
CHECK_DEADLOCK FALSE
