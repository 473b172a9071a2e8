\* One call of the filler on a row that has a balance already.
SPECIFICATION FillerSpec
CONSTANTS
    Calls = {c1}
    Users = {u1}
    UserIds = {u1}
    Amounts = {1}
    StartBalance = 1
    InitBalance <- MCInitBalance
    MaxConns = 1
    None = None
    BATCH = 1
    Grants = {2, 3}
    MaxFills = 1
    Filler = filler
INVARIANT BalanceIsAssigned
CHECK_DEADLOCK FALSE
