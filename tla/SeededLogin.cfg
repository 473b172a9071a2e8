\* Two accounts with rows that DatabaseFiller has written.
SPECIFICATION SeededSpec
CONSTANTS
    NumThreads = 1
    HANDLERS_PER_CQ = 1
    Addresses = {a1, a2}
    Rpcs = {r1}
    smith = smith
    jones = jones
    abbott = abbott
    n1 = n1
    Draws <- MCDraws
    Index = 2
    Emails <- MCEmails
    Passwords <- MCPasswords
    Stored <- FilledPasswords
    Conns = {d1}
    None = None
INVARIANT RegisteredPasswordAccepted
CHECK_DEADLOCK FALSE
