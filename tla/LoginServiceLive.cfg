\* Two RPCs that compete for two queues and, in the end, for one connection;
\* without symmetry.
SPECIFICATION FairSpec
CONSTANTS
    NumThreads = 2
    HANDLERS_PER_CQ = 1
    Addresses = {a1, a2, a3, a4}
    Rpcs = {r1, r2}
    user = user
    blank = blank
    stranger = stranger
    right = right
    wrong = wrong
    Emails <- MCEmailsOne
    Passwords <- MCPasswordsOne
    Stored <- MCStoredOne
    Conns = {d1}
    None = None
PROPERTY EveryRpcAnswered
CHECK_DEADLOCK FALSE
