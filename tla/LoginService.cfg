\* Two queues with one handler each.  There are as many addresses as handlers
\* can be alive at a time: the registered ones and one for each RPC.
SPECIFICATION Spec
CONSTANTS
    NumThreads = 2
    HANDLERS_PER_CQ = 1
    Addresses = {a1, a2, a3, a4}
    Rpcs = {r1, r2}
    user = user
    blank = blank
    stranger = stranger
    right = right
    wrong = wrong
    Emails <- MCEmails
    Passwords <- MCPasswords
    Stored <- MCStored
    Conns = {d1, d2}
    None = None
SYMMETRY LoginSymmetry
INVARIANTS OneReferencePerHandler AlwaysListening ReplyFitsRequest ConnectionsComeBackClean EnoughConnections
PROPERTY AnsweredOnce
CHECK_DEADLOCK FALSE
