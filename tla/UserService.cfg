\* Four threads for two connections, each of which may lose its server.
SPECIFICATION FairLogin
CONSTANTS
    Threads = {t1, t2, t3, t4}
    Conns = {d1, d2}
    None = None
INVARIANTS EachConnectionInOnePlace NoLostWakeup ConnectionsComeBackClean
PROPERTIES ImplementsLease CallsKeepReturning
CHECK_DEADLOCK FALSE
