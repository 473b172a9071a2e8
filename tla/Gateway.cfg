\* Three clients; a message is longer than the array, and arrives in pieces.
SPECIFICATION FairSpec
CONSTANTS
    Clients = {c1, c2, c3}
    MessageLength = 4
    UserBytes <- MCUserBytes
    BufLen = 3
    None = None
INVARIANT OnlyOwnBytes
PROPERTY EveryClientIsRead
CHECK_DEADLOCK FALSE
