SPECIFICATION SourcesSpec
CONSTANTS
    Loops <- MCLoops
    Fds = {0, 5}
    Waiters = {1, 2}
    MaxWaits = 2
    Clients = {k1, k2}
    SqSize = 2
    MaxOps = 3
    Timers = TRUE
CHECK_DEADLOCK FALSE
INVARIANTS SourcesTypeOK  OwnResultOnce
 
