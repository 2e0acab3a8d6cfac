SPECIFICATION HookedSpec
CONSTANTS
    Callers = {c1, c2}
    MaxLimit = 1
    MaxCalls = 2
    Overlaps <- MCOverlaps
    Commands = {"FIONBIO"}
    Lengths = {2}
    Vectors <- MCVectors
    Sleepers = {s1, s2}
    SleepTimes = {0, 3}
    PollTimeouts = {0, 3, 40}
    SelectTimeouts = {0, 3, 20}
    Deadlines = {0, 1, 3}
    Micros = 2
    WaitSlice = 2
    MaxAge = 41
    MaxTimed = 2
CHECK_DEADLOCK FALSE
INVARIANTS
    HookedTypeOK BytesAccounted ModeRestored  ConnectTruth
    NotEarly LockTruth
PROPERTY EveryCallReturns
