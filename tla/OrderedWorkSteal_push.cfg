SPECIFICATION FairSpec
CONSTANTS
    a = a
    b = b
    c = c
    d = d
    Items <- MCFewItems
    Prio <- MCFewPrio
    NumLocals = 2
    LocalCapacity = 2
    WorkerCapacity = 2
    GlobalInterval = 2
    TickMax = 1
    NoItem = NoItem
PROPERTIES
    PushReturns
