SPECIFICATION Spec
CONSTANTS
    a = a
    b = b
    c = c
    d = d
    Items <- MCItems
    Prio <- MCPrio
    NumLocals = 2
    LocalCapacity = 3
    WorkerCapacity = 4
    GlobalInterval = 2
    TickMax = 1
    NoItem = NoItem
SYMMETRY MCSymmetry
PROPERTIES
    PopAdvances
INVARIANTS
    TypeOK EachItemOnce PriorityKept LocalLenCovers LocalCapacityRespected 
