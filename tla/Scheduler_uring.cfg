CONSTANTS
    c1 = c1  c2 = c2  s1 = s1  s2 = s2
    Cos = {c1, c2}
    Loops = {s1}
    NoCo = NoCo
    NoName = NoName
    Names = {"fsync"}
    MaxTime = 1
    MaxOps = 4
    Waits = {"uring"}
    Signals = {}
SPECIFICATION FairSpec
INVARIANTS NoPanic 
PROPERTIES  EveryCoroutineEnds
