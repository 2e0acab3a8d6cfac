CONSTANTS
    c1 = c1  c2 = c2  s1 = s1  s2 = s2
    Cos = {c1, c2}
    Loops = {s1}
    NoCo = NoCo
    NoName = NoName
    Names = {"recv"}
    MaxTime = 1
    MaxOps = 2
    Waits = {"nio"}
    Signals = {"SIGURG"}
SPECIFICATION FairSpec
PROPERTIES EveryCoroutineEnds
