CONSTANTS
    c1 = c1  c2 = c2  s1 = s1  s2 = s2
    Cos = {c1, c2}
    Loops = {s1, s2}
    NoCo = NoCo
    NoName = NoName
    Names = {"recv"}
    MaxTime = 2
    MaxOps = 2
    Waits = {"nio"}
    Signals = {"SIGURG"}
SPECIFICATION Spec
SYMMETRY LoopSymmetry
INVARIANTS TypeOK EachCoroutineOnce SyscallTableWakes NotBeforeDue OnlyCancelledDropped
