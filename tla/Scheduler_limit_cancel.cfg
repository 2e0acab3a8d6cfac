CONSTANTS
    c1 = c1  c2 = c2  s1 = s1  s2 = s2
    Cos = {c1}
    Loops = {s1, s2}
    NoCo = NoCo
    NoName = NoName
    Names = {"fsync"}
    MaxTime = 2
    MaxOps = 6
    Waits = {"limit"}
    Signals = {"SIGVTALRM"}
SPECIFICATION Spec
SYMMETRY OneSymmetry
INVARIANTS ResultIsOwn
CHECK_DEADLOCK FALSE
