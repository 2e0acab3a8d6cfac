SPECIFICATION Spec
CONSTANTS
    NLoops = 2
    MaxJobs = 2
    MaxStops = 2
CHECK_DEADLOCK FALSE
INVARIANTS TypeOK  StopWaited
 
