\* One job, nothing fails.
SPECIFICATION JobsSpec
CONSTANTS
    j1 = j1
    t1 = t1
    NoJob = NoJob
    Jobs <- OneJob
    Targets <- OneTarget
    ProgressValues = {}
    FaultPoints = {}
    MaxFaults = 0
    MaxCrashes = 0
INVARIANTS
    CancelHonoured
CHECK_DEADLOCK FALSE
