\* One job, one database error, in the sweep.
SPECIFICATION JobsSpec
CONSTANTS
    j1 = j1
    t1 = t1
    NoJob = NoJob
    Jobs <- OneJob
    Targets <- OneTarget
    ProgressValues = {}
    FaultPoints = {"sweep"}
    MaxFaults = 1
    MaxCrashes = 0
INVARIANTS
    SuccessIsReal
CHECK_DEADLOCK FALSE
