\* The locks of two rooms under two callers; one job of at most two targets, two
\* database errors outside the sweep and two crashes or reloads.
SPECIFICATION ProgressSpec
CONSTANTS
    c1 = c1
    c2 = c2
    e1 = e1
    e2 = e2
    Callers <- TwoCallers
    Rooms <- TwoRooms
    Entries <- TwoEntries
    NoEntry = NoEntry
    NoOne = NoOne
    j1 = j1
    t1 = t1
    t2 = t2
    NoJob = NoJob
    Jobs <- OneJob
    Targets <- TwoTargets
    ProgressValues = {20, 60}
    FaultPoints = {"mark", "get", "complete", "recover"}
    MaxFaults = 2
    MaxCrashes = 2
INVARIANTS
    TableExact
    SuccessIsReal
PROPERTIES
    ImplementsMutex
    WaitEnds
    OnlyDeadRecovered
    JobEnds
