\* Two publications to two targets of two files; two migrations of one world,
\* one of them out of date, one late call and one error of its own each; a room of
\* three worlds, two of which move, one error and one death of the controller.
SPECIFICATION ChangesSpec
CONSTANTS
    LastPublication = 2
    LastMachine = 2
    LastFile = 2
    Missing <- SecondMissing
    ScopeOf <- BothThenOne
    MaxUpsets = 3
    LastMigration = 2
    LastRevision = 2
    MaxLate = 1
    MaxBreaks = 1
    LastShard = 3
    MovedShards <- AllButFirst
    ClusterChanges = TRUE
    MaxSlips = 1
    MaxFalls = 1
    MaxAsks = 2
    MaxPlanEdits = 1
CHECK_DEADLOCK FALSE
INVARIANTS
    ChangesTypeOK
    AllOrNothing
    WorldServed
    Settled
    ProvisionServed
    ProvisionSettled
PROPERTIES
    NoClobber
