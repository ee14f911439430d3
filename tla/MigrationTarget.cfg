\* One migration, one error, no call that arrives late.
SPECIFICATION MigSpec
CONSTANTS
    LastMigration = 1
    LastRevision = 2
    MaxBreaks = 1
    MaxLate = 0
CHECK_DEADLOCK FALSE
INVARIANTS
    TargetStopped
