\* Nothing fails, nobody else writes.
SPECIFICATION DistSpec
CONSTANTS
    LastRelease = 2
    LastTarget = 2
    ModTargets <- FirstMod
    Wants <- RepeatedWants
    FirstDisk <- NoModYet
    MaxCrashes = 0
    MaxEdits = 0
    MaxErrors = 0
CHECK_DEADLOCK FALSE
INVARIANTS
    JournalReadable
