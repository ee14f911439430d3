SPECIFICATION ReleasesSpec
CONSTANTS
    LastGameRelease = 1
    LastTry = 2
    LastBuild = 2
    LastHost = 2
    LastWorld = 2
    HostOf <- EachItsOwn
    RoomOf <- OneRoom
    LocalHosts = {2}
    MaxTroubles = 1
    MaxDowns = 1
    MaxStarts = 1
    Policies <- BothPolicies
    LastRelease = 3
    LastTarget = 2
    ModTargets <- FirstMod
    Wants <- ThreeWants
    FirstDisk <- NoModYet
    MaxCrashes = 2
    MaxEdits = 1
    MaxErrors = 1
    LastModPublication = 2
    LastInstallation = 2
    LastAttempt = 2
    MaxMishaps = 2
    MaxDelayed = 1
    MaxReboots = 1
    LastPart = 2
    LastTurn = 3
    MaxFaults = 2
    MaxPleas = 1
    MaxDeferred = 1
CHECK_DEADLOCK FALSE
INVARIANTS
    ReleasesTypeOK
    RunsWhole
    VerdictsHold
    ReleaseAtomic
    DecisionObeyed
    RecoveredClean
    SafeStart
    BackupSettled
    SourceKept
PROPERTIES
    EditKept
