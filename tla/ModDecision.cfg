\* One mod publication to two installations, one restart of an agent, no errors.
SPECIFICATION ModSpec
CONSTANTS
    LastModPublication = 1
    LastInstallation = 2
    LastAttempt = 1
    MaxMishaps = 0
    MaxDelayed = 0
    MaxReboots = 1
CHECK_DEADLOCK FALSE
INVARIANTS
    DecidedForward
