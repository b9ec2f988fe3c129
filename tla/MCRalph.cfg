SPECIFICATION Spec
CONSTANTS
    N = 2
    Flaky = {0}
    MaxReset = 1
    Backoff = 2
    Poll = 1
    MaxUnavailable = 1
    Retries = 1
    MinIteration = 1
    MaxIterations = 2
    MaxDuration = 2
    FastStreak = 2
    HardStreak = 2
    MaxSuspends = 1
    MinAwake = 1
    MaxFaults = 1
    Configurations <- MCConfigurations

    
PROPERTIES
    WaitsAreNeeded
    AlwaysRunsAgain
CHECK_DEADLOCK FALSE
