SPECIFICATION Spec
CONSTANTS
    i1 = i1
    i2 = i2
    w1 = w1
    w2 = w2
    NumJobs = 2
    Effects <- MCEffects
    Workers <- MCWorkers
    MaxAttempts <- MCMaxAttempts
    Selections <- MCSelections
    StartDelays <- MCStartDelays
    RetryDelay = 1
    MaxRetries = 1
    MaxCrashes = 1
INVARIANT
    IdempotentJobs
CHECK_DEADLOCK FALSE
