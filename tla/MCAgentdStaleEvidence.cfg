SPECIFICATION Spec

CONSTANTS
    w1 = w1
    w2 = w2
    j1 = j1
    j2 = j2
    tree = tree
    NoJob = NoJob
    Workers <- TwoWorkers
    Jobs <- OneJob
    WorktreeOf <- SharedOne
    TTL = 5
    MaxAttempts = 2
    CliTimeout = 1
    RenewInterval = 1
    SafetyMargin = 1
    PollInterval = 1
    RestartDelay = 1
    CancelGrace = 1
    CleanupMayFail = FALSE
    StraysPossible = TRUE

PROPERTY RecoveryFindsProviderStopped
