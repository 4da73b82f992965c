SPECIFICATION Spec

CONSTANTS
    w1 = w1
    w2 = w2
    j1 = j1
    j2 = j2
    tree = tree
    NoJob = NoJob
    Workers <- TwoWorkers
    Jobs <- TwoJobs
    WorktreeOf <- SharedTwo
    TTL = 5
    MaxAttempts = 2
    CliTimeout = 1
    RenewInterval = 1
    SafetyMargin = 1
    PollInterval = 1
    RestartDelay = 1
    CancelGrace = 1
    CleanupMayFail = FALSE
    StraysPossible = FALSE

SYMMETRY WorkersAndJobs

INVARIANT TypeOK
INVARIANT LeaseOutlivesProvider
INVARIANT WorktreeExclusion
INVARIANT ReportFollowsJoin
INVARIANT ReleasedMeansStopped
INVARIANT OneHolderPerAttempt
PROPERTY PromiseKept
