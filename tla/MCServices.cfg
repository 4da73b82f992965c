SPECIFICATION ServicesSpec
CONSTANTS
    Requests = {r1, r2}
    NoDir = "none"
    Dirs = {"a", "b"}
    MaxSessions = 3
    MaxAttempts = 2
    Messages = {m1}
    Posts = 3
    Twins <- MCTwins
    Window = 2
    PageSize = 2
    MaxRestarts = 1
    Notes = 2
    Batch = 2
    Tiers = {"memory", "private"}
    MaxItems = 2
    MaxFailures = 1
    MaxEdits = 3
    MaxLines = 3
    MaxTorn = 1
INVARIANTS
    ServicesTypeOK
    OneResumable
    NoFreshDuplicate
    DiscardSticks
    OneJobPerMessage
    HandoffJobIsClaimed
    KookHandledOnce
    WatermarkSound
    PageSurvives
    IngestLosesNothing
PROPERTIES
    HandlersEnd
    EveryMessageWashed
CHECK_DEADLOCK FALSE
