SPECIFICATION FairSpec
CONSTANTS
    Messages = {m1, m2}
    NoTurn = NoTurn
    QueueSize = 1
    MaxCrashes = 2
    MaxStops = 1
INVARIANTS
    TypeOK
    FollowupsDurable
    CommittedOnce
    ContinuationsConfirmed
    SupersededStops
PROPERTIES
    ShownAfterRestart
    Served
    ResumeConcludes
CHECK_DEADLOCK FALSE
