SPECIFICATION FairSpec
CONSTANTS
    q1 = q1
    q2 = q2
    c1 = c1
    c2 = c2
    Queues <- TwoQueues
    Commands <- TwoCommands
    MaxConcurrency = 2
    DefaultConcurrency = 1
    MaxRevision = 2
    MaxFaults = 3
CHECK_DEADLOCK FALSE
INVARIANTS
    RuntimeFollowsStored
    FailedRecoveryTold
PROPERTIES
    NoUnreadOverwrite
    CommandAnswered
