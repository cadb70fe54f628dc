SPECIFICATION FairSpec
CONSTANTS
    j1 = j1
    j2 = j2
    e1 = e1
    e2 = e2
    r1 = r1
    Jobs <- OneJob
    Execs <- TwoExecs
    Requests <- OneRequest
    RETRY_LIMIT = 1
    Asks <- NoAsks
    Pausable <- PauseCanonical
    Outcomes <- DoneOrAway
    MaxAsks = 0
    MaxEdits = 1
    MaxOutages = 2
    MaxFaults = 1
    MaxTypings = 0
    MaxSwitches = 1
    MaxEvents = 2
CHECK_DEADLOCK FALSE
PROPERTIES
    EverythingSettles
