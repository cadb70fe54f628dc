SPECIFICATION Spec
CONSTANTS
    j1 = j1
    j2 = j2
    e1 = e1
    e2 = e2
    r1 = r1
    Jobs <- TwoJobs
    Execs <- TwoExecs
    Requests <- OneRequest
    RETRY_LIMIT = 1
    Asks <- NoAsks
    Pausable <- NoPauses
    Outcomes <- AllDone
    MaxAsks = 0
    MaxEdits = 0
    MaxOutages = 0
    MaxFaults = 0
    MaxTypings = 1
    MaxSwitches = 0
    MaxEvents = 9
SYMMETRY Symmetry
CHECK_DEADLOCK FALSE
PROPERTIES ManualTypeKept
