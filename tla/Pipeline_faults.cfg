SPECIFICATION Spec
CONSTANTS
    j1 = j1
    j2 = j2
    e1 = e1
    e2 = e2
    r1 = r1
    Jobs <- TwoJobs
    Execs <- TwoExecs
    Requests <- OneRequest
    RETRY_LIMIT = 2
    Asks <- NoAsks
    Pausable <- NoPauses
    Outcomes <- CanonicalAway
    MaxAsks = 0
    MaxEdits = 1
    MaxOutages = 1
    MaxFaults = 2
    MaxTypings = 0
    MaxSwitches = 0
    MaxEvents = 9
SYMMETRY Symmetry
CHECK_DEADLOCK FALSE
INVARIANTS OneRunAtATime NoEditForgotten
