SPECIFICATION FairSpec
CONSTANTS
    s1 = s1
    s2 = s2
    s3 = s3
    s4 = s4
    s5 = s5
    Subs <- FiveSubs
    MaxConcurrency = 3
    MaxFaults = 2
INVARIANTS
    SlotsAreJobs
    NobodyStranded
    SubscribersAreApplied
PROPERTIES
    ConcurrencyHeld
    FetchedIsWorked
