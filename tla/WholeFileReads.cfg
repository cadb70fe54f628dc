SPECIFICATION FairSpec
CONSTANTS
    c1 = c1
    c2 = c2
    c3 = c3
    c4 = c4
    c5 = c5
    Calls <- FiveCalls
    Limit = 2
    MaxWaiting = 2
INVARIANTS
    QueueIsServed
    CounterIsReaders
PROPERTIES
    WaiterReads
