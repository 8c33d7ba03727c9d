SPECIFICATION Spec
CONSTANTS
    j1 = j1
    j2 = j2
    j3 = j3
    i1 = i1
    i2 = i2
    NoJob = NoJob
    Ids = {i1, i2}
    Jobs = {j1, j2, j3}
    IdOf <- OneRetry
    Takers = {t1, t2, t3}
    Deliveries = {d1, d2, d3}
    MaxQueue = 1
    Durable = TRUE
    DiskFaults = FALSE
    MaxRestarts = 1
SYMMETRY Symmetry
CHECK_DEADLOCK FALSE
INVARIANTS
    TypeOK
    SinglePlace
    WaitersWait
    NoJobLost
    QueuedOrLeasedIsSaved
PROPERTIES
    PutNeverOverfills
    QueueKeepsOrder
    OldestWaiterFirst
    StrandedOnlyByCancel
    KeepsPromise
