SPECIFICATION FairSpec
CONSTANTS
    j1 = j1
    j2 = j2
    j3 = j3
    i1 = i1
    i2 = i2
    NoJob = NoJob
    Ids = {i1, i2}
    Jobs = {j1, j2}
    IdOf <- RetryOnly
    Takers = {t1, t2}
    Deliveries = {d1, d2}
    MaxQueue = 1
    Durable = TRUE
    DiskFaults = TRUE
    MaxRestarts = 1
CHECK_DEADLOCK FALSE
INVARIANTS
    DedupExact
    OnlyUnackedInside
PROPERTIES
    HandsEmpty
    KeepsFairPromise
