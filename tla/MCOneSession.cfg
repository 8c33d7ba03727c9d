SPECIFICATION FairSessionsSpec
CONSTANTS
    j1 = j1
    j2 = j2
    i1 = i1
    i2 = i2
    t1 = t1
    t2 = t2
    c1 = c1
    c2 = c2
    NoJob = NoJob
    NoDelivery = NoDelivery
    Conns = {c1}
    SessionOf <- SameSession
    Ids = {i1}
    Jobs = {j1}
    IdOf <- OneJob
    Takers = {t1, t2}
    Deliveries = {d1, d2}
    MaxQueue = 1
    Durable = FALSE
    DiskFaults = FALSE
    MaxRestarts = 0
CHECK_DEADLOCK FALSE
INVARIANTS
    SessionsTypeOK
    LeaseWatched
    ClaimExclusive
PROPERTIES
    TakenReturnsOnlyByClose
    DeadWorkerGivesBack
