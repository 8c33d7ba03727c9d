SPECIFICATION ScopedSpec
CONSTANTS
    j1 = j1
    j2 = j2
    j3 = j3
    j4 = j4
    c1 = c1
    c2 = c2
    x = x
    NoJob = NoJob
    Names = {x}
    Ids <- ScopedIds
    Jobs = {j1, j2, j3, j4}
    IdOf <- Scopes
    ConnOf <- Connections
    NameOf <- SameName
    Conns = {c1, c2}
    MaxSids = 2
    Takers = {t1}
    Deliveries = {d1}
    MaxQueue = 2
    Durable = TRUE
    DiskFaults = FALSE
    MaxRestarts = 1
CHECK_DEADLOCK FALSE
PROPERTIES
    MergedWithOwn
