SPECIFICATION Spec
CONSTANTS
    r1 = r1
    r2 = r2
    c1 = c1
    Requests = {r1, r2}
    Clients = {c1}
    ClientOf <- BothByOne
    Workers = {w1, w2}
    MaxQueue = 1
    Capacity = 2
    MaxFaults = 0
    NoReq = NoReq
    Failed = Failed
CHECK_DEADLOCK FALSE
PROPERTIES
    AnswerBelongs
