SPECIFICATION FairSpec
CONSTANTS
    s1 = s1
    s2 = s2
    j = j
    own = own
    other = other
    c1 = c1
    c2 = c2
    NoNode = NoNode
    Serves <- TwoServers
    Joins <- OneJoin
    ServerOf <- FirstServer
    Paths <- TwoPaths
    PathOf <- JoinApart
    Clients <- TwoClients
    Target <- OneEach
CHECK_DEADLOCK FALSE
INVARIANTS
    TypeOK
    AloneServes
    CloseEndsSessions
PROPERTY
    PeerLearns
