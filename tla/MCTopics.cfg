SPECIFICATION FairSpec
CONSTANTS
    a = a
    b = b
    s1 = s1
    s2 = s2
    c1 = c1
    c2 = c2
    TopicNames <- TwoTopics
    SubPrefixes <- EmptyAndA
    Subscriptions = {s1, s2}
    Conns = {c1}
    SubscriberOf <- Same
    Buffer = 2
    MaxCachedTopics = 1
    MaxPubs = 3
CHECK_DEADLOCK FALSE
INVARIANTS
    TypeOK
    TopicOrder
    LastValueReaches
    ListedChannelsOpen
    EndedSessionUnsubscribed
PROPERTIES
    PumpsEnd
