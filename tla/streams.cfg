SPECIFICATION FairSpec
CONSTANTS
    u1 = u1
    i1 = i1
    i2 = i2
    h1 = h1
    h2 = h2
    s1 = s1
    t1 = t1
    e1 = e1
    Subscriber = {u1}
    Id = {i1, i2}
    Handler = {h1, h2}
    Names <- TwinOrSibling
    Topic = {t1}
    Removable = {t1}
    Wants <- Once
    Event = {e1}
    TopicOf <- OnFirst
    Stop = {s1}
    StopKey <- StopFirst
    MaxRuns = 1
    NoHandler = NoHandler
CHECK_DEADLOCK FALSE
INVARIANTS
    TypeOK
    RegistryHonest
    StoppableByName
PROPERTIES
    RunEnds
    
