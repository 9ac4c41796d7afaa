SPECIFICATION FairSpec
CONSTANTS
    c1 = c1
    c2 = c2
    main = main
    left = left
    right = right
    srv = srv
    Name = {main, left, right, srv}
    Default = srv
    Path <- Paths
    Client = {c1, c2}
    Calls <- Discipline
    MaxTopics = 4
    MaxRuns = 2
CHECK_DEADLOCK FALSE
INVARIANTS
    TypeOK
    SubscribeCovers
    NothingLeaks
PROPERTIES
    ImplementsRegistry
    RunEndStopsAll
