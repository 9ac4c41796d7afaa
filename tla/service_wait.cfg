SPECIFICATION WaitersFairSpec
CONSTANTS
    s1 = s1
    s2 = s2
    x1 = x1
    x2 = x2
    p1 = p1
    v1 = v1
    Service = {s1, s2}
    Stoppable = {s1}
    Exec = {x1, x2}
    Resume = {}
    StopCall = {p1}
    MaxRuns = 1
    Of <- MCOf
    Wait = {v1}
CHECK_DEADLOCK FALSE
INVARIANTS
    WaitersTypeOK
    TrueMeansEnded
PROPERTIES
    WaitEnds
