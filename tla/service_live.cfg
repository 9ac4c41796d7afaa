SPECIFICATION FairSpec
CONSTANTS
    s1 = s1
    s2 = s2
    x1 = x1
    y1 = y1
    x2 = x2
    u1 = u1
    p1 = p1
    q1 = q1
    Service = {s1, s2}
    Stoppable = {s1}
    Exec = {x1, y1, x2}
    Resume = {}
    StopCall = {p1}
    MaxRuns = 1
    Of <- MCOf
CHECK_DEADLOCK FALSE
PROPERTIES AcceptedStarts CancelStops
