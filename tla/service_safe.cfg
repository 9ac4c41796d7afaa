SPECIFICATION Spec
CONSTANTS
    s1 = s1
    s2 = s2
    x1 = x1
    y1 = y1
    x2 = x2
    u1 = u1
    p1 = p1
    q1 = q1
    Service = {s1}
    Stoppable = {s1}
    Exec = {x1, y1}
    Resume = {u1}
    StopCall = {p1, q1}
    MaxRuns = 2
    Of <- MCOf
SYMMETRY Symmetry
CHECK_DEADLOCK FALSE
INVARIANTS
    TypeOK
    StateIsBacked
    FinalMeansIdle
