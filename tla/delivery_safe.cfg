SPECIFICATION Spec
CONSTANTS
    e1 = e1
    e2 = e2
    e3 = e3
    ann = ann
    bob = bob
    a1 = a1
    a2 = a2
    b1 = b1
    Event = {e1, e2}
    Subscriber = {ann, bob}
    Subscription = {a1, a2, b1}
    Filtered = {a2}
    Together = {{a1}, {a2, b1}}
    Leaver = {ann}
    Stop = {"topic"}
    Owner <- MCOwner
    StartPos <- Mixed
    Accepts <- AcceptsAll
CHECK_DEADLOCK FALSE
SYMMETRY EventSymmetry
INVARIANTS
    TypeOK
    NothingLost
    AtMostOncePerPath
    SequentialPositions
