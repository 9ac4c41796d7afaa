SPECIFICATION FairSpec
CONSTANTS
    b1 = b1
    g1 = g1
    g2 = g2
    q1 = q1
    q2 = q2
    BusCall = {b1}
    GrpcCall = {g1, g2}
    Cancellable = {g1}
    MayOverlap = FALSE
    Request = {q1, q2}
    Kinds <- SecondMayBeEs
    None = None
CHECK_DEADLOCK FALSE
INVARIANTS
    TypeOK
    BusBacked
PROPERTIES
    AllStops
    HandlerComesUp
