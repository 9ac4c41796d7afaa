SPECIFICATION FairSpec
CONSTANTS
    q1 = q1
    ann = ann
    bob = bob
    m1 = m1
    m2 = m2
    r1 = r1
    r2 = r2
    r3 = r3
    w1 = w1
    w2 = w2
    Queue = {q1}
    Receiver = {ann, bob}
    Runner = {w1, w2}
    Batch = {m1, m2}
    Get = {r1}
    FromBegin = {}
    MaxRuns = 2
    Size <- MCSize
    Target <- MCTarget
    Reader <- MCReader
    Source <- MCSource
CHECK_DEADLOCK FALSE
INVARIANTS
    BatchFIFO
    NoStaleQueue
PROPERTIES
    AcceptedIsRegistered
    GetEnds
    CancelEmpties
