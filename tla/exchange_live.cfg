SPECIFICATION ExchangeFairSpec
CONSTANTS
    q1 = q1
    ann = ann
    m1 = m1
    m2 = m2
    e1 = e1
    e2 = e2
    g1 = g1
    ch1 = ch1
    s1 = s1
    w1 = w1
    Queue = {q1}
    Receiver = {ann}
    Runner = {w1}
    Batch = {m1, m2}
    Get = {e1, g1}
    FromBegin = {g1}
    MaxRuns = 1
    Size <- MCOne
    Target <- MCTarget
    Reader <- MCReader
    Source <- MCSource
    Execution = {e1}
    Waits = {e1}
    Channel = {ch1}
    Into <- MCInto
    Request = {s1}
    Ending = {e1, g1, s1}
    Msgs <- MCMsg
CHECK_DEADLOCK FALSE
PROPERTIES
    CallsEnd
    ResultsClose
