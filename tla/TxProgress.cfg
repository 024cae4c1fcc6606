CONSTANTS
    f1 = f1
    f2 = f2
    q1 = q1
    q2 = q2
    q3 = q3
    c1 = c1
    c2 = c2
    s1 = s1
    s2 = s2
    s3 = s3
    NoFlow = NoFlow
    NoQuerier = NoQuerier
    NoScope = NoScope
    Flow = {f1, f2}
    Querier = {q1, q2, q3}
    Connection = {c1, c2}
    ConnectionOf <- Connections
    Scope = {s1, s2, s3}
    Plan <- ProgressPlans
    MaxFaults = 1
SPECIFICATION FairSpec
PROPERTY AwaitsEnd
CHECK_DEADLOCK FALSE
