CONSTANTS
    f1 = f1
    f2 = f2
    f3 = f3
    e1 = e1
    o1 = o1
    o2 = o2
    o3 = o3
    o4 = o4
    NoOpen = NoOpen
    Caller = {f1, f2, f3}
    Ender = {e1}
    Open = {o1, o2, o3, o4}
    Mode <- OneAtATime
    MaxCalls = 2
SPECIFICATION FairSpec
INVARIANTS
    TypeOK
    NoHandleLeaks
    OneDatabase
PROPERTY CallsEnd
CHECK_DEADLOCK FALSE
