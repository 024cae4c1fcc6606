CONSTANTS
    a = a
    b = b
    c1 = c1
    c2 = c2
    c3 = c3
    Flow = {a, b}
    Parent = {1, 2, 3, 4, 5}
    Child = {c1, c2, c3}
    None = None
    Seed = Seed
    Null = Null
    IdColumn = "id"
    Plan <- Everything
    Capacity = 1
SPECIFICATION FairPaging
INVARIANTS
    TypeOK
    KeptWasExcluded
    CascadeReaches
    FailedLeftNothing
    WalkSeesStable
PROPERTIES
    NoLostUpdate
    WritesOnlyMatching
    ReplaceIsWhole
    ReportsAreTrue
    PageIsExact
    CallsEnd
CHECK_DEADLOCK FALSE
