CONSTANTS
    r1 = r1
    r2 = r2
    NoRun = NoRun
    Run = {r1, r2}
    Latest = 3
    Bare = {2}
    LockKind = {"session", "transaction", "record"}
    MaxStarts = 4
    MaxPolls = 2
    MaxFaults = 2
SPECIFICATION FairSpec
INVARIANTS
    TypeOK
    OneRunAtATime
    JournalIsSchema
    JournalIsPrefix
    LockComesBack
PROPERTIES
    NeverRunAgain
    EveryRunEnds
CHECK_DEADLOCK FALSE
