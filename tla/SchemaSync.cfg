SPECIFICATION Spec
CONSTANTS
    None = None
    Plan <- Plans
    MaxRuns = 3
CHECK_DEADLOCK FALSE
INVARIANTS
    TypeOK
    PlansRun
    ReachesTarget
PROPERTIES
    RowsSurvive
    ReferencesHold
