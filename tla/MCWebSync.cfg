SPECIFICATION FairSpec
CONSTANTS
    PerMs = 2
    FarFuture = 9
    Convs = {1, 2}
    Groups = {1}
    MaxSends = 2
    MaxDisturbances = 1
    PageMax = 2
    PullMax = 1
    ListLimit = 2
    BoundsLimit = 1
    Active = {1}
INVARIANTS
    CursorNoGap
    WalkComplete
    PushSurvivesRound
PROPERTIES
    EventuallySynced
CHECK_DEADLOCK FALSE
