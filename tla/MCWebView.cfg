SPECIFICATION Spec
CONSTANTS
    PerMs = 2
    FarFuture = 9
    Convs = {1, 2}
    Groups = {}
    MaxSends = 3
    MaxDisturbances = 1
    PageMax = 2
    PullMax = 1
    ListLimit = 2
    BoundsLimit = 2
    Active = {}
INVARIANTS
    PushStaysOnView
CHECK_DEADLOCK FALSE
