SPECIFICATION MCSpec
CONSTANTS
    Conns = {c1, c2}  Closers = {}  Changers = {c1}  Users = {u1}  Workers = {w1}
    NoJob = NoJob  Exited = Exited  NoTimer = NoTimer  Never = Never
    MaxRefs = 2  Interval = 2  MinInterval = 1  StaleAfter = 2
    FramesPerTick = 1  MaxRevision = 2  MaxFlips = 1  MaxFailures = 1
INVARIANTS
    NoLostWake
PROPERTIES
    EventuallyCurrent
CHECK_DEADLOCK FALSE
