SPECIFICATION OnlineSpec
CONSTANTS
    Conns = {c1}  Closers = {c1}  Changers = {}  Users = {u1}  Workers = {w1}
    NoJob = NoJob  Exited = Exited  NoTimer = NoTimer  Never = Never
    MaxRefs = 1  Interval = 1  MinInterval = 1  StaleAfter = 1
    FramesPerTick = 1  MaxRevision = 1  MaxFlips = 0  MaxFailures = 0
INVARIANTS
    QueueDrained
CHECK_DEADLOCK FALSE
