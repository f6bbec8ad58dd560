SPECIFICATION MCSpec
CONSTANTS
    Clients = {"c1", "c2"}  Requests = {"r1", "r2"}  Pushes = {"p1", "p2"}  To <- Targets  Loads <- ThreeLoads
    SendQueue = 2  ByteLimit = 3  WsInflight = 1  overLimitCloseAt = 1  MaxFaults = 1
    Faults = {"read", "write", "deadline", "rate", "decode", "expire", "panic"}
    Https = {"h1", "h2"}  Wss = {"w1"}  NodeFaults = {"open", "listen", "bus", "late", "strand"}
    Conns = {"s1"}  Closers = {"s1"}  Changers = {"s1"}  Users = {"u1", "u2"}  MaxRefs = 2
    Workers = {w1, w2}  NoJob = NoJob  Exited = Exited  NoTimer = NoTimer  Never = Never
    Interval = 1  MinInterval = 1  StaleAfter = 1  FramesPerTick = 1
    MaxRevision = 2  MaxFlips = 1  MaxFailures = 1
INVARIANTS
    BytesAccounted
    KickReaches
    ComesToRest
    StopsClean
    ValidatedOpens
    IndexConsistent
    AlwaysScheduled
PROPERTIES
    SnapshotsInOrder
SYMMETRY WorkerSymmetry
CHECK_DEADLOCK FALSE
