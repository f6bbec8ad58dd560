SPECIFICATION Spec
CONSTANTS
    b = b  n1 = n1
    LogUsers = {a, b}  LogKeys = {k1, k2}  StartOpen = TRUE
    NoConn = NoConn  NoEntry = NoEntry  Muted = {}
    Nodes = {n1}  Conns = {b1}  UserOf <- OneUserOf  NodeOf <- OneNode
    Participants = {a}  SessionType = "group"  Senders = {a}  Movers = {b}
    Pusher = FALSE  Faults = {}
    MaxMsgs = 2  MaxPubs = 2  MaxChanges = 1
    BusQueue = 2  DeliverQueue = 2  SendQueue = 2
INVARIANT
    SkippedOnlyIfNoticeLost
SYMMETRY KeySymmetry
CHECK_DEADLOCK FALSE
