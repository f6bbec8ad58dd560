SPECIFICATION MCSpec
CONSTANTS
    a = a  b = b  n1 = n1  k1 = k1
    LogUsers = {a, b}  LogKeys = {k1, k2}  StartOpen = TRUE
    NoConn = NoConn  NoEntry = NoEntry  Muted = {a}
    Nodes = {n1}  Conns = {b1}  UserOf <- OneUserOf  NodeOf <- OneNode
    Participants = {a, b}  SessionType = "single"  Senders = {a}  Movers = {}
    Pusher = FALSE  Faults = {"bus", "publish"}
    MaxMsgs = 2  MaxPubs = 3  MaxChanges = 0
    BusQueue = 2  DeliverQueue = 2  SendQueue = 2
INVARIANTS
    NoSilentLoss
    AudienceOnly
    PushOrder
PROPERTIES
    EventuallyKnown
CHECK_DEADLOCK FALSE
