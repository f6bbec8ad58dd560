CONSTANTS
    NoReq = NoReq
    Users = {o, a}
    Owner = o
    ClientMsgIds = {c1}
    Req = {r1, r2}
    SessionType = "group"
    MaxMembers = 2
    Workload = {"send", "join", "quit", "kick", "read"}
    Times = {1}
    MaxMsgs = 2
SPECIFICATION Spec
SYMMETRY GroupSymmetry
INVARIANTS
    SeqContiguous
    SameAck
    SeqAllocNeverFails
    MemberWindow
PROPERTIES
    RefinesMessageLog
