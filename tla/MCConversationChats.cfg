CONSTANTS
    NoReq = NoReq  o = o  a = a  b = b  c = c
    Users = {o, a}
    Owner = o
    ClientMsgIds = {c1}
    Req = {r1, r2}
    SessionType = "single"
    MaxMembers = 3
    Workload = {"send", "read"}
    Times = {1, 2}
    MaxMsgs = 2
SPECIFICATION MCSpec
INVARIANTS
    AnnouncedOnce
    TimeFollowsSeq
    MemberCap
PROPERTIES
    SingleRefinesLog
    EveryRequestEnds
CHECK_DEADLOCK FALSE
