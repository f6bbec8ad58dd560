SPECIFICATION FairSpec
CONSTANTS
    n1 = n1
    Tokens = {t1, t2}  NoToken = NoToken  Conns = {c1, c2}  NoConn = NoConn
    Nodes = {n1}  NodeOf <- OneNode  FailLimit = 2  Ending = {t1}
INVARIANTS
    NoMutualFallback
    RecheckSparesCurrent
PROPERTIES
    LogoutKeepsNewer
    SupersededCloses
CHECK_DEADLOCK FALSE
