SPECIFICATION MCSpec
CONSTANTS
    Suites = {"users", "groups", "conversations", "cursors", "messages", "online", "caches"}
    Users = {1, 2}
    Groups = {1, 2}
    Convs = {1, 2}
    Conns = {1, 2}
    Nodes = {1, 2}
    Times = {1, 2}
    Seqs = {1, 2}
    MaxCalls <- MCMaxCalls
    getMessagesChunk = 2
    Keys = {k}
    Values = {1, 2}
    Ttls = {0, 1}
    Nonces = {"n"}
    Services = {"svc"}
    Handlers = {1, 2}
    skew = 1
    MaxTime = 3
    cleanupBatch = 1
INVARIANTS
    StoresAgree
    CachesAgree
    NonceSpaced
CHECK_DEADLOCK FALSE
