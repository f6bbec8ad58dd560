SPECIFICATION MCSpec
CONSTANTS
    c1 = c1  c2 = c2  Conns = {c1, c2}  Total = Total  user = user  NoOne = NoOne
    Slot <- UserSlot  Limit <- OneEach
    CleanupMax = 1  Faults = {"store", "lost_row", "upgrade", "deadline"}
INVARIANTS
    NoGhostRow
    SlotsBalanced
    ShutdownClean
PROPERTIES
    
    RowsFollow
CHECK_DEADLOCK FALSE
