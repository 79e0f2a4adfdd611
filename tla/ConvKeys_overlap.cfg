\* One window: two INTROs adopted while each other's write is under way.
SPECIFICATION KeysSpec
CONSTANTS
    w1 = w1
    w2 = w2
    Stores = {w1}
    Intros = {1, 2}
    Copies <- EachOnce
    Floors = {0}
    Backups <- NoBackups
    MaxReadRoots = 16
    MaxCalls = 2
    MaxSeq = 2
PROPERTIES AdoptedKept
CHECK_DEADLOCK FALSE
