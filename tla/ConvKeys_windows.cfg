\* Two windows, two INTROs with copies, one number the chain already has.
SPECIFICATION KeysSpec
CONSTANTS
    w1 = w1
    w2 = w2
    Stores = {w1, w2}
    Intros = {1, 2}
    Copies <- TwoIntros
    Floors = {0}
    Backups <- OneBackup
    MaxReadRoots = 1
    MaxCalls = 2
    MaxSeq = 1
SYMMETRY Windows
INVARIANTS SeqOnce CleanIsSaved
PROPERTIES NeverRolledBack
CHECK_DEADLOCK FALSE
