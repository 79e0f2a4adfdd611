\* Two introductions in one shard: one window with three faults that meets
\* one it cannot open yet, and two windows with one fault.
SPECIFICATION FairSpec
CONSTANTS
    n1 = n1
    n2 = n2
    w1 = w1
    w2 = w2
    Windows = {w1, w2}
    Nonces = {n1, n2}
    PartsBeforeFold = 1
    Shards = {s1}
    Builds = {1, 2}
    OpensAt <- OneLater
    Scenes <- MCScenes
    MaxEntries = 2
INVARIANTS NothingPassedOver NoncesKept
PROPERTIES ContactsArrive
CHECK_DEADLOCK FALSE
