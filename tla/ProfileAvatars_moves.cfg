\* one wallet with two avatars in this generation and one in the one before
SPECIFICATION MCSpec
CONSTANTS
    Users = {u}
    Avatars = {a, b}
    WrittenBefore = 4
    MaxKeys = 1
    MaxOldAvatars = 1
    QueryIds = {1, 2}
    Funds = 2
    StaleTTL = 3
    MaxTransit = 1
    MaxIds = 3
    MaxTime = 7
\* the clock and the ids are bounded
CHECK_DEADLOCK FALSE
INVARIANTS AvatarsPaid
PROPERTIES NeverOlder WritesDecided
