\* Two removals cross, lanes are read one after another, and no lane fails.
SPECIFICATION RoomSpec
CONSTANTS
    own = own
    adm = adm
    ann = ann
    bob = bob
    cyd = cyd
    Admins <- TwoAdmins
    People <- ThreePeople
    Founders <- TwoPeople
    Scenes <- SettledFirst
INVARIANTS CutOff
CHECK_DEADLOCK FALSE
