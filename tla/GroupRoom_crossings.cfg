\* Removals and admissions of two admins that cross, with a broadcast lost, a
\* lane that fails to be read or a restart.
SPECIFICATION RoomSpec
CONSTANTS
    own = own
    adm = adm
    ann = ann
    bob = bob
    cyd = cyd
    Admins <- TwoAdmins
    People <- ThreePeople
    Founders <- TwoPeople
    Scenes <- Crossings
INVARIANTS EarliestKey RoomAgrees
PROPERTIES LandedStands WritesKept ControlDecided
CHECK_DEADLOCK FALSE
