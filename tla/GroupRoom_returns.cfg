\* A person is admitted, removed by another admin, and the first writes again.
SPECIFICATION RoomSpec
CONSTANTS
    own = own
    adm = adm
    ann = ann
    bob = bob
    cyd = cyd
    Admins <- TwoAdmins
    People <- ThreePeople
    Founders <- JustAnn
    Scenes <- Returns
INVARIANTS RemovedStayOut
CHECK_DEADLOCK FALSE
