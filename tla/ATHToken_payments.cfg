\* two wallets; either two coins and plain transfers, any of which may vanish,
\* or the whole supply moved at once, in every lane, with nothing lost
SPECIFICATION MCSpec
CONSTANTS
    treasury = treasury
    alice = alice
    q1 = q1
    Owners = {treasury, alice}
    Treasury = treasury
    Supply = 2
    QueryIds = {q1}
    OutgoingGrace = 2
    NotificationTTL = 3
    RegistryTTL = 3
    MaxTransit = 1
    Lanes = {"plain", "registry"}
    Lossy = {"transfer", "transferBounce", "burn", "burnBounce"}
    MaxTime = 3
    MaxInFlight = 2
\* the clock is bounded and everything may be burned
CHECK_DEADLOCK FALSE
INVARIANTS TransfersTracked TimeoutsAreLate SupplyKept
PROPERTIES ImplementsLedger Settled
