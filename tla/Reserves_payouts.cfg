\* Deposits, unstakes and the publications they discount, which land, bounce
\* and are flushed, with and without emergency exits and unjams.
\* Two envelopes, three query ids, swaps that pay late, in pieces or never,
\* burns that are lost or refused, and the sweep.
SPECIFICATION ReservesSpec
CONSTANTS
    Funds = 2
    FeeFull = 2
    Cap = 2
    Amort = 1
    FlushMin = 2
    AbsorbWindow = 2
    UnjamGrace = 2
    MaxTransit = 1
    Emergencies = {TRUE, FALSE}
    MaxTime = 3
    MaxSeq = 2
    MaxFees = 3
    MaxPayouts = 4
    TrancheAth = 2
    TrancheCount = 2
    StartMultiplier = 2
    BaseTranchePrice = 3
    ExcessRefundMin = 5
    TonFlushMin = 3
    PeriodCount = 3
    PeriodLength = 2
    PeriodUnlock = 2
    MaxElapsed = 8
    Envelope = 2
    RefundMin = 1
    Floor = 1
    MinOut = 1
    DeadlineAhead = 0
    RefundGrace = 0
    SwapGrace = 1
    BurnGrace = 1
    SweepGrace = 2
    BurnTransit = 1
    MaxAth = 2
    MaxQuery = 3
    MaxEnvelopes = 2
INVARIANTS VaultBacked PayoutsExact PricedByTranche BooksBacked
PROPERTIES PayoutsEnd CyclesEnd
CHECK_DEADLOCK FALSE
