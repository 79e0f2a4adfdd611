\* Two messages sent one by one or together, with and without a deadline of
\* their own, one seqno that anybody may take, and time for an external to
\* die twice.
SPECIFICATION Spec
CONSTANTS
    Messages = {m1, m2}
    Validity = 1
    Tolerance = 1
    Lag = 1
    Grace = 2
    FloorGrace = 0
    Fixed = {0, 2}
    MaxChunks = 2
    MaxSeqno = 3
    MaxTime = 5
SYMMETRY Interchangeable
INVARIANTS AtMostOnce UnsentNeverRuns Accounted
CHECK_DEADLOCK FALSE
