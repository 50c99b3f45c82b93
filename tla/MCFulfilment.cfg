SPECIFICATION FairSpec
CONSTANTS
    None = None
    o1 = o1
    o2 = o2
    Orders = {o1}
    Refundable = {o1}
    RetryAfter = 1
    RecoverAfter = 2
    FailAfter = 3
    MaxAttempts = 2
    MaxFaults = 2
INVARIANTS
    PaidOnceUnlessCut
    SettledOnce
    RefundedWasUnpaid
PROPERTIES
    ClosedStays
    EveryStuckOrderCloses
    KeepsSettlement
