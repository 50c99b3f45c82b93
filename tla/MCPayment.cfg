SPECIFICATION Spec
CONSTANTS
    None = None
    Corrupt = Corrupt
    k1 = k1
    k2 = k2
    p1 = p1
    p2 = p2
    DayMinutes = 2
    WeekDays = 7
    MotesPerCspr = 2
    TokenScale = 2
    MinTransferMotes = 1
    Keys = {k1, k2}
    Sandbox = {k2}
    Calls = {c1, c2}
    Bodies <- PaymentBodies
    Limits <- TwoOrNone
    Policies <- LimitPolicies
    Verifiers = {v1, v2}
    Operators = {o1}
    Deploys = {d1, d2}
    Payers = {p1}
    Rates <- OneToOne
    PaymentTTL = 1
    StaleAfter = 2
    ApprovalTTL = 2
    IdemTTL = 1
    MaxTime = 3
    LastCall = 2
    MaxCrashes = 1
    MaxUpdates = 0
SYMMETRY Symmetry
INVARIANTS
    DeployRedeemedOnce
    DeliveredIsPaid
    SettledMatchesDelivered
    TransferIdsUnique
    InFlightWithinLimit
    DailyLimitHeld
    OneOrderPerIdempotencyKey
PROPERTIES
    KeepsPromise
CHECK_DEADLOCK FALSE
