SPECIFICATION Spec
CONSTANTS
    None = None
    Corrupt = Corrupt
    k1 = k1
    k2 = k2
    p1 = p1
    p2 = p2
    DayMinutes = 2
    WeekDays = 7
    MotesPerCspr = 2
    TokenScale = 2
    MinTransferMotes = 0
    Keys = {k1, k2}
    Sandbox = {k2}
    Calls = {c1, c2}
    Bodies <- LimitBodies
    Limits <- TwoOrNone
    Policies <- PaymentPolicies
    Verifiers = {v1}
    Operators = {o1}
    Deploys = {d1}
    Payers = {p1}
    Rates <- TwoRates
    PaymentTTL = 1
    StaleAfter = 2
    ApprovalTTL = 2
    IdemTTL = 1
    MaxTime = 3
    LastCall = 2
    MaxCrashes = 0
    MaxUpdates = 0
SYMMETRY Symmetry
INVARIANT
    SpendLimitHeld
CHECK_DEADLOCK FALSE
