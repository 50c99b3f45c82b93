SPECIFICATION FairSpec
CONSTANTS
    None = None
    Corrupt = Corrupt
    k1 = k1
    k2 = k2
    p1 = p1
    p2 = p2
    DayMinutes = 24
    WeekDays = 7
    MotesPerCspr = 2
    TokenScale = 2
    MinTransferMotes = 2
    Keys = {k1}
    Sandbox = {}
    Calls = {c1, c2}
    Bodies <- ApprovalBodies
    Limits <- NoLimit
    Policies <- ApprovalPolicies
    Verifiers = {}
    Operators = {o1, o2}
    Deploys = {}
    Payers = {p1}
    Rates <- TwoRates
    PaymentTTL = 1
    StaleAfter = 2
    ApprovalTTL = 2
    IdemTTL = 24
    MaxTime = 4
    LastCall = 1
    MaxCrashes = 1
    MaxUpdates = 1
INVARIANTS
    ApprovalAgrees
    SuspendedKeyWaitsForNothing
PROPERTIES
    OwnerApprovedAboveThreshold
    EveryOrderCloses
CHECK_DEADLOCK FALSE
