SPECIFICATION Spec
CONSTANTS
    None = None
    Corrupt = Corrupt
    k1 = k1
    k2 = k2
    p1 = p1
    p2 = p2
    DayMinutes = 24
    WeekDays = 7
    MotesPerCspr = 2
    TokenScale = 2
    MinTransferMotes = 0
    Keys = {k1}
    Sandbox = {}
    Calls = {c1}
    Bodies <- ApprovalBodies
    Limits <- NoLimit
    Policies <- ApprovalPolicies
    Verifiers = {v1}
    Operators = {o1}
    Deploys = {d1}
    Payers = {p1}
    Rates <- OneToOne
    PaymentTTL = 3
    StaleAfter = 6
    ApprovalTTL = 6
    IdemTTL = 24
    MaxTime = 8
    LastCall = 1
    MaxCrashes = 0
    MaxUpdates = 0
SYMMETRY Symmetry
INVARIANT
    ExpiredOnlyAfterWindow
CHECK_DEADLOCK FALSE
