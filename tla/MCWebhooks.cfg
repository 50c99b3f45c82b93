SPECIFICATION FairSpec
CONSTANTS
    h1 = h1
    h2 = h2
    h3 = h3
    o1 = o1
    Hooks = {h1, h2, h3}
    Direct = {h3}
    CardHooks = {h1}
    Origins = {o1}
    OriginOf <- OneOrigin
    Delays <- TwoDelays
    MaxAttempts = 2
    Threshold = 3
    Window = 2
    Cooldown = 2
    MaxFaults = 1
INVARIANTS
    AcknowledgedOnce
    CallsBounded
    CardArrives
PROPERTIES
    CooldownLasts
    EveryHookSettles
CHECK_DEADLOCK FALSE
