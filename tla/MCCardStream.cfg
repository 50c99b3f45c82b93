SPECIFICATION FairSpec
CONSTANTS
    c1 = c1
    f1 = f1
    f2 = f2
    k1 = k1
    d1 = d1
    o1 = o1
    Calls = {c1}
    Feeds = {f1, f2}
    Buckets = {k1, d1}
    BucketOf <- KeyOrDashboard
    Orders = {o1}
    OrderOf <- OneOrder
    MaxPerKey = 1
    MaxTotal = 2
    MaxMoves = 4
    MaxFaults = 1
INVARIANTS
    SlotsAreStreams
    ToldTheTruth
PROPERTIES
    OutcomeIsTold
    SlotsComeBack
