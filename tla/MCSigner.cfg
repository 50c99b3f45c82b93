SPECIFICATION FairSpec
CONSTANTS
    None = None
    Dead = Dead
    p1 = p1
    p2 = p2
    o1 = o1
    o2 = o2
    n1 = n1
    n2 = n2
    Processes = {p1}
    Orders = {o1, o2}
    Nodes = {n1, n2}
    MaxFaults = 1
INVARIANTS
    TypeOK
    PaysOnce
    SentIsRecorded
PROPERTIES
    EntryKeptUntilDelivered
    PaidIsDelivered
