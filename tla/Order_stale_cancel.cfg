CONSTANTS
    o1 = o1
    o2 = o2
    t1 = t1
    t2 = t2
    s1 = s1
    s2 = s2
    Orders <- OneOrder
    Electronic <- OneOrder
    Stocked <- OneOrder
    Dropship <- NoOrder
    Qty <- OneUnitEach
    Txs <- OneTx
    Sessions <- TwoSessions
    InitialStock = 1
    Operations = {"callback", "cancel"}
    StateTargets = {}
    OdooStatuses = {}
SPECIFICATION Spec
CHECK_DEADLOCK FALSE
INVARIANT CancelledPaidIsRefunded
