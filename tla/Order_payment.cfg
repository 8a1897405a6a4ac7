CONSTANTS
    o1 = o1
    o2 = o2
    t1 = t1
    t2 = t2
    s1 = s1
    s2 = s2
    Orders <- TwoOrders
    Electronic <- FirstOrder
    Stocked <- TwoOrders
    Dropship <- FirstOrder
    Qty <- OneUnitEach
    Txs <- OneTx
    Sessions <- TwoSessions
    InitialStock = 1
    Operations = {"callback", "cancel", "status", "refund", "po", "odoo"}
    StateTargets = {"cancel"}
    OdooStatuses = {"cancel"}
SYMMETRY Symmetry
SPECIFICATION Spec
CHECK_DEADLOCK FALSE
INVARIANTS StockConserved CancelledHoldsNoStock NothingFollowsFromUnpaid
