CONSTANTS
    o1 = o1
    o2 = o2
    t1 = t1
    t2 = t2
    s1 = s1
    s2 = s2
    Orders <- OneOrder
    Electronic <- OneOrder
    Stocked <- OneOrder
    Dropship <- OneOrder
    Qty <- OneUnitEach
    Txs <- TwoTxs
    Sessions <- TwoSessions
    InitialStock = 1
    Operations = {"callback", "cancel", "dispatch", "refund", "status", "deliver", "supplier", "odoo"}
    StateTargets = {"sale"}
    OdooStatuses = {"shipped", "delivered"}
SPECIFICATION Spec
SYMMETRY TxSymmetry
CONSTRAINTS LegsApart FewCallbacks
CHECK_DEADLOCK FALSE
INVARIANTS CancelledPaidIsRefunded ShippedUnitsWereWithheld LegsAreReflected
PROPERTIES RefundedIsFinal NeverReopened
