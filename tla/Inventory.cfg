CONSTANTS
    o1 = o1
    o2 = o2
    Orders <- TwoOrders
    Qty <- Mixed
    InitialStock = 2
    MaxReceived = 1
    Schedules = {TRUE, FALSE}
SPECIFICATION FairSpec
CHECK_DEADLOCK FALSE
INVARIANTS SellableIsBacked
PROPERTIES SourceTimeAdvances ShipmentsAreReconciled
