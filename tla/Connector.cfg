CONSTANTS
    t1 = t1
    t2 = t2
    e1 = e1
    e2 = e2
    Tasks = {t1, t2}
    OdooIds = {1, 2}
    Events = {e1}
    Crons = {1}
    MaxRetries = 1
    MaxAttempts = 2
SPECIFICATION FairSpec
INVARIANTS AppliedOnce OdooFollowsStore OneOrderPerDelivery
PROPERTIES EventsSettle ImplementsHandoff
CHECK_DEADLOCK FALSE
