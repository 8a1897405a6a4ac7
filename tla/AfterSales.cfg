CONSTANTS
    w1 = w1
    w2 = w2
    q1 = q1
    q2 = q2
    WebOrders = {w1, w2}
    StripeOrders = {"s1", "s2"}
    Placed <- WebOrStripe
    Price = 2
    OpeningPoints = 2
    Events <- StripeEvents
    LocalStock = 1
    MaxClaims = 2
    MaxLedger = 3
    Sessions = {q1, q2}
SYMMETRY AnySessionOrOrder
CHECK_DEADLOCK FALSE
SPECIFICATION AfterSalesSpec
INVARIANTS PointsAreCovered StripeUnitsAccounted OneActiveClaim
