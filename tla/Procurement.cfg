CONSTANTS
    s1 = s1
    s2 = s2
    r1 = r1
    r2 = r2
    Rfqs = {r1, r2}
    Products = {"local", "drop"}
    Dropshipped = {"drop"}
    OnHand <- Warehouse
    ListPrices <- Prices
    PricelistRules <- Pricelist
    Custom = {3}
    Requests <- Baskets
    LastDay = 2
    Validity = {0, 1}
    OrderIds = {1, 2}
    Sessions = {s1, s2}
SYMMETRY AnySessionOrRfq
CHECK_DEADLOCK FALSE
SPECIFICATION Spec
INVARIANTS OneOrderPerRfq OrderAtQuotedPrice
PROPERTY ContextSurvives
