CONSTANTS
    c1 = c1
    p1 = p1
    s1 = s1
    s2 = s2
    Customers = {c1}
    Products = {p1}
    Dropshipped = {}
    InitialStock <- TwoUnits
    Sessions = {s1, s2}
    MaxCarts = 3
    MaxItems = 2
    MaxOrders = 2
    MaxWanted = 2
SYMMETRY AnySession
SPECIFICATION StorefrontSpec
INVARIANTS NothingOversold CartUnitsAccounted
