CONSTANTS
    r1 = r1
    r2 = r2
    a = a
    b = b
    c = c
    Requests = {r1, r2}
    MaxAddresses = 3
    Products = {"p1"}
    Partners = {"c1", "c2"}
    Emails = {a, b, c}
SYMMETRY Interchangeable
SPECIFICATION Spec
CHECK_DEADLOCK FALSE
INVARIANTS DefaultRemains VerifiedEmailIsProven
