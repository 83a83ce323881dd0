\* One promotion, one code, two orders, two requests at a time, one fault.
CONSTANTS
    p1 = p1
    k1 = k1
    c1 = c1
    q1 = q1
    q2 = q2
    None = None
    Promo = {p1}
    Code = {k1}
    Customer = {c1}
    Order = {1, 2}
    Request = {q1, q2}
    Kind = {"single_use_shared", "multi_use"}
    Revocable = {"claimed"}
    Attempts = 2
    MaxFaults = 1
SPECIFICATION Spec
SYMMETRY Symmetric
INVARIANTS
    TypeOK
    OfferBuysOneLine
    
    ActiveIsLinked
CHECK_DEADLOCK FALSE
