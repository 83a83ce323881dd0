\* A cap of one card and rows for three, one charge, two requests and two deliveries at a
\* time, one change of the default, one dropped charge.
CONSTANTS
    r1 = r1
    r2 = r2
    d1 = d1
    d2 = d2
    Method = {1, 2, 3}
    Attempt = {1}
    Request = {r1, r2}
    Delivery = {d1, d2}
    Kind = {"charge.failed", "payment_intent.payment_failed", "charge.refunded"}
    MaxMethods = 1
    MaxMoves = 1
    MaxFaults = 1
SPECIFICATION Spec
SYMMETRY Symmetric
INVARIANTS
    TypeOK
    MoneyAccounted
    StagedOnce
    CapHolds
PROPERTY PromiseKept
CHECK_DEADLOCK FALSE
