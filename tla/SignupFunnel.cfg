\* One owner, two requests at a time, Didit or Stripe, one fault.
CONSTANTS
    a = a
    b = b
    n1 = n1
    r1 = r1
    r2 = r2
    None = None
    Owner = {a}
    Number = {n1}
    OpenOrder = {1, 2}
    Session = {1}
    Request = {r1, r2}
    Customer = {1, 2}
    Order = {1, 2}
    Deployments = {{"kyc"}, {"card"}}
    Ttl = 1
    MaxTime = 2
    MaxFaults = 1
SPECIFICATION Spec
SYMMETRY Symmetric
INVARIANTS
    TypeOK
    KycBeforeOrder
    NumberNotShared
    HoldsInReach
PROPERTY PromiseKept
CONSTRAINT Straight
CHECK_DEADLOCK FALSE
