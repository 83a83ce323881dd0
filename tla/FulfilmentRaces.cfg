\* Two orders and two service orders, two concurrent requests, one fault.
CONSTANTS
    o1 = o1
    o2 = o2
    c1 = c1
    c2 = c2
    t1 = t1
    t2 = t2
    n1 = n1
    n2 = n2
    s1 = s1
    s2 = s2
    NoOrder = NoOrder
    NoCall = NoCall
    Order = {o1, o2}
    Caller = {c1, c2}
    Task = {t1}
    Number = {n1, n2}
    Sim = {s1, s2}
    Outcomes = {"completed", "failed"}
    NumJobs = 2
    MaxRetries = 1
    MaxFaults = 1
SPECIFICATION Spec
SYMMETRY Symmetric
INVARIANTS
    TypeOK
    ItemsExclusive
    CompletedIsServed
PROPERTY NoChargeAfterCreate
CHECK_DEADLOCK FALSE
