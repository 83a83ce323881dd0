\* One service order, two tasks, two operators or requests, two faults.
CONSTANTS
    o1 = o1
    o2 = o2
    c1 = c1
    c2 = c2
    t1 = t1
    t2 = t2
    n1 = n1
    n2 = n2
    s1 = s1
    s2 = s2
    NoOrder = NoOrder
    NoCall = NoCall
    Order = {o1}
    Caller = {c1, c2}
    Task = {t1, t2}
    Number = {n1}
    Sim = {s1}
    Outcomes = {"completed", "failed", "stuck"}
    NumJobs = 1
    MaxRetries = 1
    MaxFaults = 2
SPECIFICATION Spec
SYMMETRY Symmetric
INVARIANTS
    OneVerdict
    ActivatedByNetwork
CHECK_DEADLOCK FALSE
