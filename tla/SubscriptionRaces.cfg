\* Two replicas, two requests or deliveries at a time, two due dates, one fault.
CONSTANTS
    w1 = w1
    w2 = w2
    r1 = r1
    r2 = r2
    p1 = p1
    p2 = p2
    NoPlan = NoPlan
    Replica = {w1, w2}
    Request = {r1, r2}
    Plan = {p1, p2}
    Bought = p1
    Quantity <- TwoPlans
    TopUp = 1
    MaxUsage = 2
    Period = 1
    Discount = 1
    MaxTime = 2
    MaxRequests = 2
    MaxFaults = 1
SPECIFICATION FairSpec
INVARIANTS
    TypeOK
    OneAttemptPerDue
    DiscountWithinBudget
    GrantedWasPaid
    UsageConserved
PROPERTIES
    DueIsAttended
CHECK_DEADLOCK FALSE

