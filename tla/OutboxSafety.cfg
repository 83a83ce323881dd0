\* Two relays and two workers on one queue, safety under faults of every kind.
CONSTANTS
    r1 = r1
    r2 = r2
    w1 = w1
    w2 = w2
    NumEvents = 2
    Relays = {r1, r2}
    Workers = {w1, w2}
    BatchSize = 2
    MaxRetries = 1
    MaxCopies = 2
    MaxFaults = 1
    MaxLost = 1
SPECIFICATION Spec
SYMMETRY Symmetric
INVARIANTS
    TypeOK
    AtMostOnceEffect
    NoSilentLoss
    DuplicatesNeedFaults
CHECK_DEADLOCK FALSE
