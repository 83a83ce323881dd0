CONSTANTS
    r1 = r1
    r2 = r2
    w1 = w1
    w2 = w2
    NumEvents = 1
    Relays = {r1}
    Workers = {w1, w2}
    BatchSize = 2
    MaxRetries = 1
    MaxCopies = 3
    MaxFaults = 2
    MaxLost = 0
SPECIFICATION FairSpec
PROPERTIES
    PromiseKept
    EverythingSettles
CHECK_DEADLOCK FALSE
