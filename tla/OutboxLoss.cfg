\* One relay, one worker, no fault but a frame lost with the connection.
CONSTANTS
    r1 = r1
    r2 = r2
    w1 = w1
    w2 = w2
    NumEvents = 1
    Relays = {r1}
    Workers = {w1}
    BatchSize = 2
    MaxRetries = 1
    MaxCopies = 1
    MaxFaults = 0
    MaxLost = 1
SPECIFICATION Spec
INVARIANT PublishedReachedBroker
CHECK_DEADLOCK FALSE
