\* Two workers, two requests in turn and two connections, or two accounts and one dispatcher. The
\* process exits.
CONSTANTS
    Recipients = {a, b}
    a = a
    b = b
    Dispatchers = {d}
    d = d
    BatchSize = 1
    MaxAttempts = 2
    SlowPosts = 1
    MaxSignals = 2
    MaxFaults = 2
    BackgroundWorkers = {"sweep", "claims"}
    Sweeper = "sweep"
    FailureSlots = 4
    HttpRequests = {r}
    r = r
    PoolConns = 2
    MaxServed = 2
SPECIFICATION BackgroundSpec
PROPERTIES EndsInOrder SignalsAreDelivered SweepIsServed
CHECK_DEADLOCK FALSE
