CONSTANTS
    w1 = w1
    w2 = w2
    i1 = i1
    i2 = i2
    h1 = h1
    h2 = h2
    tA = tA
    tB = tB
    Worker = {w1, w2}
    NoEvent = NoEvent
    Id = {i1, i2}
    Handler = {h1}
    Type = {tA, tB}
    Types <- TwoTypes
    TypeOf <- AllTypeA
    HandlersOf <- EachHandler
    Batches <- NoBatches
    Delays = {0}
    Lease = 1
    InitialDelay = 1
    MaxDelay = 1
    PolicyAttempts = 5
    MaxRetries = 2
    BatchSize = 2
    Ops = {"Close"}
SPECIFICATION FairSpec
PROPERTIES
    StopReturns
    EventuallySettled
