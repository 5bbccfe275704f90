CONSTANTS
    w1 = w1
    w2 = w2
    i1 = i1
    i2 = i2
    h1 = h1
    h2 = h2
    tA = tA
    tB = tB
    Worker = {w1, w2}
    NoEvent = NoEvent
    Id = {i1, i2}
    Handler = {h1, h2}
    Type = {tA}
    Types <- OneType
    TypeOf <- AllTypeA
    HandlersOf <- EachHandler
    Batches <- WholeBatch
    Delays = {0}
    Lease = 2
    InitialDelay = 1
    MaxDelay = 2
    PolicyAttempts = 5
    MaxRetries = 2
    BatchSize = 2
    Ops = {"Close", "MoveToDLQ"}
SPECIFICATION Spec
SYMMETRY Symmetry
INVARIANTS
    Accounted
    ExclusiveDelivery
PROPERTY
    ImplementsAtLeastOnce
