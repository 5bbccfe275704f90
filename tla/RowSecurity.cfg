SPECIFICATION Spec
CONSTANTS
    g1 = g1
    g2 = g2
    k1 = k1
    k2 = k2
    Goroutine = {g1, g2}
    Conn = {k1, k2}
    NoUser = NoUser
    t1 = t1
    t2 = t2
    ns = ns
    admin = admin
    Value = {t1, t2, ns, admin}
    Unset = Unset
    Unsafe = Unsafe
    RLSContext <- SomeContexts
    DefaultMaxOpenConns = 2
    MaxOpenConns = {0, 1}
    MaxStmts = 2
    MaxWaits = 2
SYMMETRY Symmetry
INVARIANT ContextIsExact
INVARIANT TransactionSettled
INVARIANT WaitsLoggedOnce
