SPECIFICATION Spec
CONSTANTS
    c1 = c1
    c2 = c2
    e1 = e1
    e2 = e2
    a1 = a1
    Caller = {c1, c2}
    NoCaller = NoCaller
    Entry = {e1, e2}
    NoEntry = NoEntry
    Aud = {a1}
    AudOf <- OneAud
    Ops = {"Token"}
    Status = {}
    ExpiresIn = {0, 2}
    TTL = 3
    Timeout = 1
    RenewBefore = 1
    FailureThreshold = 2
    OpenFor = 1
    RetryBackoff = 1
    MinReissueAge = 2
    MaxTime = 2
    MaxTokens = 1
SYMMETRY SymmetryBoth
INVARIANT LockoutBounded
INVARIANT OpenCircuitCrossedOnce
