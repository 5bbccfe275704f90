SPECIFICATION Spec
CONSTANTS
    c1 = c1
    c2 = c2
    e1 = e1
    e2 = e2
    a1 = a1
    Caller = {c1, c2}
    NoCaller = NoCaller
    Entry = {e1}
    NoEntry = NoEntry
    Aud = {a1}
    AudOf <- OneAud
    Ops = {"Token", "Refresh", "Invalidate"}
    Status = {404}
    ExpiresIn = {2}
    TTL = 3
    Timeout = 2
    RenewBefore = 1
    FailureThreshold = 1
    OpenFor = 2
    RetryBackoff = 2
    MinReissueAge = 2
    MaxTime = 3
    MaxTokens = 2
SYMMETRY Symmetry
INVARIANT SingleFlight
INVARIANT ConservativeExpiry
INVARIANT ReissueSpacing
INVARIANT BackoffRespected
INVARIANT InvalidatedStaysGone
PROPERTY ImplementsTokenService
PROPERTY ServedTokenWasLive
