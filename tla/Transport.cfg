SPECIFICATION Spec
CONSTANTS
    c1 = c1
    c2 = c2
    Caller = {c1, c2}
    dest = dest
    other = other
    Entry = {dest, other}
    NoEntry = NoEntry
    MaxTokens = 3
    Dest = dest
    home = home
    away = away
    Url = {home, away}
    Home = home
    AnyHost = AnyHost
    Status = {200, 302, 401}
    MaxHops = 1
SYMMETRY Symmetry
INVARIANT CredentialStaysHome
INVARIANT RetryIsProgress
INVARIANT ResponsesAccounted
