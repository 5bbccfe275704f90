SPECIFICATION Spec
CONSTANTS
    None = None
    Unreadable <- Blank
    Tokens <- AllTokens
    Requests <- AllRequests
    Routes <- AllRoutes
    Keyring = {"k1"}
    Tenants <- AllTenants
    CanonicalUUID <- UUIDs
    CanonicalNames = {"sales", "old-sales"}
    TTL = 2
    Leeway = 1
    MaxTime = 5
INVARIANTS
    NoDowngrade
    TenantIsAttested
    AuthorizedRole
    ServiceTokenInItsPlace
    ForbiddenOnlyToTheKnown
PROPERTY
    CredentialsInTheirTime
