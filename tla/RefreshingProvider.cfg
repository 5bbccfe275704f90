SPECIFICATION FairSpec
CONSTANTS
    g1 = g1
    g2 = g2
    g3 = g3
    Goroutine = {g1, g2, g3}
    Nobody = Nobody
    TTL = 1
    MaxVersion = 3
INVARIANTS
    RefresherSeesItsFetch
PROPERTIES
    MatrixNeverRegresses
    OnlyTheFetcherWaits
    Converges
