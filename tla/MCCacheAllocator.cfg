SPECIFICATION Spec
CONSTANTS
    c1 = c1
    c2 = c2
    Conn <- TwoConns
    CacheSize = 10
    FreeOnGpu = 6
    Alignment = 2
    Sizes = {0, 2}
    MaxGrants = 4
INVARIANTS
    TypeOK
    BlocksApartUnlessRaced
    BlocksInRegionUnlessRaced
    NothingLeaksUnlessRaced
