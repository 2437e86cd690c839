SPECIFICATION Spec
CONSTANTS
    ta = ta
    tb = tb
    a1 = a1
    a2 = a2
    b1 = b1
    Table <- AllTables
    Column <- AllColumns
    TableOf <- TableOfColumn
    BufferSize <- LargeSizes
    Queries <- LargeQueries
    CacheSize = 14
    FreeOnGpu = 14
    Alignment = 2
    MaxVersion = 0
    HostMayFail = FALSE
INVARIANTS
    OversizedInputIsRefused
