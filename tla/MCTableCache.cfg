SPECIFICATION FairSpec
CONSTANTS
    ta = ta
    tb = tb
    a1 = a1
    a2 = a2
    b1 = b1
    Table <- AllTables
    Column <- AllColumns
    TableOf <- TableOfColumn
    BufferSize <- Sizes
    Queries <- MixedQueries
    CacheSize = 18
    FreeOnGpu = 10
    Alignment = 2
    MaxVersion = 1
    HostMayFail = TRUE
INVARIANTS
    TypeOK
    CacheCoherent
    GpuAnswerIsWhatWasLoaded
    HolesComeFromFailures
PROPERTIES
    SubmittedIsAnswered
