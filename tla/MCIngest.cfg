SPECIFICATION FairSpec
CONSTANTS
    Docs = {1}
    States = {"PA", "OR"}
    StateOf <- StateOfOne
    Requests <- JustPA
    MaxAttempts = 3
    Restores = FALSE
    MaxVersion = 3
    MaxRun = 3
    MaxFaults = 2
INVARIANTS
    TypeOK
    IngestInv
    RowsKeepTheirBytes
    NaturalKey
PROPERTIES
    KeepsThePromise
    StoresOnlyNews
    RunEnds
