SPECIFICATION FairSpec
CONSTANTS
    Documents = {d1, d2}
    Unsupported = {d2}
    Jobs = {j1, j2}
    MaxChunks = 1
    MaxDeaths = 2
    Hybrid = FALSE
    Faults = {"embed", "lock"}
    None = None
INVARIANTS
    ProcessingHasJob
PROPERTIES
    DocumentsSettle
CHECK_DEADLOCK FALSE
