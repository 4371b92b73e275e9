SPECIFICATION Spec
CONSTANTS
    Documents = {d1}
    Unsupported = {}
    Jobs = {j1, j2}
    MaxChunks = 2
    MaxDeaths = 1
    Hybrid = TRUE
    Faults <- AllFaults
    None = None
SYMMETRY Symmetry
INVARIANTS
    ChunksOfOneRun
    ReadyIsWhole
    IndexedIsSearchable
    IngestionInvariant
PROPERTIES
    ImplementsLifecycle
CHECK_DEADLOCK FALSE
