SPECIFICATION AssistantSpec
CONSTANTS
    MaxQuestions = 2
    MaxParts = 2
    MaxRecords = 3
    MaxAsks = 3
    MaxOpen = 1
    MaxChanges = 1
    Initial = 3
    DefaultLimit = 1
    MaxLimit = 2
    Requested = {0, 9}
    Admin = TRUE
    Directions = {"next", "previous"}
    MaxChunks = 3
    Limit = 2
    Bm25Limit = 3
    VectorWeight = 6
    Bm25Weight = 4
    Scale = 60
    Hybrid = {TRUE, FALSE}
    MaxRuns = 2
    MaxScanned = 2
    WaitLimit = 4
    OcrLimit = 3
    Faults = {"delete", "backend", "upload", "worker"}
    MaxFaults = 2
    ChunkSize = 3
    Overlap = 1
    MaxText = 7
    MaxPages = 2
INVARIANTS
    ChatSafe
    PagingSafe
    SearchSafe
    OcrSafe
    ChunkingSafe
PROPERTIES
    NarrationNeverFailsASearch
    AnswersAreAuthorized
    AssistantSettles
CHECK_DEADLOCK FALSE
