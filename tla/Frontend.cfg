SPECIFICATION FrontendSpec
CONSTANTS
    FormRecords = {r1, r2}
    NoRecord = NoRecord
    MaxFormMoves = 5
    Files = {f1, f2, f3}
    TooLarge = {f3}
    Kept = kept
    MaxDocumentRows = 1
    MaxCalls = 3
    MaxEdits = 3
    MaxFieldRows = 2
    MaxRecord = 3
    Mine = {2, 3}
    Limit = 1
    MaxListMoves = 3
    MaxFetches = 2
    Optional = {"lastName"}
    MaxDocs = 2
    MaxReviewRows = 1
    MaxReviewMoves = 5
    Documents = {d1, d2, d3}
    Images = {d1}
    Pdfs = {d2}
    None = None
    MaxOpens = 2
    MaxRetries = 2
INVARIANTS
    FormSafe
    WalkedThroughIsSaved
    RowsSafe
    FieldsSafe
    ListSafe
    ReviewSafe
    ViewerSafe
PROPERTIES
    UntouchedSaveKeeps
    FrontendSettles
CHECK_DEADLOCK FALSE
