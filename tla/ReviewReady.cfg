SPECIFICATION ReviewSpec
CONSTANTS
    Optional = {"lastName"}
    MaxDocs = 1
    MaxReviewRows = 0
    MaxReviewMoves = 4
INVARIANTS
    ReadyIsAccepted
CHECK_DEADLOCK FALSE
