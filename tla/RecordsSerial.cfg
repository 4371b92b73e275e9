SPECIFICATION Spec
CONSTANTS
    Requests = {r1, r2, r3}
    Earlier = {e1}
    ChildSteps = {3}
    Ops <- AllOps
    MaxDocuments = 2
    Faults = {"database", "queue", "crash"}
    OneAtATime = TRUE
    None = None
SYMMETRY Symmetry
INVARIANTS
    DocumentFilesStored
    OneSubmissionPerStep
    CompletedAtAgrees
PROPERTIES
    ImplementsLifecycle
    ProgressOnlyAdvances
    QueuedOnlyAfterCommit
CHECK_DEADLOCK FALSE
