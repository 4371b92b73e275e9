SPECIFICATION Spec
CONSTANTS
    Requests = {r1, r2, r3}
    Earlier = {e1}
    ChildSteps = {3}
    Ops = {"create", "stepOne", "stepSix", "reopen", "remove", "stage", "close"}
    MaxDocuments = 1
    Faults = {"database", "connection", "storage", "redis", "crash"}
    OneAtATime = TRUE
    None = None
SYMMETRY Symmetry
INVARIANTS
    ProfileImageStored
    SerialInvariant
CHECK_DEADLOCK FALSE
