SPECIFICATION Spec
CONSTANTS
    Requests = {r1, r2, r3, r4}
    Earlier = {e1}
    ChildSteps = {3}
    Ops = {"create", "stepOne", "stage", "remove", "close"}
    MaxDocuments = 1
    Faults = {"database", "storage"}
    OneAtATime = TRUE
    None = None
SYMMETRY Symmetry
INVARIANTS
    NoOrphanedImage
CHECK_DEADLOCK FALSE
