SPECIFICATION Spec
CONSTANTS
    Requests = {r1, r2}
    Earlier = {e1}
    ChildSteps = {2, 4}
    Ops <- AllOps
    MaxDocuments = 1
    Faults = {"database", "storage"}
    OneAtATime = FALSE
    None = None
SYMMETRY Symmetry
INVARIANTS
    FailureLeavesNoCopy
    EveryDocumentIsQueued
CHECK_DEADLOCK FALSE
