SPECIFICATION Spec
CONSTANTS
    Requests = {r1, r2}
    Earlier = {e1}
    ChildSteps = {3}
    Ops = {"child", "stepSix"}
    MaxDocuments = 1
    Faults = {}
    OneAtATime = FALSE
    None = None
SYMMETRY Symmetry
PROPERTIES
    CompletedIsLocked
CHECK_DEADLOCK FALSE
