SPECIFICATION FairSpec
CONSTANTS
    Requests = {r1, r2, r3}
    Earlier = {}
    ChildSteps = {3}
    Ops = {"stepOne", "child", "remove", "close"}
    MaxDocuments = 1
    Faults = {}
    OneAtATime = FALSE
    None = None
PROPERTIES
    RequestsFinish
CHECK_DEADLOCK FALSE
