CONSTANTS
    Entries = {e1, e2, e3}
    Controllers = {owner}
    Worker = worker
    WorkCalls = {"stop"}
    Wake = wake
    Size = 2

SPECIFICATION FairSpec

PROPERTY CallsReturn

CHECK_DEADLOCK FALSE
