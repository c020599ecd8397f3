CONSTANTS
    Entries = {e1, e2, e3}
    Controllers = {owner}
    Worker = worker
    WorkCalls = {"start", "deinit"}
    Wake = wake
    Size = 2

SPECIFICATION MCSpec

PROPERTY StopDrains
