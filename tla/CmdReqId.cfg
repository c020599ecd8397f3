CONSTANTS
    Zones = {"z2"}
    Default = "z1"
    Nothing = Nothing
    DefaultTicks = 2
    Waits = {3}
    MaxCmd = 2
    Chunk = 3
    ReqIdLen = 3
    Cmds = {1, 2}
    Accesses <- SomeAccesses
    Requests <- SomeRequests
    MaxDeferred = 1
    IdLengths = {3}
    Limit = 6
    MinCap = 2
    Pieces = {1, 2, 5}
    MaxSent = 8
    Installers = {installer1, installer2}
    Ports <- SomePorts
    Messages = {1, 2, 3}
    Parts <- SomeParts
    NoMessage = 0
    MaxHeaders = 5
    DefaultTtl = 20
    Margin = 5

SPECIFICATION SpecAll

INVARIANT OwnReqId
