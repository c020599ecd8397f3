CONSTANTS
    Ops = {app, pub, work, mqtt}
    Mqtt = mqtt
    Initer = ctl
    Controllers = {ctl, other}
    MaxInits = 2

SPECIFICATION FairSpec

INVARIANTS
    TypeOK
    BusyCounts
    OpsFindItValid
    HandlerFindsItValid
    OneTeardown

PROPERTY
    DeinitReturns

CHECK_DEADLOCK FALSE
