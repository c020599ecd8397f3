CONSTANTS
    Topics = {t1}
    Callbacks = {c1}
    t1 = t1
    t2 = t2
    Apps = {app}
    Mqtt = mqtt
    Work = work
    NoTopic = none
    StartsWith <- SameTopic
    MaxSubs = 1
    AckSlots = 4
    MaxConnects = 2
    MaxTrouble = 1
    MaxCalls = 1

SPECIFICATION Spec

INVARIANT
    AckedIsActive

CHECK_DEADLOCK FALSE
