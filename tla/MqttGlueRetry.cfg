CONSTANTS
    Topics = {t1}
    Callbacks = {c1}
    t1 = t1
    t2 = t2
    Apps = {app}
    Mqtt = mqtt
    Work = work
    NoTopic = none
    StartsWith <- SameTopic
    MaxSubs = 1
    AckSlots = 2
    MaxConnects = 1
    MaxTrouble = 1
    MaxCalls = 2

SPECIFICATION FairSpec

PROPERTY
    RetriedUntilAcked

CHECK_DEADLOCK FALSE
