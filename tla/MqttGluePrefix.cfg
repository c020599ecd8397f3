CONSTANTS
    Topics = {t1, t2}
    Callbacks = {c1}
    t1 = t1
    t2 = t2
    Apps = {app}
    Mqtt = mqtt
    Work = work
    NoTopic = none
    StartsWith <- PrefixTopic
    MaxSubs = 2
    AckSlots = 4
    MaxConnects = 1
    MaxTrouble = 0
    MaxCalls = 2

SPECIFICATION Spec

PROPERTY
    UnsubscribesItsTopic

CHECK_DEADLOCK FALSE
