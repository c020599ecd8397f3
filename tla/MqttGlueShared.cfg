CONSTANTS
    Topics = {t1, t2}
    Callbacks = {c1, c2}
    t1 = t1
    t2 = t2
    Apps = {app}
    Mqtt = mqtt
    Work = work
    NoTopic = none
    StartsWith <- SameTopic
    MaxSubs = 2
    AckSlots = 2
    MaxConnects = 1
    MaxTrouble = 0
    MaxCalls = 3

SYMMETRY Symmetric

CONSTRAINT OneTopicLast

SPECIFICATION Spec

INVARIANTS
    TypeOK
    SameTopicAgrees
    AckedIsActive
    EarlyAckTaken
    ResentOnConnect

CHECK_DEADLOCK FALSE
