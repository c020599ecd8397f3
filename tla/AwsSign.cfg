CONSTANTS
    t1 = t1
    api = api
    kvs = kvs
    hdr = hdr
    main = main
    video = video
    struct = struct
    Tasks = {t1, t2}
    Targets = {api, kvs}
    Headers = {hdr}
    Aliases = {main, video}
    Shared = {struct}
    Requests <- SomeRequests
    NoTask = no_task
    NoTarget = no_target
    NoAlias = no_alias
    MaxHosts = 2

SPECIFICATION FairSpec

INVARIANTS
    TypeOK
    SignedAsConfigured
    WireIsExact
    AnswerIsOwn
    NotResent

PROPERTY
    CallsReturn
