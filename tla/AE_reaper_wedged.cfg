SPECIFICATION FairSpec
CONSTANTS
    Actions <- One
    Tasks = {"t1"}
    TaskOf <- OneTask
    Deps <- NoDeps
    Tolerant = {}
    NonIdempotent = {}
    Keys = {"desktop"}
    KeyOf <- NoKeys
    KeyLimit <- OneAtATime
    NoKey = NoKey
    MaxParallel = 2
    MaxRetries = 2
    Workers = {w1, w2}
    NoWorker = NoWorker
    Schedulers = {s1}
    Embedded = TRUE
    CrashPoints <- AnyPoint
    MaxLapses = 1
    MaxWorkerCrashes = 1
    MaxSchedulerCrashes = 0
    MaxRefusals = 0
    MaxFlushes = 0
PROPERTIES
    LapsedLeaseReclaimed
