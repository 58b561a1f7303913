SPECIFICATION FairSpec
CONSTANTS
    Actions <- Two
    Tasks = {"t1"}
    TaskOf <- OneTask
    Deps <- NoDeps
    Tolerant = {}
    NonIdempotent = {2}
    Keys = {"desktop"}
    KeyOf <- NoKeys
    KeyLimit <- OneAtATime
    NoKey = NoKey
    MaxParallel = 1
    MaxRetries = 2
    Workers = {w1}
    NoWorker = NoWorker
    Schedulers = {s1}
    Embedded = FALSE
    CrashPoints <- AfterClaim
    MaxLapses = 0
    MaxWorkerCrashes = 1
    MaxSchedulerCrashes = 0
    MaxRefusals = 1
    MaxFlushes = 0
PROPERTIES
    ReadyEventuallyEnds
