SPECIFICATION Spec
CONSTANTS
    Actions <- Three
    Tasks = {"t1"}
    TaskOf <- OneTask
    Deps <- NoDeps
    Tolerant = {}
    NonIdempotent = {}
    Keys = {"desktop"}
    KeyOf <- DesktopTwo
    KeyLimit <- OneAtATime
    NoKey = NoKey
    MaxParallel = 2
    MaxRetries = 1
    Workers = {w1, w2}
    NoWorker = NoWorker
    Schedulers = {s1}
    Embedded = TRUE
    CrashPoints <- AfterClaim
    MaxLapses = 1
    MaxWorkerCrashes = 1
    MaxSchedulerCrashes = 0
    MaxRefusals = 0
    MaxFlushes = 0
INVARIANTS
    DispatchIsBounded
SYMMETRY WorkerSymmetry
