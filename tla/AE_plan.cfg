SPECIFICATION Spec
CONSTANTS
    Actions <- Two
    Tasks = {"t1"}
    TaskOf <- OneTask
    Deps <- Chain
    Tolerant = {2}
    NonIdempotent = {2}
    Keys = {"desktop"}
    KeyOf <- NoKeys
    KeyLimit <- OneAtATime
    NoKey = NoKey
    MaxParallel = 2
    MaxRetries = 2
    Workers = {w1, w2}
    NoWorker = NoWorker
    Schedulers = {s1}
    Embedded = TRUE
    CrashPoints <- AnyPoint
    MaxLapses = 1
    MaxWorkerCrashes = 1
    MaxSchedulerCrashes = 1
    MaxRefusals = 0
    MaxFlushes = 0
INVARIANTS
    DependenciesHold
PROPERTIES
    ImplementsPlan
SYMMETRY WorkerSymmetry
