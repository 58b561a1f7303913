SPECIFICATION Spec
CONSTANTS
    Actions <- One
    Tasks = {"t1"}
    TaskOf <- OneTask
    Deps <- NoDeps
    Tolerant = {}
    NonIdempotent = {1}
    Keys = {"desktop"}
    KeyOf <- NoKeys
    KeyLimit <- OneAtATime
    NoKey = NoKey
    MaxParallel = 2
    MaxRetries = 3
    Workers = {w1, w2}
    NoWorker = NoWorker
    Schedulers = {s1}
    Embedded = TRUE
    CrashPoints <- AnyPoint
    MaxLapses = 2
    MaxWorkerCrashes = 1
    MaxSchedulerCrashes = 1
    MaxRefusals = 0
    MaxFlushes = 1
INVARIANTS
    RowsAreSound
    EffectsAreReal
PROPERTIES
    OutcomeIsFinal
SYMMETRY WorkerSymmetry
