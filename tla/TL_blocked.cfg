SPECIFICATION Spec
CONSTANTS
    Tasks = {"t2"}
    Actions = {4, 5}
    Schedulers = {s1}
    TaskOf <- TaskOfTwo
    Deps <- Chained
    Spare <- OneSpare
    Tolerant = {}
    VerdictOf <- Mixed
    MaxReplans = 1
    MaxRetries = 1
INVARIANTS
    BlockedOnlyWhenNothingProceeds
CHECK_DEADLOCK FALSE
