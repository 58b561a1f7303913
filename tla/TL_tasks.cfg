SPECIFICATION FairSpec
CONSTANTS
    Tasks = {"t1", "t2"}
    Actions = {1, 2, 3, 4}
    Schedulers = {s1}
    TaskOf <- TaskOfTwo
    Deps <- Chained
    Spare <- OneSpare
    Tolerant = {2}
    VerdictOf <- Mixed
    MaxReplans = 1
    MaxRetries = 0
INVARIANTS
    TasksAreSound
PROPERTIES
    TasksEndOnce
    TasksComeToRest
CHECK_DEADLOCK FALSE
