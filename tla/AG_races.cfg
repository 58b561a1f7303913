SPECIFICATION Spec
CONSTANTS
    Actions = {a1}
    Params = {mild, harsh}
    FirstParams <- AllMild
    LevelOf <- Levels
    Ceiling = 3
    Policies <- OnlyConfirm
    Requests = {u1, u2}
    Schedulers = {s1, s2}
    MaxRetries = 2
    MaxDecisions = 2
    MaxReloads = 0
    MaxCrashes = 1
    MaxLapses = 1
    MaxRestarts = 0
    MaxAborts = 0
    mild = mild
    harsh = harsh
    banned = banned
INVARIANTS
    OneOpenQuestion
PROPERTIES
    FailedIsFinal
CHECK_DEADLOCK FALSE
