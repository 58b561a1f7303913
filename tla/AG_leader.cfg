SPECIFICATION FairSpec
CONSTANTS
    Actions = {a1}
    Params = {mild, harsh, banned}
    FirstParams <- AllMild
    LevelOf <- Levels
    Ceiling = 3
    Policies <- AllPolicies
    Requests = {u1,u2}
    Schedulers = {s1}
    MaxRetries = 2
    MaxDecisions = 2
    MaxReloads = 1
    MaxCrashes = 0
    MaxLapses = 1
    MaxRestarts = 1
    MaxAborts = 1
    mild = mild
    harsh = harsh
    banned = banned
INVARIANTS
    ConsentSound
    WaitingHasQuestion
PROPERTIES
    OnlyAnswersRelease
    EachDispatchSpends
    WaitingEnds
CHECK_DEADLOCK FALSE
