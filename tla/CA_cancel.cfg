SPECIFICATION FairSpec
CONSTANTS
    build = build
    fill = fill
    Actions = {build, fill}
    Deps <- Two
    Reversible = {build, fill}
    Tolerant = {}
    Idempotent = {build}
    Workers = {w1, w2}
    NoAction = none
    Requests = {r1, r2}
    MaxRetries <- Tries
    MaxLapses <- Lapses
    MaxFaults = 1
INVARIANTS
    CancellationSound
    ReportAccounts
PROPERTIES
    CancelledComesToRest
    UndoneBeforeFoundation
CHECK_DEADLOCK FALSE
