SPECIFICATION FairSpec
CONSTANTS
    a1 = a1  a2 = a2  cloud = cloud  local = local  c1 = c1  c2 = c2  none = none
    Replicas = {a1, a2}  Nobody = none  Ghost = c1  MaxLapses = 2  MaxDeaths = 2  MaxBatches = 2
    Jobs = {a1, a2}  Connections = {c1, c2}  None = none  MaxRecoveries = 1
    Providers = {cloud, local}  Prefer <- PreferCloud  Remote = {cloud}  Callers = {a1, a2}
    Threshold = 2  Window = 3  MaxOutages = 2
    MaxSpeeches = 3
PROPERTIES
    LeadersServe
    JobsAreAccountedFor
    RoutesRecover
    SpeechEnds
CHECK_DEADLOCK FALSE
