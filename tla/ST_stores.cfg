SPECIFICATION Spec
CONSTANTS
    a1 = a1  a2 = a2  c1 = c1  c2 = c2  c3 = c3  d1 = d1  d2 = d2
    p1 = p1  p2 = p2  p3 = p3  form = form  list = list
    Writers = {a1, a2}  Bodies = {c1, c2}  MaxAppends = 4  MaxTampers = 2
    Requests = {a1, a2}  Patterns = {c1}  Definitions = {d1, d2}  CapabilityOf <- Capabilities
    MaxRows = 2
    Clients = {a1, a2}  Contents = {c1, c2}  Facts = {d1, d2}  MaxWrites = 3
    Processes = {a1, a2}  Accounts = {c1, c2}  MaxIssued = 2  MaxCrashes = 1
    Paths = {p1, p2, p3}  Trees = {p3}  Present = {p1, p3}  FileActions = {a1, a2}
    Absent = Absent  EmptySlot = EmptySlot  MaxReruns = 1
    Committers = {a1, a2}  MaxCommits = 3  MaxKills = 1
    ApiProcesses = {p1, p2}  ApiActions = {a1, a2}  Hours = 4  Opens = 1  Closes = 4  MaxRepeats = 1
    SurfaceProcesses = {p1}  Pages = {form, list}  ElementsOf <- PageElements
    Targets <- PageTargets  Typed = "n1"  NoPage = NoPage
    MediaFiles = {p1, p2, p3}  Recorded <- Takes  Spans <- TakeSpans  CueWords = 2  CueSpan = 3
    NoFile = NoFile  MaxEdits = 2
    Calls <- PolicyCalls  Documents <- PolicyDocuments  Broken = Broken  Missing = Missing
    Unstated = Unstated  MaxFileWrites = 2  MaxInvokes = 2
    Observable = {p1, p2, p3}  Sandboxed = {p1}  Seen = {c1, c2}  Nothing = Nothing
    LeftOut = LeftOut  Postconditions <- Checks
    Aliases = {1, 2, 3}  StepOfAlias <- Steps3  Sketches <- SketchDocs  Drafts <- DraftDocs
    Repairs <- RepairDocs  CallLevel <- CallLevels  PlanCeiling = 3  PlanTicks = {a1, a2}
    MaxRepairs = 2  NoDocument = NoDocument
    TaskRuns <- RecurringRuns  TypeOf <- ValueTypes  MinSupport = 2  MinPattern = 2
    MinedTasks = 2  MaxSuccesses = 3
    Texts <- ShortTexts  LevelOf <- HeadingLevels  WindowWords = 3  OverlapWords = 1
    Nearest <- NearestChunks  BestWords <- MatchingChunks  PlaceValues = {1, 2, 40}
    RankedItems = {1, 2, 3}  Wanted = {1, 2}  NoText = NoText
    PolicyRules <- MatchedRules  Variable <- VariablePath  SensitivePaths <- PathsWatched
    SensitiveHosts <- HostsWatched  PolicyRequests <- JudgedCalls
INVARIANTS
    ChainProves
    ApiEffectsHold
    ActsOnWhatIsSeen
    EditsKeepWords
    PolicyHolds
    VerdictsAreSeen
    PlansAreSound
    OffersAreHabits
    AnswersAreGrounded
    RulesReadAsWritten
PROPERTIES
    RejectionIsForGood
    MemoryIsFaithful
    TokensAreKept
    UndoIsSafe
    CommitsAreUndoneAlone
CHECK_DEADLOCK FALSE
