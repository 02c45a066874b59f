\* The components with a state of their own, one at a time.
SPECIFICATION ComponentsSpec
CONSTANTS
    Sessions = {1, 2}
    Corrupt = {}
    Undeletable = {}
    MaxArchives = 1
    MaxContent = 1
    NoArchive = NoArchive
    MayFail = {2}
    MaxUsage <- OneReport
    MaxItems <- OneReport
    HasTransform = TRUE
    MaxLines = 6
    MessageBound = 2
    MaxSteps = 2
    MaxEvents = 7
    MaxLag = 2
    Activations = {1, 2}
    MaxCommits = 1
    Verifiers = {1, 2}
    Candidates = {a, b}
    AcceptanceChecks = {1, 2}
    NoCommit = NoCommit
    MaxTaskEvents = 3
    SettledAfter = {2, 3}
    PageLimit = 1
    QueueLimit = 1
    TaskRanks = {1, 2, 3, 4, 5}
    PageSize = 2
    HermesTasks = {1, 2}
    Limit = 1
    MaxRevision = 2
    Reviewers = {u1, u2, u3}
    Trusted = {u1, u2}
    Bots = {u2}
    HeadSha = h1
    Heads = {h1, h2}
    Names = {build}
    Contexts = {ci}
    Apps = {a1, a2}
    GatePage = 2
    MaxGateItems = 3
    Unknown = Unknown
    TaskEvaluations <- SomeTaskEvaluations
    ReviewEvaluations <- SomeReviewEvaluations
    Pairs = 1
    MaxRuns = 2
INVARIANTS
    AppResultIsWhole
    OpenCodeResultIsTerminal
    FrozenIsOwnWork
    VerdictsAreOfTheirCommit
    ListenersSeeNoGap
    ReadersSeeTheStatusThrough
    PagesListEachTaskOnce
    NoHintIsForgotten
    ReviewGateIsExact
    PipelineGateIsExact
    
    NothingIsLeftBehind
    TasksRunUnderOneProfile
PROPERTIES
    ReportIsArchived
CHECK_DEADLOCK FALSE
