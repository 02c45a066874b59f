\* Two executions of one Task, submitted at any time, across a restart.
SPECIFICATION RunSpec
CONSTANTS
    t1 = t1  r1 = r1  e1 = e1  e2 = e2
    Tasks = {t1}
    Repositories = {r1}
    RepositoryOf <- OneRepository
    MergeAuthorized = {t1}
    Deadlined = {t1}
    ReviewLimit <- TwoEach
    ActivationLimit <- TwoEach
    Unlimited = Unlimited
    Capacity = 1
    Processes = 2
    Owners = {1, 2}
    Executions = {e1, e2}
    MaxWaits = 1
    Resubmitted = {t1}
    PrNumbers = {1}
    Blockers = {"elapsed_budget", "failure", "conflict"}
    MaxCommit = 2
    MaxRevision = 40
    Null = Null
INVARIANTS
    OneLiveExecution
    OneWriterPerRepairBatch
PROPERTIES
    ApprovedBundleIsFinal
    CloseReleasesReviews
VIEW WithoutHistory
CHECK_DEADLOCK FALSE
SYMMETRY ExecutionSymmetry
