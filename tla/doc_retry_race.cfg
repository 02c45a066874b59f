\* A pipeline wait re-observed by its timer and retried by the operator.
SPECIFICATION RunSpec
CONSTANTS
    t1 = t1  r1 = r1  e1 = e1  e2 = e2
    Tasks = {t1}
    Repositories = {r1}
    RepositoryOf <- OneRepository
    MergeAuthorized = {t1}
    Deadlined = {t1}
    ReviewLimit <- TwoEach
    ActivationLimit <- TwoEach
    Unlimited = Unlimited
    Capacity = 1
    Processes = 2
    Owners = {1, 2}
    Executions = {e1, e2}
    MaxWaits = 1
    Resubmitted = {}
    PrNumbers = {1}
    Blockers = {"elapsed_budget", "failure", "conflict"}
    MaxCommit = 2
    MaxRevision = 40
    Null = Null
PROPERTIES
    ApprovedBundleSurvivesRetry
VIEW WithoutHistory
CHECK_DEADLOCK FALSE
SYMMETRY ExecutionSymmetry
