\* A Task left to the server, its services, their failures and a restart: it is attended,
\* what is the operator's is left to the operator, and it settles.
SPECIFICATION FairRunSpec
CONSTANTS
    t1 = t1  r1 = r1  e1 = e1  e2 = e2
    Tasks = {t1}
    Repositories = {r1}
    RepositoryOf <- OneRepository
    MergeAuthorized = {t1}
    Deadlined = {t1}
    ReviewLimit <- TwoEach
    ActivationLimit <- TwoEach
    Unlimited = Unlimited
    Capacity = 1
    Processes = 2
    Owners = {1, 2}
    Executions = {e1, e2}
    MaxWaits = 2
    Resubmitted = {}
    PrNumbers = {1}
    Blockers = {"elapsed_budget", "failure", "conflict"}
    MaxCommit = 2
    MaxRevision = 40
    Null = Null
INVARIANTS
    NoTaskIsStranded
PROPERTIES
    OperatorWaitsResumeByRetry
    Settles
VIEW WithoutHistory
CHECK_DEADLOCK FALSE
