\* Two versions of one Goal, and in the first a proposal that depends on another's merge.
SPECIFICATION Spec
CONSTANTS
    first = first
    second = second
    draft = draft
    repository = repository
    Null = Null
    Campaigns = {1, 2}
    Goal <- OneGoal
    HostAuthorized = {1}
    Outcomes <- OneOutcome
    Live <- OneOutcome
    OutcomeDependsOn <- NoOutcomeDependencies
    Proposals = {first, second}
    Drafts = {}
    OutcomeOf <- AllOfOutcomeOne
    DependsOn <- SecondAfterFirst
    RepositoryOf <- InRepository
    Merging = {first}
    Authorized = {first, second}
    Repositories = {repository}
    Unavailable = {}
    Capacity = 1
    MaxCommit = 2
    Published = {1}
    Plan <- PlanOfOne
    Abandonable = {1}
    Disturbances = 0
    MaxCheckpoints = 0
CHECK_DEADLOCK FALSE
INVARIANTS
    NothingRunsAfterAbandonment
    DependentsWaitForDelivery
PROPERTIES
    BasesNeverMove
    LateAnswersChangeNothing
