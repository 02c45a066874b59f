\* One Campaign under the server's own fairness: its plan is decided in the end.
SPECIFICATION FairSpec
CONSTANTS
    first = first
    second = second
    draft = draft
    repository = repository
    Null = Null
    Campaigns = {1}
    Goal <- OneGoal
    HostAuthorized = {1}
    Outcomes <- OneOutcome
    Live <- OneOutcome
    OutcomeDependsOn <- NoOutcomeDependencies
    Proposals = {first, draft}
    Drafts = {draft}
    OutcomeOf <- AllOfOutcomeOne
    DependsOn <- NoDependencies
    RepositoryOf <- InRepository
    Merging = {}
    Authorized = {first, draft}
    Repositories = {repository}
    Unavailable = {}
    Capacity = 1
    MaxCommit = 1
    Published = {1}
    Plan <- PlanOfFirst
    Abandonable = {}
    Disturbances = 1
    MaxCheckpoints = 0
CHECK_DEADLOCK FALSE
PROPERTIES
    PlansAreDecided
