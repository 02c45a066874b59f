\* One Campaign under the server's own fairness, with one disturbance and a merge.
SPECIFICATION FairSpec
CONSTANTS
    first = first
    second = second
    draft = draft
    repository = repository
    Null = Null
    Campaigns = {1}
    Goal <- OneGoal
    HostAuthorized = {1}
    Outcomes <- OneOutcome
    Live <- OneOutcome
    OutcomeDependsOn <- NoOutcomeDependencies
    Proposals = {first, draft}
    Drafts = {draft}
    OutcomeOf <- AllOfOutcomeOne
    DependsOn <- NoDependencies
    RepositoryOf <- InRepository
    Merging = {first}
    Authorized = {first, draft}
    Repositories = {repository}
    Unavailable = {}
    Capacity = 1
    MaxCommit = 2
    Published = {1}
    Plan <- PlanOfFirst
    Abandonable = {}
    Disturbances = 1
    MaxCheckpoints = 0
CHECK_DEADLOCK FALSE
PROPERTIES
    CampaignsSettle
