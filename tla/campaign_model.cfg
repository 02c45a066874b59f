\* Two proposals of the guardian and one the planner drafts, a checkpoint and one disturbance.
SPECIFICATION Spec
CONSTANTS
    first = first
    second = second
    draft = draft
    repository = repository
    Null = Null
    Campaigns = {1}
    Goal <- OneGoal
    HostAuthorized = {1}
    Outcomes <- OneOutcome
    Live <- OneOutcome
    OutcomeDependsOn <- NoOutcomeDependencies
    Proposals = {first, second, draft}
    Drafts = {draft}
    OutcomeOf <- AllOfOutcomeOne
    DependsOn <- NoDependencies
    RepositoryOf <- InRepository
    Merging = {}
    Authorized = {first, draft}
    Repositories = {repository}
    Unavailable = {}
    Capacity = 1
    MaxCommit = 1
    Published = {1}
    Plan <- PlanOfBoth
    Abandonable = {}
    Disturbances = 1
    MaxCheckpoints = 1
CHECK_DEADLOCK FALSE
INVARIANTS
    AcceptedIsProven
    SupersededWorkIsUnowned
