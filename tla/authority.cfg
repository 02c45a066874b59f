\* One Task through its whole life under arbitrary callers; four Tasks competing for three Repositories and two places.
SPECIFICATION InstancesSpec
CONSTANTS
    t1 = t1  t2 = t2  t3 = t3  t4 = t4  r1 = r1  r2 = r2  r3 = r3
    Tasks = {t1, t2, t3, t4}
    Repositories = {r1, r2, r3}
    RepositoryOf <- ThreeRepositories
    MergeAuthorized = {t1}
    Deadlined = {t1, t2}
    ReviewLimit <- TwoEach
    ActivationLimit <- TwoEach
    Unlimited = Unlimited
    Capacity = 2
    Owners = {o1, o2}
    PrNumbers = {1, 2}
    Blockers = {"elapsed_budget"}
    MaxCommit = 2
    MaxRevision = 11
    Null = Null
INVARIANTS
    EvidenceChain
    AwaitedEvidence
    ReviewAccounting
    HistoryEndsWithTheTask
    LeaseMatchesActive
PROPERTIES
    NewestWriterPublishes
    TerminalIsFinal
    ImplementsWriterLeases
VIEW Rows
CHECK_DEADLOCK FALSE
SYMMETRY OwnerSymmetry
