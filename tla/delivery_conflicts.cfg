\* People, late requests, failures and the deadline, all at once.
SPECIFICATION Spec
CONSTANTS
    Numbers = {1, 2}
    Approved = Approved
    Other = Other
    Null = Null
    Policies <- MergeOrReview
    Faults = {"transient", "definite", "authentication"}
    LateKinds = {"push", "create", "comment", "merge"}
    MaxFaults = 2
    MaxChanges = 2
    Deadlined = TRUE
INVARIANTS
    ReportedEffectIsReal
PROPERTIES
    ImplementsEffects
CHECK_DEADLOCK FALSE
