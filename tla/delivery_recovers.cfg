\* Crashes and lost answers, and nobody else.
SPECIFICATION FairSpec
CONSTANTS
    Numbers = {1, 2}
    Approved = Approved
    Other = Other
    Null = Null
    Policies <- EveryPolicy
    Faults = {"transient"}
    LateKinds = {}
    MaxFaults = 3
    MaxChanges = 0
    Deadlined = FALSE
INVARIANTS
    RetriesNeverConflict
PROPERTIES
    EveryApprovalIsDelivered
CHECK_DEADLOCK FALSE
