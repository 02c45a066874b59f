\* A trusted App's request for changes against a lookup that fails.
SPECIFICATION GatesSpec
CONSTANTS
    Reviewers = {u1, u2}
    Trusted = {u1, u2}
    Bots = {u2}
    HeadSha = h1
    Heads = {h1}
    Names = {build}
    Contexts = {ci}
    Apps = {a1}
    GatePage = 2
    MaxGateItems = 2
INVARIANTS
    TrustedBlocksHold
CHECK_DEADLOCK FALSE
