\* A key per thread: requests interleave statement by statement.
CONSTANTS
    Slots = {s1, s2}
    KeyOf <- OwnKeys
    Unmapped = Unmapped
    Unregistered = {}
    Suspended = {x}
    Versions = {v1, v2}
    FeatureIdEnforcement = "block"
    CandidateVersionPolicy = "quarantine"
    PreCheckLevels = {"low"}
    MaxTransactions = 3
SPECIFICATION Spec
CHECK_DEADLOCK FALSE
INVARIANTS
    OneOpenTask
    UsageNeverOvercounts
    ForkNeedsOverlap
PROPERTY RequestsAnswered
