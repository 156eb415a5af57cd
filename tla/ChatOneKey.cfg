\* One API key: requests run one after the other once authenticated.
CONSTANTS
    Slots = {s1, s2}
    KeyOf <- OneKey
    Unmapped = Unmapped
    Unregistered = {u}
    Suspended = {}
    Versions = {v1, v2}
    FeatureIdEnforcement = "warn"
    CandidateVersionPolicy = "allow_with_warning"
    PreCheckLevels = {"low", "high"}
    MaxTransactions = 3
SPECIFICATION Spec
CHECK_DEADLOCK FALSE
INVARIANTS
    TypeOK
    SightingsCounted
    UsageMatchesCompleted
PROPERTY UngovernedRunLeavesOpenTask
SYMMETRY Symmetry
