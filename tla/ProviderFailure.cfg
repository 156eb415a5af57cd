\* A provider failure on the request that recorded the version.
CONSTANTS
    Slots = {s1, s2}
    KeyOf <- OneKey
    Unmapped = Unmapped
    Unregistered = {}
    Suspended = {}
    Versions = {v1, v2}
    FeatureIdEnforcement = "warn"
    CandidateVersionPolicy = "allow_with_warning"
    PreCheckLevels = {"low", "high"}
    MaxTransactions = 1
SPECIFICATION Spec
CHECK_DEADLOCK FALSE
INVARIANT ProviderFailureEvidenced
