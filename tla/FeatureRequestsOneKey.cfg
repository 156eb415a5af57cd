\* One API key: the requests of a tenant serialise, and the atomic lifecycle is implemented.
CONSTANTS
    VersionIds = {1, 2, 3}
    NoVersion = NoVersion
    Fingerprints = {f1, f2, f3}
    NoFingerprint = NoFingerprint
    PartialIndex = FALSE
    Slots = {s1, s2}
    KeyOf <- OneKey
SPECIFICATION RCSpec
INVARIANTS
    TypeOK
    OneApproved
    CurrentIsApproved
    StampsMatchStatus
    ApprovedNeedsDecision
    RejectionStands
    ExecutableUntilCommit
PROPERTY Spec
