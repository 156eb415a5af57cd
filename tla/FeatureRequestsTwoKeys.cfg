\* Two API keys: requests interleave statement by statement.
CONSTANTS
    VersionIds = {1, 2}
    NoVersion = NoVersion
    Fingerprints = {f1, f2}
    NoFingerprint = NoFingerprint
    PartialIndex = TRUE
    Slots = {s1, s2}
    KeyOf <- OwnKeys
SPECIFICATION RCSpec
INVARIANTS
    OneApproved
    VersionsNumbered
SYMMETRY Symmetry
