\* The production database, with uq_one_approved_version_per_feature.
CONSTANTS
    VersionIds = {1, 2, 3}
    NoVersion = NoVersion
    Fingerprints = {f1, f2, f3}
    NoFingerprint = NoFingerprint
    PartialIndex = TRUE
    Slots = {s1, s2}
    KeyOf <- OneKey
SPECIFICATION RCSpec
INVARIANT ApprovalCanBeWritten
