\* Three API keys: a first request lives on while two others decide on versions.
CONSTANTS
    VersionIds = {1, 2, 3}
    NoVersion = NoVersion
    Fingerprints = {f1, f2, f3}
    NoFingerprint = NoFingerprint
    PartialIndex = TRUE
    Slots = {s1, s2, s3}
    KeyOf <- OwnKeys
SPECIFICATION RCSpec
INVARIANT ApprovedWasReviewed
SYMMETRY Symmetry
