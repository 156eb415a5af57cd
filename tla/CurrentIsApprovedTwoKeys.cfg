\* Two API keys: an approval and a rejection decide on rows the other one changes.
CONSTANTS
    VersionIds = {1, 2, 3}
    NoVersion = NoVersion
    Fingerprints = {f1, f2, f3}
    NoFingerprint = NoFingerprint
    PartialIndex = TRUE
    Slots = {s1, s2}
    KeyOf <- OwnKeys
SPECIFICATION RCSpec
INVARIANTS
    CurrentIsApproved
SYMMETRY Symmetry
