\* FRIA, incidents, oversight, features and the runtime gate, under the dashboard's key and an SDK key.
CONSTANTS
    s1 = s1
    s2 = s2
    sdk = sdk
    Slots = {s1, s2}
    Clients = {sdk}
    KeyOf <- DashboardAndSdk
    Frias = {fria}
    Incidents = {incident}
    Assignments = {oversight}
    Systems = {sysA, sysB}
    NoSystem = NoSystem
    Sections = {purpose}
    Contents = {one}
    OtherTexts = {"other"}
    Features = {feature}
    NoFeature = NoFeature
    Switched = {"fria_management"}
    MaxRecords = 1
    MaxSubmissions = 2
SPECIFICATION Spec
INVARIANTS
    TypeOK
    DerivedColumnsFit
    ApprovalMirrorsLog
PROPERTIES
    KeepsRegister
SYMMETRY Symmetry
