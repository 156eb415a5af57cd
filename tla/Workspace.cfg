\* The compliance workspace under the dashboard's key: two requests at a time in one worker.
CONSTANTS
    s1 = s1
    s2 = s2
    home = home
    ai = ai
    policy = policy
    None = None
    OtherStatuses = {"other"}
    ClientStatuses = {"completed", "other"}
    ClientSeverities = {"medium"}
    Unreadable = Unreadable
    Slots = {s1, s2}
    KeyOf <- TheDashboard
    WorkerOf <- TheWorker
    Workers = {"worker"}
    Backends = {"gcs", "database"}
    StartUrls <- Starts
    CompliancePaths <- Paths
    AiPages = {ai}
    Web <- Site
    RenderedAs <- SiteInBrowser
    MaxPages = 2
    Questionnaires <- HandMade
    OwnKeys <- Keys
    OpsOf <- AllAndAsync
    InitialDb <- Databases
    MaxRequests = 3
SPECIFICATION Spec
INVARIANTS
    TypeOK
    ConversionIsWhole
    SealMatchesRow
    LinksFit
    ArtifactsAreStored
PROPERTIES
    
    RequestsEnd
CHECK_DEADLOCK FALSE
