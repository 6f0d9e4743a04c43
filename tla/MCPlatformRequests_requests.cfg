SPECIFICATION Spec
CONSTANTS
    Workloads <- MCWorkloads
    SessionTTL = 5
    ConfirmedPlans = {"plan1", "plan2"}
    ServerEnvironment = "production"
    Catalog <- Permissions
    GrantedAtStart <- Granted
    AccessTTL = 2
    RefreshTTL = 3
    LoginWindow = 1
    MaximumAttempts = 3
    BlockDuration = 1
    AllowBearer = TRUE
    ReauthenticationWindow = 1
CHECK_DEADLOCK FALSE
INVARIANTS
    ReadyHasOfficialTenant
    KeyedAnswersAgree
    OneActiveCredential
    StaleSessionDetectable
    OneSessionPerProof
    VersionsContiguous
    AuditedOnce
    OneLiveRefresh
    ReplayRevokes
    SnapshotCoversVersion
    GuessesBounded
    HighRiskNeedsRecentLogin
    EndedClientCutOff
    LogoutEndsSession
PROPERTIES
    PendingIsCompleted
    RequestsSettle
