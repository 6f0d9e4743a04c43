SPECIFICATION Spec
CONSTANTS
    Workloads <- RetryWorkloads
    SessionTTL = 5
    ConfirmedPlans = {"plan1", "plan2"}
    ServerEnvironment = "production"
    Catalog <- Permissions
    GrantedAtStart <- Granted
    AccessTTL = 2
    RefreshTTL = 3
    LoginWindow = 2
    MaximumAttempts = 3
    BlockDuration = 1
    AllowBearer = TRUE
    ReauthenticationWindow = 1
CHECK_DEADLOCK FALSE
INVARIANTS
    ConflictNeedsAnother
