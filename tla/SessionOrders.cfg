SPECIFICATION Spec
CONSTANTS
    Orders = {"start", "restart", "stop", "logout", "recover", "takeover", "resume"}
    TickleAnswers = {"failed", "ready", "competing", "loading", "idle"}
    SsoAnswers = {"valid", "expired", "unknown"}
    InitAnswers = {"accepted", "error", "unauthorized", "competing", "forced", "refused"}
    StatusAnswers = {"ready", "contended", "pending", "unauthorized", "competing", "forced", "refused"}
    SavedAtFirst = {"missing", "corrupt", "connected", "logged_out", "stopped"}
    LoginWait = 2
    InitWindow = 4
    MaxAttempts = 3
    Backoff <- MCBackoff
INVARIANTS
    TypeOK
    QuietStaysQuiet
    IntentIsDurable
    ReadyIsWanted
PROPERTIES
    TakeoverNeedsPermission
    TakeoverInTime
