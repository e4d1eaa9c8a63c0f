SPECIFICATION LiveSpec
CONSTANTS
    Orders = {"takeover", "resume"}
    TickleAnswers = {"failed", "ready", "competing", "loading", "idle"}
    SsoAnswers = {"valid", "expired", "unknown"}
    InitAnswers = {"accepted", "error", "unauthorized", "forced"}
    StatusAnswers = {"ready", "pending"}
    SavedAtFirst = {"connected", "stopped"}
    LoginWait = 1
    InitWindow = 2
    MaxAttempts = 2
    Backoff <- MCBackoff
PROPERTY LoginIsDecided
