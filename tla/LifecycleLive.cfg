SPECIFICATION OrderSpec
CONSTANTS
    None = None
    Supervisors = {m1, m2}
    Contexts = {c1, c2, c3}
    Orders = {"start", "stop", "detach", "restart", "recover", "resume", "logout", "shutdown",
              "upgrade", "rollback", "reconfigure"}
    Failing = {"lock", "save", "busy", "stop", "install", "swap", "launch"}
    Lifecycle = "managed"
    MaxFailures = 2
    MaxRestarts = 1
    RestartWindow = 1
    MaxOrders = 2
PROPERTIES
    OperationsEnd
    DeadProcessReturns

CHECK_DEADLOCK FALSE
