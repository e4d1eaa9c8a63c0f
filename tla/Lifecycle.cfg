SPECIFICATION Spec
CONSTANTS
    None = None
    Supervisors = {m1, m2, m3}
    Contexts = {c1, c2, c3}
    Orders = {"start", "stop", "detach", "restart", "recover", "resume", "logout", "shutdown",
              "upgrade", "rollback", "reconfigure"}
    Failing = {"lock", "save", "busy", "stop", "install", "swap", "launch"}
    Lifecycle = "managed"
    MaxFailures = 1
    MaxRestarts = 1
    RestartWindow = 1
SYMMETRY Interchangeable
INVARIANTS
    TypeOK
    SingleSupervisor
    SupervisorOwnsInstance
    KeepaliveNotLost
PROPERTIES
    AnsweringProcessKept
    KeepsPromise
