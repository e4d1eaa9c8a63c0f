SPECIFICATION Spec
CONSTANTS
    Ids = {1, 2}
    Ports = {1, 2, 3}
    NoPort = 0
    Addrs = {"x", "y", "z"}
    Schemes = {"http", "https"}
    Certs = {"k", "l"}
    NoAddr = NoAddr
    Shared = 0
    Absent = Absent
    Tokens = {t, u}
    Configs <- MCConfigs
    Used = {1}
    MaxFaults = 2
    MaxCrashes = 1
SYMMETRY TokensAlike
INVARIANTS
    TypeOK
    FailureRestores
    SuccessApplies
    FileIsMemory
    OnlyRegisteredRun
