SPECIFICATION Spec
CONSTANTS
    Managers = {m1, m2}
    Pids = {p1, p2, p3, p4}
    Nobody = Nobody
    NoPid = NoPid
    RunJar = FALSE
    StaleReuse = FALSE
    Strangers = 1
    MaxLives = 2
    MaxReused = 1
SYMMETRY Symmetry
INVARIANTS
    TypeOK
    OneProcess
    StoppedMeansGone
PROPERTY StrangersUnharmed
