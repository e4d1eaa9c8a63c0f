SPECIFICATION Spec
CONSTANTS
    Managers = {m1, m2}
    Pids = {p1, p2, p3}
    Nobody = Nobody
    NoPid = NoPid
    RunJar = TRUE
    StaleReuse = TRUE
    Strangers = 1
    MaxLives = 2
    MaxReused = 1
SYMMETRY Symmetry
PROPERTY StrangersUnharmed
