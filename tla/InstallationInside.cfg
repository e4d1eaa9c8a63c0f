SPECIFICATION Spec
CONSTANTS
    Instances = {a}
    Nobody = Nobody
    Missing = Missing
    Operator = Operator
    StateInside = TRUE
    MaxTroubles = 0
INVARIANTS
    FirstStartInstalls
