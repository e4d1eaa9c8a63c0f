SPECIFICATION Spec
CONSTANTS
    Instances = {a, b}
    Nobody = Nobody
    Missing = Missing
    Operator = Operator
    StateInside = FALSE
    MaxTroubles = 2
SYMMETRY Symmetry
INVARIANTS
    TypeOK
    SomeCompleteCopy
    ConfigsKept
    OneFailureIsSurvived
PROPERTIES
    NotUnderJava
