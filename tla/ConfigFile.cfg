SPECIFICATION Spec
CONSTANTS
    Ids = {"a", "shared"}
    Names <- MCNames
    Elsewhere <- MCElsewhere
    MaxTurns = 2
INVARIANTS
    TypeOK
    SavedLoads
    StaysPut
