SPECIFICATION Spec
CHECK_DEADLOCK FALSE
CONSTANTS
    Racers = {1, 2, 3, 4}
    RoundKinds <- Rounds
INVARIANTS
    TypeOK
    UnevenRoundIsSetAside
PROPERTIES
    NobodyRacesAlone
    RoundEnds
