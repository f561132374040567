SPECIFICATION Spec
CHECK_DEADLOCK FALSE
CONSTANTS
    Racers = {1, 2, 3, 4}
    RoundKinds <- DnfRounds
INVARIANTS
    DnfIsALoss
