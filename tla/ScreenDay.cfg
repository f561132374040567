SPECIFICATION Spec
CONSTANTS
    Heats = {1, 2, 3}
    RoundOf <- Rounds
    Added = {3}
    Seconds = 1
    AutoAdvance = TRUE
    Modes <- Days
CHECK_DEADLOCK FALSE
INVARIANTS
    TypeOK
    SummaryIsTrue
    CountdownHasReason
PROPERTIES
    HeatOnScreenIsPinned
