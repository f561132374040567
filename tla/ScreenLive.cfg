SPECIFICATION FairSpec
CONSTANTS
    Heats = {1, 2, 3}
    RoundOf <- Rounds
    Added = {3}
    Seconds = 2
    AutoAdvance = TRUE
    Modes <- RestlessDays
CHECK_DEADLOCK FALSE
PROPERTIES
    CountdownEnds
    FinishIsAnnounced
