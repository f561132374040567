SPECIFICATION FairSpec
CONSTANTS
    MaxPresses = 2
    MaxAsks = 2
    MaxFaults = 4
CHECK_DEADLOCK FALSE
INVARIANTS
    TypeOK
    PortIsNotStranded
    BadgeIsTrue
PROPERTIES
    RequestIsAnswered
    ConnectingEnds
