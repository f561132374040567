SPECIFICATION FairSpec
CONSTANTS
    Heats = {h1, h2}
    Nothing = Nothing
    MaxQueue = 1
    MaxWrites = 2
    MaxFaults = 3
CHECK_DEADLOCK FALSE
INVARIANTS
    TypeOK
    NothingIsLostWhileConnected
PROPERTIES
    DisplayCatchesUp
