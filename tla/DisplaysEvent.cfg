SPECIFICATION FairSpec
CONSTANTS
    Leashes = {l1, l2}
    Nothing = Nothing
    LastAward = 2
    Days <- EventDays
    MaxCommands = 3
    MaxBreaks = 1
    MaxKeys = 1
CHECK_DEADLOCK FALSE
INVARIANTS
    TypeOK
    NoPhantomConnection
    NoStepIsTakenTwice
PROPERTIES
    ForgottenScreenReturns
    AssignmentIsFollowed
