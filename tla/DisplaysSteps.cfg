SPECIFICATION Spec
CONSTANTS
    Leashes = {l1, l2}
    Nothing = Nothing
    LastAward = 2
    Days <- CeremonyDay
    MaxCommands = 3
    MaxBreaks = 0
    MaxKeys = 0
CHECK_DEADLOCK FALSE
INVARIANTS
    EveryStepIsTaken
