SPECIFICATION Spec
CONSTANTS
    Racers = {1, 2, 3}
    Plan <- OneFinal
    Width = 2
    Races <- AllRaces
INVARIANTS
    TypeOK
    NobodyRacesThemself
    NoHalfFilledRound
    RunsAreKept
    RipeRoundIsFilled
    UnracedFieldIsCurrent
PROPERTIES
    RacedHeatsStand
    PickStands
    AbsentCarsAreNotDrawn
