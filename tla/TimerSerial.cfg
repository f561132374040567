SPECIFICATION Spec
CONSTANTS
    l1 = l1
    l2 = l2
    r1 = r1
    r2 = r2
    Nobody = Nobody
    NoHeat = NoHeat
    NoTime = NoTime
    HeatIds = {h1, h2}
    FreeHeats = {h2}
    Lanes <- TwoLanes
    Racers <- TwoRacers
    Lineups <- ThreeLineups
    MaxRun = 2
    RequiresSerial = TRUE
    GateIsKnowable = TRUE
    GateOpenStartsRace = FALSE
    ArmIsAcked = FALSE
    TimesOut = TRUE
    ReportsOnDemand = TRUE
    ClearsTrack = TRUE
INVARIANTS
    TypeOK
    ArmedForSomething
    TimesFollowTheCar
    ResultsAreOfThisArming
    ArmedHeatIsCurrent
