SPECIFICATION FairSpec
CONSTANTS
    l1 = l1
    l2 = l2
    r1 = r1
    r2 = r2
    Nobody = Nobody
    NoHeat = NoHeat
    NoTime = NoTime
    HeatIds = {h1}
    FreeHeats = {}
    Lanes <- TwoLanes
    Racers <- TwoRacers
    Lineups <- ThreeLineups
    MaxRun = 2
    RequiresSerial = TRUE
    GateIsKnowable = TRUE
    GateOpenStartsRace = TRUE
    ArmIsAcked = TRUE
    TimesOut = TRUE
    ReportsOnDemand = TRUE
    ClearsTrack = TRUE
PROPERTIES
    KeepsTheBook
    ClockedRunEnds
    UnansweredArmIsNoticed
