CONSTANTS
    Width = 2
    Height = 2
    Levels = {0, 8, 9}
    NoRegion = NoRegion
    Bad = Bad
    Unreadable <- OnlyBad
    Scenarios <- AllScenarios
SPECIFICATION Spec
INVARIANTS
    BurstTypeOK
    RegionDecides
    StaticIsQuiet
    SeveralCycles
    RedrawLoopIsFound
