CONSTANTS
    Width = 2
    Height = 2
    Levels = {0, 8, 9}
    NoRegion = NoRegion
    Bad = Bad
    Unreadable <- OnlyBad
    Scenarios <- Animation
SPECIFICATION Spec
INVARIANTS
    SteadyIsMotion
