CONSTANTS
    Callers = {c1, c2}
    Anchor = Anchor
    Bodies <- AllBodies
SYMMETRY CallerSymmetry
SPECIFICATION TabSpec
INVARIANTS
    TabTypeOK
    SessionBeforeNavigate
    ResultComplete
    CauseReported
    ObservedWhenAlone
