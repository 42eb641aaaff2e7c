CONSTANTS
    Callers = {c1, c2}
    Anchor = Anchor
    Bodies <- FewBodies
SPECIFICATION TabSpec
INVARIANTS
    ObservedInFront
