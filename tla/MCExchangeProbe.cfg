CONSTANTS
    Commands <- Probes
    Slots = {s1, s2}
    NoSlot = NoSlot
    ClientLimit = 4
    DefaultLimit = 2
    ProbeRoom = 1
    CaptureBuffer = 2
    LaunchLimit = 4
SPECIFICATION ExSpec
INVARIANTS
    LongWindowsNotCut
