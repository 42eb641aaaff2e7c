CONSTANTS
    Requests = {r1, r2}
    Main = Main
    NoThread = NoThread
    MaxFaults = 3
SPECIFICATION FairSpec
INVARIANTS
    TypeOK
    NoLeakedChrome
    NoLeakedContext
PROPERTIES
    RelaunchSparesTabs
    ImplementsLease
    CallsReturn
    Recovers
