CONSTANTS
    Requests = {r1}
    Main = Main
    NoThread = NoThread
    MaxFaults = 1
SPECIFICATION FairSpec
PROPERTIES
    DeadChromeRelaunched
