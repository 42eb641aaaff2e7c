CONSTANTS
    Requests = {r1, r2}
    Main = Main
    NoThread = NoThread
    MaxFaults = 1
    MaxRestarts = 1
SPECIFICATION FairBridge
INVARIANTS
    NoUnauthorizedTab
    DrainedIsQuiet
PROPERTIES
    DrainedExitIsClean
    SignalExits
    RestartServes
    BrowserAnswers
