CONSTANTS
    Requests = {r1}
    Main = Main
    NoThread = NoThread
    MaxFaults = 1
    MaxRestarts = 1
    MaxTokens = 2
SPECIFICATION FairService
INVARIANTS
    ServiceTypeOK
    StoppedIsClean
    OldTokensAreDead
PROPERTIES
    SuccessWasAsked
    ImplementsBridge
    StopIsDone
