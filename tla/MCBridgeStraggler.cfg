CONSTANTS
    Requests = {r1}
    Main = Main
    NoThread = NoThread
    MaxFaults = 0
    MaxRestarts = 0
SPECIFICATION BridgeSpec
PROPERTIES
    ExitLeavesNoChrome
