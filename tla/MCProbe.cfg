CONSTANTS
    Watches <- TwoWatches
    Values = {Null, a}
    Undefined = Undefined
    Duration = 7
    Step = 1
    MaxLag = 1
    MaxChanges = 2
SPECIFICATION FairProbe
INVARIANTS
    ProbeTypeOK
    ReportIsAPath
    SlowPageIsReported
    NothingMadeUp
    WatchesAgree
PROPERTIES
    ProbeReturns
