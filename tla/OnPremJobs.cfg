CONSTANTS
    Fuels <- MCFuels
    MaxGenusFaults = 2
    Newest = 2
    MaxFiles = 3
    MaxFileFaults = 2
    Vms = {v1, v2}
    Nothing = Nothing
    MaxVmChanges = 2
    MaxSdFaults = 1
    Workers = {w1, w2}
    Labels = {l1, l2}
    Blank = Blank
    MaxWorkerChanges = 2
    MaxCheckFaults = 2
    Flashers = {t1, t2}
    MaxLevelChanges = 2
    MaxToggles = 2
    Devices = 2
SPECIFICATION Spec
INVARIANTS FailureContained UpMeansRecent PublishedAgrees FailureStaysLocal
PROPERTIES TableCatchesUp DownIsNoticed IconSettles ProcessedForGood 
CHECK_DEADLOCK FALSE
