CONSTANTS
    f1 = f1
    hq = hq
    All = All
    None = None
    Sites <- MCSites
    Slots = {1, 2}
    Sources <- MCSources
    Ips = {ip1}
    Names = {n1, n2}
    Filters <- MCFilters
    MaxEdits = 2
    MaxFaults = 1
SPECIFICATION Spec
INVARIANTS TypeOK LeftoversExplained SettingsKept
PROPERTY EventuallyReported
CHECK_DEADLOCK FALSE
