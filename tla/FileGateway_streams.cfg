CONSTANTS
    w1 = w1
    w2 = w2
    k1 = k1
    k2 = k2
    short = short
    long = long
    Workers = {w1, w2}
    Keys = {k1, k2}
    Nested = {k2}
    Folder = Folder
    Versions = {short, long}
    SizeOf <- MCSizeOf
    Big = 1
    MaxKeys = 2
    Clients = {c1}
    None = None
    MaxPuts = 3
    MaxDeletes = 1
    MaxCrashes = 1
SPECIFICATION Spec
SYMMETRY AnyWorker
CONSTRAINT GetOrList
INVARIANTS AckedKept BodyIsDescribed ListingComplete
PROPERTY StoreSpec
CHECK_DEADLOCK FALSE
