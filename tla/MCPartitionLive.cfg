CONSTANTS
    l1 = l1
    l2 = l2
    l3 = l3
    h1 = h1
    h2 = h2
    NoLease = NoLease
    Nobody = Nobody
    ChanCap = 1
    LeaseSecs = {1}
    ShutdownSecs = 1
    DrainSecs = 1
    Rows = {1, 2, 3}
    Leases = {l1}
    Handlers = {h1}
    BatchSize = 2
    Maxes = {1}
SPECIFICATION LiveSpec
PROPERTIES ImplementsQueue EveryRowServed PendingDeletesFlushed ShutdownEnds
