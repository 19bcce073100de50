SPECIFICATION LanesSpec
CONSTANTS
    a = a
    b = b
    i1 = i1
    i2 = i2
    j1 = j1
    j2 = j2
    l1 = l1
    l2 = l2
    b1 = b1
    b2 = b2
    u1 = u1
    u2 = u2
    None = None
    Users = {a, b}
    Ids = {i1, i2}
    Jobs = {j1, j2}
    MaxKills = 1
    Workloads <- Days
    Letters = {l1, l2}
    Batches = {b1, b2}
    Units = {u1, u2}
    Pieces = 2
    MaxScans = 2
    MaxItems = 2
    MaxLost = 1
SYMMETRY Same
CHECK_DEADLOCK FALSE
INVARIANTS
    CountedOncePerScan
    ShownIsOfTheBatch
PROPERTIES
    SignedOutStaysOut
