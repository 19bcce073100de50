CONSTANTS
    w1 = w1
    w2 = w2
    b1 = b1
    k1 = k1
    k2 = k2
    i1 = i1
    i2 = i2
    p1 = p1
    s1 = s1
    s2 = s2
    None = None
    Workers = {w1, w2}
    Batches = {b1}
    MaxCode = 1
    MaxUnit = 2
    Keys = {k1, k2}
    Inherited <- AnyRelease
    InheritedSize = 1
    MayFail = TRUE
    Handlers = {"create", "addUnit", "submit", "accept", "send", "startReceiving", "receiveUnit", "completeReceiving", "voidBatch", "hardDelete", "homeScan"}
    Scenes = {"batches", "terminal", "report"}
    Items = {i1, i2}
    Places = {p1}
    Fits = {p1}
    Stock = 2
    Verified = {i1}
    Days <- DaysHere
    Loops = {1, 2}
    Sessions = {s1, s2}
    MaxRequests = 3
SPECIFICATION DaySpec
SYMMETRY WorkerSymmetry
INVARIANTS
    CountsMatchItems
    CountedAsHandled
    WrittenUnderItsHeading
PROPERTIES
    CommitsWhatWasScanned
    TextStaysInItsLoop
CHECK_DEADLOCK FALSE
