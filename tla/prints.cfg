SPECIFICATION FairSpec
CONSTANTS
    s1 = s1
    d1 = d1
    w1 = w1
    w2 = w2
    h1 = h1
    h2 = h2
    t1 = t1
    t2 = t2
    x = x
    None = None
    r1 = r1
    Stations = {s1}
    Workers = {w1, w2}
    Displays = {d1}
    Handhelds = {h1, h2}
    Holder <- HolderOf
    Crew <- CrewAtFirst
    Threads = {t1, t2}
    Device <- DeviceOf
    WebLabels = {x}
    MaxJobs = 2
    MaxCopies = 2
    Window = 2
    Limit = 1
    Calls = {r1}
    MaxLost = 1
    MaxCrashes = 1
    MaxMoves = 1
    Workloads <- Days
INVARIANTS PrintedIsOnPaper
PROPERTIES LedgerKept LabelSettles
CHECK_DEADLOCK FALSE
