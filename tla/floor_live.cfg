SPECIFICATION FairFloorSpec
CONSTANTS
    l1 = l1
    l2 = l2
    c1 = c1
    o1 = o1
    r1 = r1
    r2 = r2
    r3 = r3
    r4 = r4
    r5 = r5
    q1 = q1
    q2 = q2
    s1 = s1
    s2 = s2
    w1 = w1
    w2 = w2
    p1 = p1
    a1 = a1
    a2 = a2
    jArrival = jArrival
    jTote = jTote
    jGoods = jGoods
    jBin = jBin
    jParcel = jParcel
    jOther = jOther
    jCarton = jCarton
    jNote = jNote
    None = None
    Scenes = {"receiving", "tasks"}
    Stations = {s1, s2}
    Sessions = {s1, s2}
    Openings = {{s1}}
    Lines = {l1, l2}
    Unidentified = {l2}
    Cartons = {c1}
    Expected <- TwoLines
    OpIds = {o1}
    ScanLine <- SameLine
    ScanQty <- FirstQty
    ScanCarton <- SameCarton
    Quantities = {1}
    Requests = {r1, r2, r3}
    Handlers = {"start", "confirmProduct", "confirmCarton", "pause", "resume", "flag", "resolve", "complete", "reopen", "reverse", "correct", "recover"}
    Workers = {w1, w2}
    Roles <- RolesHere
    Place <- Places
    Jobs = {jArrival, jTote, jGoods, jBin, jParcel, jOther, jCarton, jNote}
    Key <- KeyOf
    Following <- Chain
    Parcels <- ParcelsHere
    MaxTasks = 4
    Calls = {q1, q2}
    Shifts <- QuietShifts
    Pages = {}
    LinkOf <- Nothing
    Profiles = {}
    Sets = {}
    Texts = {}
    Admins = {}
    MaxDisplays = 0
    MaxLinks = 0
    MaxFloor = 0
    MaxMessages = 0
    Take = 0
    MaxActions = 0
    MaxOutages = 0
    MaxChanges = 0
    Days <- NoDay
CHECK_DEADLOCK FALSE
PROPERTIES
    EveryCallReturns
    WorkIsOffered
