SPECIFICATION FairScreenSpec
CONSTANTS
    l1 = l1
    l2 = l2
    c1 = c1
    o1 = o1
    r1 = r1
    r2 = r2
    r3 = r3
    r4 = r4
    r5 = r5
    q1 = q1
    q2 = q2
    s1 = s1
    s2 = s2
    w1 = w1
    w2 = w2
    p1 = p1
    a1 = a1
    a2 = a2
    jArrival = jArrival
    jTote = jTote
    jGoods = jGoods
    jBin = jBin
    jParcel = jParcel
    jOther = jOther
    jCarton = jCarton
    jNote = jNote
    None = None
    Scenes = {"screens"}
    Stations = {s1}
    Sessions = {}
    Openings = {{}}
    Lines = {}
    Unidentified = {}
    Cartons = {}
    Expected <- Nothing
    OpIds = {}
    ScanLine <- Nothing
    ScanQty <- Nothing
    ScanCarton <- Nothing
    Quantities = {}
    Requests = {}
    Handlers = {}
    Workers = {}
    Roles <- Nothing
    Place <- OnePlace
    Jobs = {}
    Key <- Nothing
    Following <- Nothing
    Parcels <- Nothing
    MaxTasks = 0
    Calls = {}
    Shifts <- NoDay
    Pages = {p1}
    LinkOf <- LinkHere
    Profiles <- ProfilesHere
    Sets <- SetsHere
    Texts <- TextsHere
    Admins = {a1, a2}
    MaxDisplays = 3
    MaxLinks = 3
    MaxFloor = 2
    MaxMessages = 2
    Take = 1
    MaxActions = 1
    MaxOutages = 1
    MaxChanges = 2
    Days <- DaysHere
CHECK_DEADLOCK FALSE
PROPERTIES
    ScreenCatchesUp
    DeadLinkGoesDark
    RolesAsAsked
