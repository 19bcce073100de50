SPECIFICATION GoodsSpec
CONSTANTS
    k1 = k1
    k2 = k2
    s1 = s1
    l1 = l1
    l2 = l2
    v1 = v1
    v2 = v2
    x1 = x1
    r1 = r1
    r2 = r2
    shoe = shoe
    g1 = g1
    q1 = q1
    q2 = q2
    q3 = q3
    b1 = b1
    b2 = b2
    a1 = a1
    a2 = a2
    w1 = w1
    w2 = w2
    o1 = o1
    o2 = o2
    o3 = o3
    None = None
    Scenes = {"cartons", "report", "storage"}
    Cartons = {k1, k2}
    Arrived = {k1}
    ShipmentCards = {s1}
    Contents <- ContentsHere
    Refs = {x1}
    Ref <- RefHere
    Product <- ProductHere
    Workers = {v1, v2}
    Locations = {l1, l2}
    MaxArrivals = 2
    MaxSessions = 2
    MaxReceipts = 2
    MaxPlaces = 3
    Calls = {r1, r2}
    Workloads <- Days
    Lines = {g1}
    Expected <- Two
    Damages = {1}
    Submits = {q1, q2, q3}
    Handlers = {"saveDraft", "submit", "markDamage", "review", "close", "accept", "pause", "correct"}
    Stations = {w1, w2}
    Moves = {1, 2, 3}
    Skus = {b1, b2}
    Customers = {a1, a2}
    SkuOf <- TwoSkus
    CustomerOf <- TwoCustomers
    ConfirmedQuantity <- FourOneOne
    OpIds = {o1, o2}
    Codes = {1, 2}
    Capacities = {1, 2}
    Scans = {q1, q2, q3}
SYMMETRY SameGoods
CHECK_DEADLOCK FALSE
INVARIANT LocatedIsPlaced
INVARIANT NoOrphanCarton
INVARIANT CountedOnce
INVARIANT HandedOffOnce
INVARIANT StoredWithItsCustomer
INVARIANT OneItemPerOperation
PROPERTY PlaceNeverSteals
