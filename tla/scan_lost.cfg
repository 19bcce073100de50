SPECIFICATION Spec
CONSTANTS
    a1 = a1
    a2 = a2
    a3 = a3
    k1 = k1
    o1 = o1
    o2 = o2
    t1 = t1
    b1 = b1
    b2 = b2
    b3 = b3
    s1 = s1
    s2 = s2
    h1 = h1
    h2 = h2
    i1 = i1
    i2 = i2
    i3 = i3
    c1 = c1
    c2 = c2
    None = None
    Articles = {a1, a2}
    Stock <- NoStock
    Skus = {k1}
    Orders = {}
    Requested <- NoStock
    Totes = {t1}
    Bins = {}
    Capacity = 2
    Stations = {}
    Shipments = {}
    OpIds = {i1, i2}
    Calls = {c1, c2}
    Workloads <- ScansOnly
CHECK_DEADLOCK FALSE
INVARIANT EveryScanCounted
