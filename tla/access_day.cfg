SPECIFICATION Spec
CONSTANTS
    u1 = u1
    u2 = u2
    d1 = d1
    s1 = s1
    i1 = i1
    i2 = i2
    i3 = i3
    c1 = c1
    c2 = c2
    None = None
    Users = {u1, u2}
    Devices = {d1}
    Stations = {s1}
    Applications = {"ADMIN_WEB", "WORKER_NATIVE"}
    Ids = {i1, i2, i3}
    MaxFailures = 2
    MaxEras = 1
    Calls = {c1, c2}
    Workloads <- Days
SYMMETRY Same
CHECK_DEADLOCK FALSE
INVARIANTS
    OneLivePerLogin
INVARIANT EndedStaysEnded
