SPECIFICATION FairSpec
CONSTANTS
    c1 = c1
    c2 = c2
    crew = crew
    f1 = f1
    f2 = f2
    e1 = e1
    p1 = p1
    k1 = k1
    Table <- TableHere
    Parent <- ParentHere
    Floors <- FloorsHere
    Scripts = {"prisma", "pg"}
    MaxWrites = 1
    MaxRuns = 2
    Boots = {c1, c2}
    CustomRoles = {crew}
    Worlds <- WorldsHere
    MaxTroubles = 1
    MaxEdits = 1
    Scenes = {"reset", "deploy", "staff"}
    Forms = {f1, f2}
    Codes = {e1}
    Posts = {p1}
    TaskKeys = {k1}
    MaxTries = 2
    NoPost = NoPost
INVARIANTS
    QuietRunDoesItsPlan
    OneTestWorker
    SeedIsWhole
    RepairLeavesNoHole
    TasksAsAsked
PROPERTIES
    OthersStay
    AllComeUp
CHECK_DEADLOCK FALSE
