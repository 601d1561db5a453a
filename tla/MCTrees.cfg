CONSTANTS
    None = None
    p1 = p1
    p2 = p2
    t1 = t1
    t2 = t2
    t3 = t3
    h1 = h1
    h2 = h2
    Process = {p1, p2}
    Thread = {t1, t2, t3}
    ProcessOf <- MCProcessOf
    Hash = {h1, h2}
    Cloud <- MCCloud
    Name = {"d", "da"}
    Begins <- MCBegins
    Blank = ""
    Error = None
    Md5 = {0, 1, 2, 7, 8}
    Base = 2
    Digits <- MCDigits
    PrefixLen = 3
    Threshold = 8
    Page = 1
    Weight = 1
    Jobs = 4
    CanTraverse = TRUE
    MaxOps = 3
    MaxFaults = 2
SYMMETRY Symmetry
SPECIFICATION Spec
CHECK_DEADLOCK FALSE
INVARIANTS
    ObjectsWhole
    OneDirectory
    DownloadWhole
