SPECIFICATION RecordsSpec
CONSTANTS
    None = None  Deleted = Deleted
    Controllers = {t1, t2}
    Tasks = {t1, t2}
    Conns = {n1}
    MaxIssued = 2
    MaxEpoch = 4
    MaxUnpairs = 1
    Users = {admin, user}
    Root = admin
    Sessions = {s1, s2}
    Requests = {t1, t2}
    Nil = Nil
    MaxHash = 1
    HostIds = {h1}
    Folders = {f1, f2}
    Keys = {k1}
    Owned = {o1}
    Addresses = {a1, a2}
    MaxVersion = 1
    Panes = {p1}
    Delay = 1
    MaxClock = 1
    MaxSeq = 3
    MaxRun = 2
    Newcomers = {"u1", "u2", "u3"}
    Invites = {"i1"}
    HashSlots = 2
    MaxRevision = 2
    Subscribers = {"owner", "other"}
    Endpoints = {"e1", "e2"}
    Deliveries = {"d1", "d2"}
    MaxId = 2
SYMMETRY Symmetry
CHECK_DEADLOCK FALSE
INVARIANTS RecordsTypeOK EnrollmentKeepsTrack AccessFollowsAccounts RowsAreWhole
PROPERTIES NotificationsAreRight
