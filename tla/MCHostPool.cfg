SPECIFICATION PartsSpec
CONSTANTS
    h1 = h1  h2 = h2
    c1 = c1  c2 = c2
    f1 = f1  f2 = f2
    None = None
    Hosts = {h1, h2}
    LocalHosts = {h2}
    Callers = {c1, c2}
    Flights = {f1, f2}
    Limit = 1
    DialSlots = 1
    MaxWaiters = 2
    MaxFailures = 1
    MaxCallbacks = 1
    MaxAttempts = 3
    Openers = {o1}
    Askers = {c1, c2}
    Nobody = Nobody
    MaxVersion = 2
    MaxCli = 1
    Reviewed = {1}
    Credit = 2
    MergeLimit = 3
    QueueLimit = 1
    Chunk = 1
    MaxFrames = 3
    MaxInput = 1
SYMMETRY Symmetry
CHECK_DEADLOCK FALSE
INVARIANTS PartsTypeOK RefsExact OneOwner ConnectionsLeaveNothing EvidenceIsCurrent OutputArrives
PROPERTIES ReclaimOnlyUnused
