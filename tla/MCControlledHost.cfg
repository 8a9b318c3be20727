SPECIFICATION PartsSpec
CONSTANTS
    b1 = b1  b2 = b2  b3 = b3
    None = None
    Absent = Absent
    Bins <- Binaries
    VersionOf <- Reported
    Places = {p1, p2}
    Envs = {e1, e2}
    MaxVersion = 2
    MaxRuns = 4
    Requests = {c1, c2}
    Nobody = Nobody
    Ids = {i1, i2}
    Capacity = 1
    Contents = {x1, x2}
    Zsh = {x1}
    MaxQuestions = 2
    FreeTexts = {1}
    MaxPanes = 2
    Conns = {k1}
    MaxId = 2
    MaxTokens = 1
    MaxChanges = 1
    MaxClock = 2
    Observers = {1, 2, 3}
    Line = {"", "a"}
    Blank = ""
    MaxLines = 2
    MaxCandidates = 1
    MaxWatches = 2
    MaxFrames = 2
SYMMETRY Symmetry
CHECK_DEADLOCK FALSE
INVARIANTS PartsTypeOK EntryIsRecoverable SetupTakesEffect RequestsActOnce
PROPERTIES RollbackPointKept ReportIsTrue RevocationHolds ScreensAreTrue
