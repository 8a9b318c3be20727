SPECIFICATION TerminalsSpec
CONSTANTS
    s1 = s1
    s2 = s2
    NoStream = NoStream
    Streams <- TwoStreams
    MaxLeases = 2
    MaxEntries = 2
    MaxRuntime = 2
    MaxSeq = 2
    Scenarios <- Handovers
    Pages <- TwoStreams
    Hosts = {h1, h2}
    Readers = {r1, r2}
    Nowhere = Nowhere
    MaxSequence = 2
    MaxPuts = 2
    Sizes = {"small", "large"}
    MaxGestures = 3
    MaxConns = 2
    Logins = {"login"}
    Users = {"user"}
    UserOf <- OneUser
    MaxPerUser = 2
    MaxSessions = 2
    MaxTickets = 2
    MaxMinted = 2
    MaxEpoch = 1
SYMMETRY Symmetry
CHECK_DEADLOCK FALSE
INVARIANTS TerminalsTypeOK SizeIsControlled PositionIsKept
PROPERTIES HandoverInOrder ViewportNeverGoesBack GesturesAreWhole VoiceIsCounted
