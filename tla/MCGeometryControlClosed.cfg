SPECIFICATION Spec
CONSTANTS
    s1 = s1
    s2 = s2
    NoStream = NoStream
    Streams <- TwoStreams
    MaxLeases = 1
    MaxEntries = 1
    MaxRuntime = 1
    MaxSeq = 0
    Scenarios <- Finish
INVARIANTS
    ClosedIsReleased
CHECK_DEADLOCK FALSE
