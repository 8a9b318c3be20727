SPECIFICATION SystemLiveSpec
CONSTANTS
    None = None
    Controllers = {t1}
    Tasks = {t1}
    Conns = {n1}
    MaxIssued = 1
    MaxEpoch = 4
    MaxUnpairs = 1
CHECK_DEADLOCK FALSE
PROPERTIES EnrollmentEnds
