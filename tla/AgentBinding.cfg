SPECIFICATION LiveSpec
CONSTANTS
    None = None
    Controllers = {c1, c2}
    Conns = {n1}
    MaxIssued = 2
    MaxEpoch = 7
    MaxUnpairs = 2
CHECK_DEADLOCK FALSE
INVARIANTS TypeOK StreamsAuthorized NoResurrection BindingServed
PROPERTIES GrantSpec EverythingEnds
