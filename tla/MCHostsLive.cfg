SPECIFICATION LiveSpec
CONSTANTS
    Nobody = Nobody  Deleted = Deleted
    Callers = {c1, c2}
    Flights = {f1, f2}
CHECK_DEADLOCK FALSE
PROPERTIES PoolServes HoldersLeave ControlEnds
