SPECIFICATION ServiceSpec
CONSTANTS
    Places = {p1, p2}
    Envs = {e1, e2}
    Absent = Absent
    MaxVersion = 2
    MaxRuns = 4
INVARIANT RestartLoadsUnit
CHECK_DEADLOCK FALSE
