CONSTANTS
    None = None
    Requests = {r1, r2}
    Subjects = {u1, u2}
    Tasks = {t1}
    Zone = 1
    RowLimit = 1
    MaxPositions = 2
    LastHalf = 2
    Nodes = {d1, d2}
    Levels = {50}
    Tolerance = 1
    MaxNow = 2
    MaxPackets = 2
    Library = {f1, f2, f3}
    Points = {p1, p2}
    Values = {v1, v2}
    MaxEdits = 3
    Meets = {e1, e2}
    Texts = {c1}
    MaxSources = 3
    MaxAsked = 4
INIT Init
NEXT Next
INVARIANTS PositionsHold LibraryHolds AirspaceHolds
PROPERTIES NodesHold
CONSTRAINT Bound
SYMMETRY Symmetry
CHECK_DEADLOCK FALSE
