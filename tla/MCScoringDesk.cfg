INIT Init
NEXT Next
CONSTANTS
    None = None
    Requests = {r1, r2}
    Tasks = {t1, t2}
    Pilots = {p}
    Contents = {c, d}
    MaxUploads = 2
    MaxFlights = 2
    Scored = {p1, p2}
    Statuses = {minimum_distance}
    MaxFiles = 2
    MaxRounds = 2
INVARIANTS FilesHold DeskHolds
PROPERTIES ScoredAsSelected SelectionsHold
SYMMETRY Symmetry
CONSTRAINT Bounded
