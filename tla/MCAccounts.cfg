CONSTANTS
    None = None
    Requests = {r1, r2}
    MaxUsers = 3
    MaxPilots = 2
    MaxRequests = 3
    Emails = {e1, e2}
    Numbers = {n1}
    Events = {v1}
    Slug = Slug
    MaxAccounts = 2
    MaxRows = 2
    Devices = {d1, d2}
    OtherPurposes = {"relay"}
    Users = {u1, u2}
    Keys = {k1}
    Challenges = {c1, c2, c3}
    MaxClock = 1
    MaxCount = 3
INIT Init
NEXT Next
INVARIANTS IdentitiesHold AccountsHold
PROPERTIES IdentitiesKept DevicesHold LateRequestsYield
CONSTRAINT Uncrossed
SYMMETRY Symmetry
CHECK_DEADLOCK FALSE
