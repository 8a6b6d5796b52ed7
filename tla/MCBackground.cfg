CONSTANTS
    None = None
    Requests = {r1, r2}
    Timer = r1
    Brokers = {b1, b2}
    MaxChanges = 2
    MaxFaults = 2
    Names = {n1, n2}
    Addresses = {a1, a2}
    MaxTroubles = 2
    Files = {f1}
    MaxKills = 2
    MaxChoices = 2
    Chosen <- MCChosen
    MaxRevisions = 1
    MaxOutages = 1
    MaxRefreshes = 1
    Bare = Bare
SPECIFICATION Spec
PROPERTIES BackgroundHolds BackgroundSettles
CHECK_DEADLOCK FALSE
