SPECIFICATION MCSpec
CONSTANTS
    None = None
    Requests = {r1, r2}
    TaskSet <- MCTasks
    Positions = {0, 1, 2, 3}
    MaxFixes = 5
    MinDist = 1
    Misread = {9}
    Lengths = {2}
    Rivals = {1, 2, 3}
    Events <- MCEvents
    Flights <- MCFlights
    Charges <- MCCharges
    MaxCharges = 2
    Ess = 3
    Sheets = {"short", "long"}
    Competitors = {1, 2}
    PilotId <- MCPilotId
    Removable = {2}
    Trainable = {"long"}
    Outcomes <- MCOutcomes
    Settings <- MCSettings
    NoResult = NoResult
    Unranked = 9
CONSTRAINT Bounded
SYMMETRY Symmetry
CHECK_DEADLOCK FALSE
INVARIANTS FlownIsScored DayIsFair PagesAgree
PROPERTIES FixesNeverHurt
