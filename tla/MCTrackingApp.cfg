\* Three fixes, one of them refused for good, in a buffer of two; two flights,
\* two calls that save, two updates that await an upload, two taps on start.
SPECIFICATION MCSpec
CONSTANTS
    Fixes = {f1, f2, f3}
    Stops = {s1}
    BufferCap = 2
    DrainLimit = 2
    NoFix = NoFix
    Poison = {f1}
    MaxFlights = 2
    MaxHandlers = 2
    MaxStarts = 2
    Savers = {v1, v2}
INVARIANTS SoleDrainHoldsHead FilesHoldOneFlight
PROPERTIES LossOnlyWhenDrainsOverlap DuplicateOnlyAfterLostAck AppBufferDrains LandingsKeepFiles
