CONSTANTS
    None = None
    Requests = {r1}
    Models = {hrrr}
    Variables = {cloud_cover, wind_speed_10m}
    Valid = {1}
    MaxPerCycle = 1
    KeepDays = 2
    StaleDays = 14
    ForgetDays = 30
    LastDay = 1
SPECIFICATION RasterSpec
PROPERTY VisitIsInstant
CHECK_DEADLOCK FALSE
