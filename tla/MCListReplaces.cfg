\* The same constants as MCLandingPickup: a list that is assigned twice.
CONSTANTS
    Handlers = {h1, h2}
    Drivers = {d1}
    MaxLandings = 3
    MaxMishaps = 2
    here = here
    there = there
    Meets = {here, there}
    StartsOn <- MCStartsOn
    EndsOn <- MCEndsOn
    Ahead <- MCAhead
    TaskIds = {1, 2}
    Dates = {1, 2, 3}
    Clock = {1, 2}
    Flyers = {f1}
    NoDate = NoDate
    NoTask = NoTask
SPECIFICATION MCSpec
INVARIANT ListReplaces
