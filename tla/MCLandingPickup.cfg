\* Two positions at once, a driver's request, three landings, two mishaps; two
\* tasks on any of three days or none, a pilot, a driver, two days.
CONSTANTS
    Handlers = {h1, h2}
    Drivers = {d1}
    MaxLandings = 3
    MaxMishaps = 2
    here = here
    there = there
    Meets = {here, there}
    StartsOn <- MCStartsOn
    EndsOn <- MCEndsOn
    Ahead <- MCAhead
    TaskIds = {1, 2}
    Dates = {1, 2, 3}
    Clock = {1, 2}
    Flyers = {f1}
    NoDate = NoDate
    NoTask = NoTask
SPECIFICATION MCSpec
INVARIANTS DuplicateNeedsRaceOrUndo TasksOfTheDay
PROPERTIES PickupStands EveryLandingRecorded OtherMeetsMoveNobody
\* A pilot on the ground whose landing is confirmed changes nothing: it may stop.
CHECK_DEADLOCK FALSE
