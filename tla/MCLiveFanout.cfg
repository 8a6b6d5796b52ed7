\* Two posts at once, an app with polls that overtake each other, three fixes
\* and a queue that fills up at once; one public stream of any kind, whose
\* queue one position of a registered pilot fills.
CONSTANTS
    Posts = {r1, r2}
    Streams = {s1}
    MaxFix = 3
    QueueSize = 1
    MaxPolls = 2
    entrant = entrant
    outsider = outsider
    theirs = theirs
    another = another
    driver = driver
    Pilots = {entrant, outsider}
    Users = {theirs, another, driver}
    PilotOf <- MCPilotOf
    Nobody = Nobody
    Subjects <- MCSubjects
    Buddies = {outsider}
    TaskChannel = TaskChannel
    Views = 1
    Messages = 2
    Capacity = 1
    Switches = 1
SPECIFICATION MCSpec
INVARIANTS GapNeedsOverflowOrEarlyFix OnlyPublicShown StreamsServe
PROPERTIES ViewsCatchUp
\* Once every public stream is closed and every message sent, nothing happens.
CHECK_DEADLOCK FALSE
