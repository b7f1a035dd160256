\* Four requests of one address to one form, which overtake each other, over
\* two minutes, an hour and a window of repeated content.
SPECIFICATION Spec
CONSTANTS
    i1 = i1
    f1 = f1
    d1 = d1
    Ips <- MCIps
    Forms <- MCForms
    Contents <- MCContents
    MaxRequests = 4
    MaxTime = 4
    RouteMax = 2
    MaxPerMinute = 1
    MaxPerHour = 2
    Gap = 1
    Keep = 2
    Minute = 2
    Hour = 3
    Dedup = 3
    StoreCap = 0
INVARIANTS
    Spaced
    BurstsBounded
    HourCounterIsMinuteCounter
    NoRepetition
PROPERTY
    RefusalJustified
CHECK_DEADLOCK FALSE
