\* Three submissions of one form in one hour, when two are allowed.
SPECIFICATION Spec
CONSTANTS
    i1 = i1
    f1 = f1
    d1 = d1
    Ips <- MCIps
    Forms <- MCForms
    Contents <- MCContents
    MaxRequests = 3
    MaxTime = 7
    RouteMax = 1
    MaxPerMinute = 1
    MaxPerHour = 2
    Gap = 1
    Keep = 2
    Minute = 2
    Hour = 5
    Dedup = 4
    StoreCap = 5
INVARIANT HourLimit
CHECK_DEADLOCK FALSE
