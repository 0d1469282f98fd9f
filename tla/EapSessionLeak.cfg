CONSTANTS
    Sessions = {s1, s2}
    Types = {md5, tls}
    MaxSessions = 2
    TimerLimit = 1
    MaxTrips = 2
    ExpireCount = 1
    MaxAge = 2
SPECIFICATION EapSpec
INVARIANT HandlersAreOwned
CHECK_DEADLOCK FALSE
