CONSTANTS
    h1 = h1 h2 = h2 h3 = h3
    Fallback = Fallback NoHome = NoHome
    Homes = {h1, h2, h3}
    PoolConfs <- MCPoolConfs
    MaxOutstanding = 2
    Hashes = {0, 1, 2}
    Records = {1, 2, 3}
    MaxCopies = 1
    LockWorks = TRUE
    UnlinkFails = TRUE
    ReadFails = TRUE
    Sessions = {s1, s2, s3}
    Types = {md5, tls}
    MaxSessions = 2
    TimerLimit = 1
    MaxTrips = 2
    ExpireCount = 1
    MaxAge = 2
    MethodConfs <- MCMethodConfs
    MaxChallenges = 4
    MaxResponses = 5
    SqnStep = 2
    SqnMax = 9
SPECIFICATION PartsSpec
SYMMETRY Symm
INVARIANTS ChoiceIsRight RecordsAreKept SessionsAreExact MethodsAreSound
CHECK_DEADLOCK FALSE
