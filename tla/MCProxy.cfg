CONSTANTS
    r1 = r1 r2 = r2 g1 = g1 g2 = g2
    Reqs = {r1, r2}
    Pings = {g1, g2}
    Confs <- MCConfs
    MaxOutstanding = 2
    ResponseWindow = 2
    ZombiePeriod = 3
    ReviveInterval = 3
    PingInterval = 3
    PingTimeout = 2
    NumPingsToAlive = 2
    MaxJitter = 1
    CoaReqs = {c1}
    CoaIds = {1, 2}
    NoId = NoId
    CoaIrt = 1
    CoaMrt = 1
    CoaMrc = 0
    CoaMrd = 5
    CoaConfs <- MCCoaConfs
SPECIFICATION ProxySpec
INVARIANTS OutOfServiceHasTimer OutstandingIsInFlight AnswersInARow
PROPERTIES DeadComesBack CoaIsFreed
CHECK_DEADLOCK FALSE
