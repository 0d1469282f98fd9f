CONSTANTS
    q1 = q1 q2 = q2 k1 = k1 v1 = v1 v2 = v2 h1 = h1 h2 = h2
    Reqs = {q1, q2}
    Keys = {k1}
    Vectors = {v1, v2}
    Codes = {"auth"}
    RealHomes = {h1, h2}
    VirtualHomes = {}
    Confs <- Daemon
    RejectDelay = 1
    CleanupDelay = 1
    ResponseWindow = 2
    MaxRequestTime = 3
    MaxRequests = 0
    MaxDups = 1
SPECIFICATION Spec
INVARIANT WindowIsHonoured
