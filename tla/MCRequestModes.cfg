CONSTANTS
    q1 = q1 q2 = q2 k1 = k1 v1 = v1 v2 = v2 h1 = h1 h2 = h2
    Reqs = {q1, q2}
    Keys = {k1}
    Vectors = {v1, v2}
    Codes = {"auth", "acct", "coa", "status"}
    RealHomes = {h1}
    VirtualHomes = {}
    Confs <- Others
    RejectDelay = 0
    CleanupDelay = 1
    ResponseWindow = 1
    MaxRequestTime = 2
    MaxRequests = 0
    MaxDups = 0
SPECIFICATION Spec
INVARIANTS HandlersAgree
PROPERTIES EventuallyFreed
