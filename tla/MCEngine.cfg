CONSTANTS
    Policies <- MCPolicies
    ModResults = {"ok", "noop", "fail"}
    ModDefault = "notfound"
    ModNone = 0
    Owners = {o1, o2, o3, o4, o5, o6}
    Nobody = Nobody
    MaxTime = 1
    EvUsec = 2
    EvFds = {11, 12, 13}
    MaxReaders = 2
    CoaReqs = {c1, c2}
    CoaIds = {1, 2}
    NoId = NoId
    CoaIrt = 1
    CoaMrt = 1
    CoaMrc = 1
    CoaMrd = 5
    CoaConfs <- MCCoaConfs
SPECIFICATION EngineSpec
SYMMETRY Symm
INVARIANTS ModcallIsStructured LoopIsRight CoaIsRight
PROPERTIES ImplementsTimers
CHECK_DEADLOCK FALSE
