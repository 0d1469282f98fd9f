CONSTANTS
    Ports = {k1, k2, k3}
    Addrs = {a1, a2}
    Zero = Zero NoOne = NoOne
    Callers = {c1, Zero}
    IpConfs <- MCIpConfs
    NumSocks = 2
    SqlDelay = 0
    SqlLifetime = 1
    SqlMaxQueries = 2
    SqlSessions = {s1}
    UniqueIds = {TRUE, FALSE}
    MaxRows = 2
    NasPorts = {"a1", "b1"}
    NasOf <- MCNasOf
    MaxLogins = 2
    MaxSent = 2
    UtConfs <- MCUtConfs
    MAX_RECORD_SIZE = 6
    fragment_size = 3
    MaxRounds = 20
    TlsConfs <- MCTlsConfs
    MaxInner = 3
    WordBits = 2
    Senders <- MCSenders
    ClientConfs <- MCClientConfs
    HoldTime = 2
    RequestLife = 2
    MaxDeleted = 2
    MaxClock = 6
    MaxClients = 7
    MAX_PACKET_LEN = 620
    fr_max_attributes = 4
    Exchanges <- MCExchanges
    PoolAddrs = {a1, a2}
    PoolUsers = {u1, u2}
    PoolServers = {w1, w2}
    NoUser = NoUser NoAddr = NoAddr
    LeaseDuration = 1
    MaxNow = 3
    SqlPoolConfs <- MCSqlPoolConfs
SPECIFICATION StoresSpec
INVARIANTS AddressesAreKept SqlIsRight SqlPoolIsRight LoginsAreRight ConversationIsWhole ClientsAreRight PacketsAreRead
PROPERTIES PeapIsSound
CHECK_DEADLOCK FALSE
