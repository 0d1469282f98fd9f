CONSTANTS
    a1 = a1 a2 = a2
    AnyAddr = AnyAddr
    Packets = {p1, p2, p3}
    Dsts = {d1, d2}
    Addrs = {a1, a2}
    Fds <- MCFds
    SockAddr <- MCSockAddr
    MaxSockets = 2
    NumIds = 2
    RbKeys = {1, 2, 3, 4, 5, 6}
    Data = {1, 2, 3, 4, 5, 6, 7, 8}
    HashOf <- MCHashOf
    HashBits = 4
    FirstBuckets = 1
    MaxBuckets = 16
    MaxText = 8
    MaxDepth = 3
    PairLists <- MCPairLists
    FromLists <- MCFromLists
    Files <- MCFiles
    Requests <- MCRequests
SPECIFICATION ListsSpec
SYMMETRY Symm
INVARIANTS IdBitsAreOwned OutgoingCounts ReplyFindsItsRequest TreeIsSound StoredIsFound ConditionIsRight PairsAreKept UsersAreRight
PROPERTIES ImplementsIdSpace TreeIsASet
CHECK_DEADLOCK FALSE
