CONSTANTS
    PairLists = {}
    FromLists = {}
    Files <- FrozenFiles
    Requests <- MCRequests
SPECIFICATION UsersAlone
INVARIANT UsersAreRight
CHECK_DEADLOCK FALSE
