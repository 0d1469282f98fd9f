CONSTANTS
    Records = {r1, r2}
    MaxCopies = 2
    LockWorks = FALSE
    UnlinkFails = FALSE
    ReadFails = FALSE
SPECIFICATION DetailLive
PROPERTY DetailIsRead
CHECK_DEADLOCK FALSE
