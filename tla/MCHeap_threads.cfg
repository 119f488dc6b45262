SPECIFICATION FairSpec
CONSTANTS
    t1 = t1
    t2 = t2
    NoThread = NoThread
    Threads <- TwoThreads
    HasLock = TRUE
    Sizes = {2}
    Tag = 1
    Slack = 0
    Bases <- OneBase
    MaxSize = 7
    StlAddresses <- OneStlAddress
    Word = 16
    InitFlags = {TRUE}
    Terminates = FALSE
CHECK_DEADLOCK FALSE
INVARIANTS
    MspaceIsAccounted
    NoBlockIsLost
PROPERTIES
    LockIsReleased
