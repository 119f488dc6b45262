SPECIFICATION Spec
CONSTANTS
    t1 = t1
    t2 = t2
    NoThread = NoThread
    Threads <- OneThread
    HasLock = FALSE
    Sizes = {2, 7}
    Tag = 1
    Slack = 1
    Bases <- MCBases
    MaxSize = 7
    StlAddresses <- MCStlAddresses
    Word = 16
    InitFlags = {TRUE, FALSE}
    Terminates = TRUE
CHECK_DEADLOCK FALSE
INVARIANTS
    TypeOK
    CountersAgree
    BlocksGoHome
PROPERTIES
    PeakNeverFalls
