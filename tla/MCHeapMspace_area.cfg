SPECIFICATION Spec
CONSTANTS
    Granularity = 4096
    MmapThreshold = 8192
    TrimThreshold = 256
    ReleaseRate = 1
    MAX_REQUEST = 1000000
    MAX_SIZE_T = 1100000
    Base = 16384
    MaxSize <- MCMaxSize
    Requests <- MCRequests
    Places = {65536}
    MaxBlocks = 4
INVARIANTS
    MspaceIsSound
    TagsSurvive
    UsedBytesAgree
    FailsOnlyWhenNothingFits
PROPERTY
    GivesBlocks
