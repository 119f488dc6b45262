SPECIFICATION Spec
CONSTANTS
    Granularity = 512
    MmapThreshold = 600
    TrimThreshold = 256
    ReleaseRate = 2
    MAX_REQUEST = 1000000
    MAX_SIZE_T = 1100000
    Base = 33792
    Room = 64
    Products <- MCProducts
    Sizes = {200, 600}
    Groups <- MCGroups
    Alignment = 64
    Places = {33280, 35328}
    MaxBlocks = 2
INVARIANTS
    MspaceIsSound
    InUseIsOwned
    FootprintIsMapped
    TrimReleasesIdle
