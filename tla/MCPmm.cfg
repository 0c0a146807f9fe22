SPECIFICATION Spec
CONSTANTS
    MaxFrames = 16
    PageSize = 4
    LowMemory = 8
    KernelStart = 12
    KernelEnd = 18
    MMAP_MAX_REGIONS = 4
    BootInfos <- MCBootInfos
    MemoryMaps <- MCMemoryMaps
INVARIANTS TypeOK MapAsDescribed UsedExact FrameAccounting NullMeansExhausted
PROPERTIES PoolSpec
