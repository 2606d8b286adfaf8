SPECIFICATION FairSpec
CONSTANTS
    MaxChunks = 3
    QueueCap = 1
    MemoryCap = 2
    MaxTotalBytes = 2
    MaxRuns = 1
    SendAllAtEnd = FALSE
    MayCrash = FALSE
    Faults <- CleanFaults
PROPERTIES
    ShutdownCompletes
    EveryChunkDelivered
