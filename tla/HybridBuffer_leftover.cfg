SPECIFICATION Spec
CONSTANTS
    MaxChunks = 2
    QueueCap = 1
    MemoryCap = 2
    MaxTotalBytes = 2
    MaxRuns = 1
    SendAllAtEnd = FALSE
    MayCrash = FALSE
    Faults <- NoFaults
INVARIANTS
    LeftoversAreSaved
