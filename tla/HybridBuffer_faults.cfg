SPECIFICATION Spec
CONSTANTS
    MaxChunks = 3
    QueueCap = 2
    MemoryCap = 2
    MaxTotalBytes = 3
    MaxRuns = 2
    SendAllAtEnd = FALSE
    MayCrash = TRUE
    Faults <- AllIOFaults
INVARIANTS
    TypeOK
    EveryChunkAccountedFor
    GaugesExact
    InOrderOnce
    StoppedMeansDrained
    AllSentAtEnd
PROPERTIES
    KeepsConsumerContract
    FilesOutliveTheirUse
    SpaceOvershootBounded
