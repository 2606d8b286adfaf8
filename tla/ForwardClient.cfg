SPECIFICATION FairSpec
CONSTANTS
    MaxChunks = 3
    InputCap = 2
    AckerCap = 1
    ConnKinds <- AllKinds
    MayHang = TRUE
    MaxEvents = 2
INVARIANTS
    OnePlaceAtATime
    ConsumedIsStored
    SentInOrder
PROPERTIES
    ImplementsChunkConsumer
    StopsWhenTold
    EveryChunkGetsThrough
