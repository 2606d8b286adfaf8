SPECIFICATION FairSpec
CONSTANTS
    RecordKeys <- Mixed
    NumKeys = 2
    ChannelCap = 1
    BufferCap = 2
    MayTimeOut = TRUE
    MaxRuns = 2
INVARIANTS
    RecordsKept
    OnePipelinePerKeySet
    QueuesAreRecovered
PROPERTY
    DestroyEnds
