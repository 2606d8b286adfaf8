SPECIFICATION FairSpec
CONSTANTS
    NumObjects = 4
    NumBuffers = 4
    MaxFields = 6
    MinToPool = 1
    MaxRecords = 2
    MaxBytes = 8
    NumLogs = 4
    LengthOf <- Lengths
    Malformed <- BadLogs
    Matching <- MatchingLogs
    TextOf <- KeyTexts
    Refused <- TooLong
    Rate = 50
    Configs <- Loadable
    MaxReloads = 1
    MaxBatch = 2
    ChannelCap = 1
    MaxTime = 2
    ClockMayGoBack = TRUE
    MayTimeOut = TRUE
INVARIANTS
    OutputsGetWhatWasLogged
    ChunksAreSound
    PoolIsSound
    DropRateKept
    MetricsExact
PROPERTIES
    PipelineProgresses
