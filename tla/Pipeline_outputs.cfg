SPECIFICATION Spec
CONSTANTS
    NumObjects = 4
    NumBuffers = 4
    MaxFields = 6
    MinToPool = 1
    MaxRecords = 2
    MaxBytes = 8
    NumLogs = 4
    LengthOf <- Lengths
    Malformed <- BadLogs
    Matching <- MatchingLogs
    TextOf <- KeyTexts
    Refused <- TooLong
    Rate = 50
    Configs <- MoreOutputs
    MaxReloads = 1
    MaxBatch = 2
    ChannelCap = 1
    MaxTime = 2
    ClockMayGoBack = FALSE
    MayTimeOut = FALSE
INVARIANTS
    NeverPanics
