SPECIFICATION Spec
CONSTANTS
    RecordKeys <- Merging
    NumKeys = 2
    ChannelCap = 1
    BufferCap = 2
    MayTimeOut = FALSE
    MaxRuns = 1
INVARIANT
    RoutedByKeySet
