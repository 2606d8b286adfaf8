SPECIFICATION Spec
CONSTANTS
    MinRecordLen = 3
    MinTextLen = 3
    SoftRecordLimit = 7
    MaxRecordLen = 7
    MaxMessageLen = 3
    BufferSize = 21
    NumRestFields = 1
    PriTokens <- Pris
    PriValue <- Values
    ExtractionDrops <- Drops
    Streams <- SmallStreams
    PieceSizes <- Pieces
    FlushInterval = 1
    MaxTime = 6
INVARIANTS
    SplitAsDefined
    ParsedAsWritten
    FlushedInTime
