SPECIFICATION FairSpec
CONSTANTS
    NumConns = 2
    NumRecords <- RecordsSent
    MaxClientNumber = 2
    LogBufferCap = 2
    MaxReloads = 1
    Assumed <- CarefulEnvironment
INVARIANTS NeverPanics DeliveredInOrder SinksAreCurrent GenerationsAreClean
PROPERTY AlwaysEnds
