SPECIFICATION FairSpec
CONSTANTS
    RcBufSize = 3
    BlockLength = 2
    MaxStretch = 2
    KeepSizeAfter = 1
    BlockCode = 3
    InputMax = 4
    Sizes <- MCSizes
    MaxRuns = 2
INVARIANTS
    TypeOK
    BufferNotOverrun
    OkMeansComplete
    ErrorsHaveCauses
    FreedAfterOneRun
PROPERTIES
    SilentAfterRefusal
    RunsReturn
