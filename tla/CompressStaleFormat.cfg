SPECIFICATION Spec
CONSTANTS
    RcBufSize = 3
    BlockLength = 2
    MaxStretch = 2
    KeepSizeAfter = 1
    BlockCode = 3
    InputMax = 1
    Sizes <- MCSizes
    MaxRuns = 1
INVARIANTS
    OutputHasFormat
