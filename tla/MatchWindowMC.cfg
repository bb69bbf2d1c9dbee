SPECIFICATION Spec
CONSTANTS
    HistorySize = 2
    KeepAddBefore = 1
    MatchMaxLen = 2
    KeepAddAfter = 1
    Reserve = 2
    MinLen = 2
    MaxVal = 8
    NormalizeStep = 2
    h1 = h1
    h2 = h2
    Hashes <- MCHashes
    StreamMax = 14
INVARIANTS
    TypeOK
    HistoryRetained
    LookaheadInBlock
    LookaheadKept
    LenLimitExact
    ReferencesExact
