CONSTANTS
    Length = 13
    Texts <- MCTexts
    Letters = 2
    HashSize = 4
    HistorySize = 8
    numFastBytes = 5
    Settings <- MCSettings
    Price <- MCPrice
    kNumOpts = 9
    LZMA_MATCH_LEN_MAX = 7
    kPairFactor = 2
    FarForTwo = 3
    FarByOne = 2
    FarByTwo = 4
    NumLitBits = 2
    lc = 1
    lp = 1
    pb = 1
    kLenNumLowBits = 1
    kLenNumMidBits = 1
    kLenNumHighBits = 1
    kNumPosSlotBits = 3
    kEndPosModelIndex = 6
    kNumAlignBits = 1
SPECIFICATION Spec
INVARIANTS MatchesAreReal MatchesAreLongest SymbolsMakeText PathsAreCoded
PROPERTIES EveryStepAdvances
