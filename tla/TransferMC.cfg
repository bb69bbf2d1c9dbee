CONSTANTS
    Base = 4
    kTopValue = 64
    kBitModelTotal = 8
    MoveScale = 4
    Contexts <- AllContexts
    FlushShifts = 5
    MaxShifts = 10
    NumLitBits = 2
    lc = 1
    lp = 1
    pb = 1
    kLenNumLowBits = 1
    kLenNumMidBits = 1
    kLenNumHighBits = 1
    kNumPosSlotBits = 4
    kEndPosModelIndex = 6
    kNumAlignBits = 1
    DicBufSize = 5
    RcInitSize = 5
    LZMA_REQUIRED_INPUT_MAX = 10
    Messages <- MCMessages
    Amounts <- MCAmounts
    Rooms <- MCRooms
    Damaged <- MCDamaged
SPECIFICATION Spec
CHECK_DEADLOCK FALSE
INVARIANTS RangeTypeOK DecoderTypeOK SumIsExact CarryHasRoom
    NeverOverreads OnlyWrittenIsRead SymbolsReadBack
    MeaningIsText OutputIsMeaning
PROPERTIES ImplementsContract CallsReturn
