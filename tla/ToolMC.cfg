CONSTANTS
    MinLog = 2
    MaxLog = 4
    DicMin = 1
    DicMax = 32
    SizeWord = 8
    Lengths = {0, 2, 6, 8, 9}
    MaxRuns = 3
    Commands <- MCCommands
SPECIFICATION Spec
CHECK_DEADLOCK FALSE
INVARIANTS
    TypeOK
    InputNeverLost
    SuccessMeansWhole
    TextRecoverable
