SPECIFICATION ProgramsSpec
CONSTANTS
    WordBits = 4
    GuardBits = 4
    ModBits = 3
    StepBits = 3
    Junk <- MCJunk
    AccValues <- MCAccValues
    EdgeValues <- MCEdgeValues
    Factors <- MCFactors
    LongValues <- MCLongValues
    Vectors <- MCVectors
    WordValues <- MCWordValues
INVARIANTS
    RoutineTypeOK
    DividesExactly
    Normalises
    Multiplies
    ExactOrFlagged
    Decides
    FindsBest
    VisitsInOrder
    ContextKept
    StackKeeps
CHECK_DEADLOCK FALSE
