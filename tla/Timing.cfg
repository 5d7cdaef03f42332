SPECIFICATION TimingSpec
CONSTANTS
    HalfRange = 2
    Capacity = 4
    Period = 2
    Sample = {zero, one}
    Silence = zero
    TimerId = {t0}
    BtdmpId = {b0}
    StartHalves = {0, 1}
    Modes = {0, 1, 2, 3}
    Updates = {TRUE}
    ZeroRestart = FALSE
    MaxTurn = 5
INVARIANT TimingTypeOK
INVARIANT MaySkip
INVARIANT FlagsAgree
PROPERTY ImplementsTicking
