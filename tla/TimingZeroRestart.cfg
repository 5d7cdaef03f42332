SPECIFICATION TimingSpec
CONSTANTS
    HalfRange = 2
    Capacity = 2
    Period = 2
    Sample = {zero, one}
    Silence = zero
    TimerId = {t0}
    BtdmpId = {}
    StartHalves = {0, 1}
    Modes = {0, 1, 2, 3}
    Updates = {TRUE, FALSE}
    ZeroRestart = TRUE
    MaxTurn = 4
PROPERTY RestartLoadsStart
