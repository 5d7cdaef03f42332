SPECIFICATION TransferSpec
CONSTANTS
    Bank = 16
    Offset = 4
    MMIOSize = 4
    Resolution = 4
    InitialMiu <- MCMiu
    AhbmChannel = {0, 1}
    DmaChannel = {0, 1}
    ZeroByte = 0
    CounterWidth = 16
    Plans <- MCPlans
    MiuConfigs <- MCMiuConfigs
    HostAddress = {0, 1}
    HostValue <- MCHostValue
    InitialMemory <- MCMemory
    InitialExternal <- MCExternal
    MaxOps = 2
INVARIANT TransferTypeOK
INVARIANT CopiesArray
INVARIANT NoLeftovers
INVARIANT OneMemory
PROPERTY TransferEnds
CHECK_DEADLOCK FALSE
