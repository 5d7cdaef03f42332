SPECIFICATION Spec
CONSTANTS
    Programs <- MCPrograms
    HandlerAddress <- MCHandlerAddress
    MaxInterrupts = 2
INVARIANTS
    LoopTypeOK
    NeverAborts
    FollowsProgram
    IdleWaits
PROPERTIES
    Completes
