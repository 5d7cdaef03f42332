SPECIFICATION MCSpec
CONSTANTS
    Cpu = Cpu
    Dsp = Dsp
    Nobody = Nobody
    Thread <- MCThread
    Irq = {14}
    Lines = 1
    Low = {a}
    High = {h}
    VectoredIrq = {}
    HostIrq = {14}
    PeripheralIrq = {}
    SoftIrq = {14}
    Masks = {{0}}
    Switches = {{}}
    MaxDepth = 1
    Channels = 2
    Channel = {0, 1}
    Word = {zero}
    Zero = zero
    Bit = {b0, b1}
    ApbpIrq = 14
    Polled = 0
INVARIANT LinkTypeOK
INVARIANT NoStrandedWord
INVARIANT NoStrandedBit
PROPERTY WordsTaken
PROPERTY BitsCleared
PROPERTY HostReturns
