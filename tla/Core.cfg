SPECIFICATION Spec
CONSTANTS
    Cpu = Cpu
    Dsp = Dsp
    Nobody = Nobody
    Thread <- MCThread
    Irq = {14}
    Lines = 1
    Low = {a, b}
    High = {h}
    VectoredIrq = {14}
    HostIrq = {14}
    PeripheralIrq = {14}
    SoftIrq = {}
    Masks = {{0, 1}}
    Switches = {{0}}
    MaxDepth = 2
INVARIANT TypeOK
INVARIANT NoLostInterrupt
INVARIANT VectorsWhole
PROPERTY IntactAlone
