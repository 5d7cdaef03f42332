SPECIFICATION Spec
CONSTANTS
    Cpu = Cpu
    Dsp = Dsp
    Nobody = Nobody
    Thread <- MCThread
    Irq = {14}
    Lines = 1
    Low = {a}
    High = {h}
    VectoredIrq = {14}
    HostIrq = {14}
    PeripheralIrq = {}
    SoftIrq = {14}
    Masks = {{0, 1}}
    Switches = {{}}
    MaxDepth = 1
PROPERTY InterruptsTaken
