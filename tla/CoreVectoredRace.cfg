SPECIFICATION Spec
CONSTANTS
    Cpu = Cpu
    Dsp = Dsp
    Nobody = Nobody
    Thread <- MCThread
    Irq = {0}
    Lines = 0
    Low = {a, b}
    High = {h}
    VectoredIrq = {0}
    HostIrq = {0}
    PeripheralIrq = {}
    SoftIrq = {}
    Masks = {{0}}
    Switches = {{}}
    MaxDepth = 1
PROPERTY VectoredCallIntact
