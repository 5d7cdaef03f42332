------------------------------ MODULE Transfer ------------------------------
(***************************************************************************)
(* DMA transfers between DSP memory and external memory: the firmware      *)
(* writes the registers of a DMA channel and of the bridge, starts the     *)
(* channel and is interrupted when everything is copied.  In between the   *)
(* host reads and writes external memory through bridge channel 0, as      *)
(* Teakra::AHBMRead16 and AHBMWrite16 do, and resets the system.           *)
(***************************************************************************)
EXTENDS Dma, FiniteSets

CONSTANTS
    Plans,          \* the register values the firmware transfers with
    MiuConfigs,     \* the values it gives the memory interface
    HostAddress,    \* the external addresses the host accesses
    HostValue,      \* what the host writes
    InitialMemory, InitialExternal,
    MaxOps          \* bound: transfers and host accesses together

\* A channel is reset to 0, and a DMA channel no bridge channel serves uses 0.  The
\* sizes are as wide as the counters.
ASSUME TransferAssumption ==
    /\ 0 \in DmaChannel /\ DmaChannel \subseteq Nat
    /\ 0 \in AhbmChannel /\ AhbmChannel \subseteq Nat
    /\ MaxOps \in Nat
    /\ InitialMiu \in MiuConfigs /\ MiuConfigs \subseteq MiuState
    /\ Plans # {}
    /\ \A p \in Plans :
        /\ p.channel \in DmaChannel
        /\ p.dma \in [Register -> Nat]
        /\ \A r \in {"size0", "size1", "size2"} : p.dma[r] < CounterWidth
        /\ \A i \in AhbmChannel : p.ahbm[i] \in AhbmState

VARIABLES
    phase,          \* of the firmware
    plan,           \* the values it is writing
    ops,
    clean,          \* history: the bridge's queue was empty at the start
    before          \* history: both memories at the start

transferVars == <<memoryVars, ahbmVars, dmaVars, phase, plan, ops, clean, before>>

Snapshot == [memory |-> memory, external |-> external]
NoSnapshot == [memory |-> InitialMemory, external |-> InitialExternal]

NoPlan == CHOOSE p \in Plans : TRUE        \* nothing reads it

TransferTypeOK ==
    /\ AhbmTypeOK
    /\ DmaTypeOK
    /\ miu \in MiuConfigs
    /\ phase \in {"idle", "writing", "running", "done"}
    /\ phase = "running" <=> running # NoChannel
    /\ plan.channel \in DmaChannel
    /\ ops \in 0 .. MaxOps
    /\ clean \in BOOLEAN

TransferInit ==
    /\ memory = InitialMemory
    /\ miu = InitialMiu
    /\ ahbm = [i \in AhbmChannel |-> InitialAhbm]
    /\ burst_queue = [i \in AhbmChannel |-> <<>>]
    /\ write_burst_start = [i \in AhbmChannel |-> 0]
    /\ external = InitialExternal
    /\ channels = [d \in DmaChannel |-> InitialChannel]
    /\ active_channel = 0
    /\ dma_current = NoTransfer
    /\ running = NoChannel
    /\ phase = "idle"
    /\ plan = NoPlan
    /\ ops = 0
    /\ clean = TRUE
    /\ before = NoSnapshot

-----------------------------------------------------------------------------
Operation ==
    /\ phase = "idle"
    /\ ops < MaxOps
    /\ ops' = ops + 1

\* The firmware sets out to transfer: it binds the channel.
Choose ==
    /\ Operation
    /\ \E p \in Plans :
        /\ plan' = p
        /\ ActivateChannel(p.channel)
    /\ phase' = "writing"
    /\ UNCHANGED <<memoryVars, ahbmVars, clean, before>>

\* Registers that already hold what the plan wants are not written.
DmaToWrite == {r \in Register : channels[plan.channel][r] # plan.dma[r]}
AhbmToWrite ==
    {ir \in AhbmChannel \X DOMAIN InitialAhbm : ahbm[ir[1]][ir[2]] # plan.ahbm[ir[1]][ir[2]]}

WriteDma ==
    /\ phase = "writing"
    /\ DmaToWrite # {}
    /\ LET r == CHOOSE r \in DmaToWrite : TRUE IN SetRegister(r, plan.dma[r])
    /\ UNCHANGED <<memoryVars, ahbmVars, phase, plan, ops, clean, before>>

WriteAhbm ==
    /\ phase = "writing"
    /\ DmaToWrite = {}
    /\ AhbmToWrite # {}
    /\ LET ir == CHOOSE ir \in AhbmToWrite : TRUE IN
        SetAhbm(ir[1], ir[2], plan.ahbm[ir[1]][ir[2]])
    /\ UNCHANGED <<memoryVars, dmaVars, phase, plan, ops, clean, before>>

StartTransfer ==
    /\ phase = "writing"
    /\ DmaToWrite = {} /\ AhbmToWrite = {}
    /\ Start
    /\ phase' = "running"
    /\ clean' = (burst_queue[GetChannelForDma(active_channel)] = <<>>)
    /\ before' = Snapshot
    /\ UNCHANGED <<memoryVars, ahbmVars, plan, ops>>

RunTransfer ==
    /\ phase = "running"
    /\ Tick
    /\ phase' = IF running' = NoChannel THEN "done" ELSE "running"
    /\ UNCHANGED <<plan, ops, clean, before>>

\* The interrupt handler is called, IRQ 0xF, and SetZ returns.
Interrupt ==
    /\ phase = "done"
    /\ phase' = "idle"
    /\ before' = NoSnapshot
    /\ clean' = TRUE
    /\ plan' = NoPlan
    /\ UNCHANGED <<memoryVars, ahbmVars, dmaVars, ops>>

\* The host's accesses, on bridge channel 0 whatever the firmware set it up for.
HostRead16 ==
    /\ Operation
    /\ \E address \in HostAddress : PopRead(0, address)
    /\ UNCHANGED <<memoryVars, dmaVars, phase, plan, clean, before>>

HostWrite16 ==
    /\ Operation
    /\ \E address \in HostAddress : Write16(0, burst_queue[0], address, HostValue)
    /\ UNCHANGED <<memoryVars, dmaVars, phase, plan, clean, before>>

\* The memory interface is set up, and the processor or the host stores a word.
WriteMiu ==
    /\ Operation
    /\ \E registers \in MiuConfigs : SetMiu(registers)
    /\ UNCHANGED <<ahbmVars, dmaVars, phase, plan, clean, before>>

StoreWord ==
    /\ Operation
    /\ LET value == <<HostValue[1], HostValue[2]>> IN
        \/ \E addr \in Address : DataWrite(addr, value, FALSE)
        \/ DataWriteA32(2 * Bank, value)
    /\ UNCHANGED <<ahbmVars, dmaVars, phase, plan, clean, before>>

ResetAll ==
    /\ Operation
    /\ ResetMemory(<<ZeroByte, ZeroByte>>)
    /\ ResetAhbm
    /\ ResetDma
    /\ UNCHANGED <<phase, plan, clean, before>>

TransferNext ==
    \/ Choose \/ WriteDma \/ WriteAhbm \/ StartTransfer \/ RunTransfer \/ Interrupt
    \/ HostRead16 \/ HostWrite16 \/ WriteMiu \/ StoreWord \/ ResetAll

\* SetZ does not return before its loop is over: the DSP thread keeps going.
TransferSpec ==
    TransferInit /\ [][TransferNext]_transferVars /\ WF_transferVars(RunTransfer)

-----------------------------------------------------------------------------
(***************************************************************************)
(* The transfer as dma.md describes it: a three-dimensional array.         *)
(***************************************************************************)
AtLeastOne(n) == IF n = 0 THEN 1 ELSE n

Size0(c) == AtLeastOne((c.size0 + Counted(c) - 1) \div Counted(c))
Size1(c) == AtLeastOne(c.size1)
Size2(c) == AtLeastOne(c.size2)
Elements(c) == 0 .. Size0(c) * Size1(c) * Size2(c) - 1

\* Element k starts row k \div Size0 and plane k \div (Size0 * Size1); every other
\* step so far was one of dimension 0.
At(start, step0, step1, step2, c, k) ==
    LET rows   == k \div Size0(c)
        planes == k \div (Size0(c) * Size1(c))
    IN  start + (k - rows) * step0 + (rows - planes) * step1 + planes * step2

SrcAt(c, k) == At(c.addr_src, c.src_step0, c.src_step1, c.src_step2, c, k)
DstAt(c, k) == At(c.addr_dst, c.dst_step0, c.dst_step1, c.dst_step2, c, k)

ElementWidth(c) == 2 * Counted(c)       \* in bytes

\* The bytes of the element at an address: <<space, word or byte address, byte>>.
BytesAt(c, space, a) ==
    IF space = 7
    THEN [n \in 1 .. ElementWidth(c) |-> <<7, AlignDown(a, ElementWidth(c)) + n - 1, 1>>]
    ELSE [n \in 1 .. ElementWidth(c) |->
            <<0, Offset + AlignDown(a, Counted(c)) + (n - 1) \div 2, 1 + ((n - 1) % 2)>>]

ValueOf(snapshot, byte) ==
    IF byte[1] = 7 THEN snapshot.external[byte[2]] ELSE snapshot.memory[byte[2]][byte[3]]

SrcBytes(c, k) == BytesAt(c, c.src_space, SrcAt(c, k))
DstBytes(c, k) == BytesAt(c, c.dst_space, DstAt(c, k))

BytesOf(seq) == {seq[n] : n \in DOMAIN seq}

\* The memories reach as far as the elements of every plan: the code indexes without
\* a check.
Present(byte) ==
    byte[2] \in IF byte[1] = 7 THEN DOMAIN InitialExternal ELSE DOMAIN InitialMemory
Backed(c) ==
    \A k \in Elements(c), n \in 1 .. ElementWidth(c) :
        /\ c.src_space \in {0, 7} => Present(SrcBytes(c, k)[n])
        /\ c.dst_space \in {0, 7} => Present(DstBytes(c, k)[n])

ASSUME BackedAssumption == \A p \in Plans : Backed(p.dma)

\* Source and destination apart, and no element written twice.
Apart(c) ==
    LET written == UNION {BytesOf(DstBytes(c, k)) : k \in Elements(c)}
        read    == UNION {BytesOf(SrcBytes(c, k)) : k \in Elements(c)}
    IN  /\ written \cap read = {}
        /\ Cardinality(written) = Cardinality(Elements(c)) * ElementWidth(c)

UsesBridge(c) == 7 \in {c.src_space, c.dst_space}

\* The transfer is a whole number of bursts.
WholeBursts(c, bridge) == Cardinality(Elements(c)) % bridge.burst_size = 0

\* The bridge moves units of the element's width, from aligned addresses, and the
\* elements of one burst lie one after the other in external memory.
InBursts(c, bridge, address(_)) ==
    /\ Width(bridge.unit_size) = ElementWidth(c)
    /\ \A k \in Elements(c) :
        /\ address(k) % ElementWidth(c) = 0
        /\ k % bridge.burst_size # 0 => address(k) = address(k - 1) + ElementWidth(c)

Plain(c, bridge) ==
    /\ {c.src_space, c.dst_space} \in {{0}, {0, 7}}
    /\ Apart(c)
    /\ c.src_space = 7 => InBursts(c, bridge, LAMBDA k : SrcAt(c, k))
    /\ c.dst_space = 7 => InBursts(c, bridge, LAMBDA k : DstAt(c, k)) /\ WholeBursts(c, bridge)

-----------------------------------------------------------------------------
Config == channels[active_channel]
Bridge == ahbm[GetChannelForDma(active_channel)]

\* When the interrupt is raised the array has been copied and nothing else has
\* changed: three counters and two running addresses visit the elements dma.md
\* describes, and bursts read ahead and written late move the same units.  It
\* takes a queue without leftovers and a bridge set up for the element's width.
CopiesArray ==
    phase = "done" /\ clean /\ Plain(Config, Bridge) =>
        LET dst == UNION {BytesOf(DstBytes(Config, k)) : k \in Elements(Config)} IN
        /\ \A k \in Elements(Config), n \in 1 .. ElementWidth(Config) :
            ValueOf(Snapshot, DstBytes(Config, k)[n]) =
                ValueOf(before, SrcBytes(Config, k)[n])
        /\ \A a \in DOMAIN external : <<7, a, 1>> \notin dst =>
            external[a] = before.external[a]
        /\ \A a \in DOMAIN memory, b \in {1, 2} : <<0, a, b>> \notin dst =>
            memory[a][b] = before.memory[a][b]

\* A transfer of whole bursts that found the bridge's queue empty leaves it empty,
\* so the next transfer does not start with words of this one.
NoLeftovers ==
    /\ phase = "done" /\ clean
    /\ Cardinality({s \in {"src_space", "dst_space"} : Config[s] = 7}) = 1
    /\ WholeBursts(Config, Bridge)
    => burst_queue[GetChannelForDma(active_channel)] = <<>>

\* A transfer that was started raises its interrupt: the counters reach their
\* sizes although they wrap.
TransferEnds == phase = "running" ~> phase = "done"

\* The processor and the host see one memory: the word an address of the processor
\* hits is the one the host reaches at the page's flat address.  In paging mode 1
\* the X page goes up to the X size: the boundary word itself, which the code
\* gives to X, is left to the code.
OneMemory ==
    \A addr \in Address :
        LET access == Access(miu, addr, TRUE)
            page == IF miu.page_mode = 0 THEN miu.z_page
                    ELSE IF addr < miu.x_size * Resolution THEN miu.x_page ELSE miu.y_page
        IN  /\ miu.page_mode = 1 => addr # miu.x_size * Resolution
            => access = <<"word", FlatAddress(page * Bank + addr)>>
=============================================================================
