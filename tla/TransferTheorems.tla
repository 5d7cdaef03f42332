-------------------------- MODULE TransferTheorems --------------------------
(***************************************************************************)
(* DMA transfers for any channels, plans and memories: the types, the one  *)
(* memory of processor and host, the elements a transfer visits, the queue *)
(* a transfer leaves behind, and the array that it has copied, for any     *)
(* sizes, steps, burst sizes and wirings of the bridge.                    *)
(***************************************************************************)
EXTENDS Transfer, NaturalLemmas, FiniteSetTheorems

-----------------------------------------------------------------------------
(***************************************************************************)
(* The memory interface                                                    *)
(***************************************************************************)
\* An address of two banks is its own remainder.
LEMMA InTwoBanks ==
    ASSUME NEW x \in 0 .. 2 * Bank - 1
    PROVE  x % (2 * Bank) = x
<1>1. 2 * Bank \in Nat \ {0}
  BY MemoryAssumption
<1>2. QED
  BY <1>1

\* In every state of the memory interface the processor's address and the host's
\* flat address of the page name one word.
LEMMA OneWord ==
    ASSUME NEW u \in MiuState, NEW addr \in Address
    PROVE  LET page == IF u.page_mode = 0 THEN u.z_page
                       ELSE IF addr < u.x_size * Resolution THEN u.x_page ELSE u.y_page
           IN  (u.page_mode = 1 => addr # u.x_size * Resolution)
               => Access(u, addr, TRUE) = <<"word", FlatAddress(page * Bank + addr)>>
<1> DEFINE page == IF u.page_mode = 0 THEN u.z_page
                   ELSE IF addr < u.x_size * Resolution THEN u.x_page ELSE u.y_page
<1> SUFFICES ASSUME u.page_mode = 1 => addr # u.x_size * Resolution
             PROVE  Access(u, addr, TRUE) = <<"word", FlatAddress(page * Bank + addr)>>
  OBVIOUS
<1>1. /\ u.page_mode \in {0, 1} /\ u.z_page \in Page /\ u.x_page \in Page /\ u.y_page \in Page
      /\ u.x_size * Resolution \in Nat
      /\ Bank \in Nat \ {0} /\ Offset \in Nat /\ addr \in 0 .. Bank - 1
  BY MemoryAssumption DEF MiuState, Address
<1>2. DataPage(u, addr) = page
  BY <1>1 DEF DataPage
<1>3. page \in {0, 1}
  BY <1>1 DEF Page
<1>4. page * Bank + addr \in 0 .. 2 * Bank - 1
  <2>1. CASE page = 0
    BY <1>1, <2>1
  <2>2. CASE page = 1
    BY <1>1, <2>2
  <2>3. QED
    BY <1>3, <2>1, <2>2
<1>5. FlatAddress(page * Bank + addr) = Offset + (page * Bank + addr)
  BY <1>4, InTwoBanks DEF FlatAddress
<1>6. ConvertDataAddress(u, addr) = Offset + addr + page * Bank
  BY <1>2 DEF ConvertDataAddress
<1> HIDE DEF page
<1>7. page * Bank \in Int
  BY <1>1, <1>3
<1>8. Offset + addr + page * Bank = Offset + (page * Bank + addr)
  BY <1>1, <1>7
<1>9. QED
  BY <1>2, <1>3, <1>5, <1>6, <1>8 DEF Access, Page

-----------------------------------------------------------------------------
(***************************************************************************)
(* The bridge                                                              *)
(***************************************************************************)
\* Some bridge channel serves every DMA channel.
LEMMA SomeBridge ==
    ASSUME NEW d
    PROVE  GetChannelForDma(d) \in AhbmChannel
<1> DEFINE connected == {i \in AhbmChannel : d \in ahbm[i].dma_channel}
<1>1. CASE connected = {}
  BY <1>1, TransferAssumption DEF GetChannelForDma
<1>2. CASE connected # {}
  <2>1. \E i \in connected : \A j \in connected : i <= j
    BY <1>2, TransferAssumption, LeastNatural
  <2>2. QED
    BY <1>2, <2>1 DEF GetChannelForDma
<1>3. QED
  BY <1>1, <1>2

LEMMA FunctionIsSequence ==
    ASSUME NEW S, NEW n \in Nat, NEW f \in [1 .. n -> S]
    PROVE  f \in Seq(S) /\ Len(f) = n
<1>1. Seq(S) = UNION {[1 .. k -> S] : k \in Nat}
  OBVIOUS
<1>2. f \in Seq(S)
  BY <1>1
<1>3. QED
  BY <1>2

\* A sequence, whatever it holds.
IsQueue(q) == q \in Seq({q[n] : n \in DOMAIN q})

LEMMA QueueOf ==
    ASSUME NEW S, NEW q \in Seq(S)
    PROVE  IsQueue(q)
<1> DEFINE T == {q[n] : n \in DOMAIN q}
<1>1. Len(q) \in Nat /\ q \in [1 .. Len(q) -> S]
  OBVIOUS
<1>2. q \in [1 .. Len(q) -> T]
  BY <1>1
<1> HIDE DEF T
<1>3. q \in Seq(T)
  BY <1>1, <1>2, FunctionIsSequence
<1>4. QED
  BY <1>3 DEF IsQueue, T

LEMMA EmptyQueue == IsQueue(<<>>) /\ Len(<<>>) = 0
<1>1. <<>> \in Seq({0}) /\ Len(<<>>) = 0
  OBVIOUS
<1>2. QED
  BY <1>1, QueueOf

\* What a queue holds after a unit went in or out.
LEMMA QueueSteps ==
    ASSUME NEW q, IsQueue(q)
    PROVE  /\ Len(q) \in Nat
           /\ q = <<>> <=> Len(q) = 0
           /\ q # <<>> => IsQueue(Tail(q)) /\ Len(Tail(q)) = Len(q) - 1
           /\ \A v : IsQueue(Append(q, v)) /\ Len(Append(q, v)) = Len(q) + 1
<1> DEFINE S == {q[n] : n \in DOMAIN q}
<1>1. q \in Seq(S)
  BY DEF IsQueue
<1> HIDE DEF S
<1>2. Len(q) \in Nat /\ (q = <<>> <=> Len(q) = 0)
  BY <1>1
<1>3. ASSUME q # <<>>
      PROVE  Tail(q) \in Seq(S) /\ Len(Tail(q)) = Len(q) - 1
  BY <1>1, <1>3
<1>4. ASSUME NEW v
      PROVE  Append(q, v) \in Seq(S \cup {v}) /\ Len(Append(q, v)) = Len(q) + 1
  <2>1. q \in Seq(S \cup {v})
    BY <1>1
  <2>2. QED
    BY <2>1
<1>5. QED
  BY <1>2, <1>3, <1>4, QueueOf

\* A burst that is read is a queue of the burst's size.
LEMMA BurstRead ==
    ASSUME NEW i \in AhbmChannel, NEW address, ahbm[i] \in AhbmState
    PROVE  /\ IsQueue(ReadBurst(i, address))
           /\ Len(ReadBurst(i, address)) = ahbm[i].burst_size
<1> DEFINE e(n) == ReadUnit(ahbm[i].unit_size, address + (n - 1) * Width(ahbm[i].unit_size))
           size == ahbm[i].burst_size
           S == {e(n) : n \in 1 .. size}
<1>1. size \in Nat
  BY DEF AhbmState, BurstSize
<1>2. ReadBurst(i, address) = [n \in 1 .. size |-> e(n)]
  BY DEF ReadBurst
<1> HIDE DEF e, size
<1>3. [n \in 1 .. size |-> e(n)] \in [1 .. size -> S]
  OBVIOUS
<1> HIDE DEF S
<1>4. [n \in 1 .. size |-> e(n)] \in Seq(S) /\ Len([n \in 1 .. size |-> e(n)]) = size
  BY <1>1, <1>3, FunctionIsSequence
<1>5. QED
  BY <1>2, <1>4, QueueOf DEF size

\* The queue left by a read, and by a write that found a queue.
LEMMA ReadQueue ==
    ASSUME NEW i \in AhbmChannel, NEW address, ahbm[i] \in AhbmState, IsQueue(burst_queue[i])
    PROVE  /\ IsQueue(Popped(i, address))
           /\ Len(Popped(i, address)) =
                IF Len(burst_queue[i]) = 0 THEN ahbm[i].burst_size - 1
                                           ELSE Len(burst_queue[i]) - 1
<1>1. ahbm[i].burst_size \in Nat /\ ahbm[i].burst_size > 0
  BY DEF AhbmState, BurstSize
<1>2. Len(burst_queue[i]) \in Nat /\ (burst_queue[i] = <<>> <=> Len(burst_queue[i]) = 0)
  BY QueueSteps
<1>3. CASE burst_queue[i] = <<>>
  <2>1. Popped(i, address) = Tail(ReadBurst(i, address))
    BY <1>3 DEF Popped, Filled
  <2>2. ReadBurst(i, address) # <<>>
    BY <1>1, BurstRead, QueueSteps
  <2>3. QED
    BY <1>2, <1>3, <2>1, <2>2, BurstRead, QueueSteps
<1>4. CASE burst_queue[i] # <<>>
  BY <1>2, <1>4, QueueSteps DEF Popped, Filled
<1>5. QED
  BY <1>3, <1>4

LEMMA WrittenQueue ==
    ASSUME NEW i \in AhbmChannel, NEW found, IsQueue(found), NEW address, NEW v,
           ahbm[i] \in AhbmState,
           DOMAIN burst_queue = AhbmChannel, WriteInternal(i, found, address, v)
    PROVE  /\ IsQueue(burst_queue'[i])
           /\ Len(burst_queue'[i]) =
                IF Len(found) + 1 >= ahbm[i].burst_size THEN 0 ELSE Len(found) + 1
           /\ DOMAIN burst_queue' = AhbmChannel
           /\ \A j \in AhbmChannel \ {i} : burst_queue'[j] = burst_queue[j]
           /\ UNCHANGED ahbm
           /\ DOMAIN write_burst_start' = DOMAIN write_burst_start
<1>1. IsQueue(Append(found, v)) /\ Len(Append(found, v)) = Len(found) + 1
  BY QueueSteps
<1>2. CASE BurstFull(i, Append(found, v))
  BY <1>1, <1>2, EmptyQueue DEF WriteInternal, BurstFull
<1>3. CASE ~BurstFull(i, Append(found, v))
  <2>1. Len(found) \in Nat /\ ahbm[i].burst_size \in Nat
    BY QueueSteps DEF AhbmState, BurstSize
  <2>2. QED
    BY <1>1, <1>3, <2>1 DEF WriteInternal, BurstFull
<1>4. QED
  BY <1>2, <1>3
-----------------------------------------------------------------------------
(***************************************************************************)
(* Types                                                                   *)
(***************************************************************************)
ChannelState ==
    {c \in [Register -> Nat] :
        /\ c.size0 < CounterWidth /\ c.size1 < CounterWidth /\ c.size2 < CounterWidth}

BridgeTypes ==
    /\ ahbm \in [AhbmChannel -> AhbmState]
    /\ DOMAIN burst_queue = AhbmChannel
    /\ \A i \in AhbmChannel : IsQueue(burst_queue[i]) /\ Len(burst_queue[i]) <= 7
    /\ DOMAIN write_burst_start = AhbmChannel

EngineTypes ==
    /\ channels \in [DmaChannel -> ChannelState]
    /\ active_channel \in DmaChannel
    /\ running \in DmaChannel \cup {NoChannel}
    /\ dma_current \in TransferState

FirmwareTypes ==
    /\ phase \in {"idle", "writing", "running", "done"}
    /\ phase = "running" <=> running # NoChannel
    /\ plan \in Plans
    /\ ops \in 0 .. MaxOps
    /\ clean \in BOOLEAN

Types == BridgeTypes /\ EngineTypes /\ FirmwareTypes /\ miu \in MiuConfigs

USE DEF NoChannel

LEMMA TypesSuffice == ASSUME Types PROVE TransferTypeOK
<1>1. AhbmTypeOK
  BY DEF Types, BridgeTypes, AhbmTypeOK
<1>2. DmaTypeOK
  BY DEF Types, EngineTypes, DmaTypeOK, ChannelState
<1>3. QED
  BY <1>1, <1>2, TransferAssumption DEF Types, FirmwareTypes, TransferTypeOK

\* The registers after a reset, and those of a plan.
LEMMA ResetChannels == [d \in DmaChannel |-> InitialChannel] \in [DmaChannel -> ChannelState]
<1>1. InitialChannel \in [Register -> Nat]
  BY DEF InitialChannel
<1>2. InitialChannel.size0 = 0 /\ InitialChannel.size1 = 0 /\ InitialChannel.size2 = 0
  BY DEF InitialChannel, Register
<1>3. InitialChannel \in ChannelState
  BY <1>1, <1>2, DmaAssumption DEF ChannelState
<1>4. QED
  BY <1>3

LEMMA ResetBridge == [i \in AhbmChannel |-> InitialAhbm] \in [AhbmChannel -> AhbmState]
  BY DEF InitialAhbm, AhbmState, UnitSize, BurstSize

LEMMA NoTransferType == NoTransfer \in TransferState
  BY DmaAssumption, TransferAssumption DEF NoTransfer, TransferState

LEMMA InitTypes == ASSUME TransferInit PROVE Types
<1>1. BridgeTypes
  BY ResetBridge, EmptyQueue DEF TransferInit, BridgeTypes
<1>2. EngineTypes
  BY ResetChannels, NoTransferType, TransferAssumption DEF TransferInit, EngineTypes
<1>3. FirmwareTypes
  BY TransferAssumption DEF TransferInit, FirmwareTypes, NoPlan
<1>4. QED
  BY <1>1, <1>2, <1>3, TransferAssumption DEF Types, TransferInit

-----------------------------------------------------------------------------
\* What a step of one element leaves, field by field.
LEMMA SteppedRecord ==
    ASSUME NEW t \in TransferState, NEW c
    PROVE  /\ ~RowEnds(t, c) => Stepped(t, c) =
                [src |-> t.src + c.src_step0, dst |-> t.dst + c.dst_step0,
                 counter0 |-> Add(t.counter0, Counted(c)), counter1 |-> t.counter1,
                 counter2 |-> t.counter2, ahbm_channel |-> t.ahbm_channel]
           /\ RowEnds(t, c) /\ ~PlaneEnds(t, c) => Stepped(t, c) =
                [src |-> t.src + c.src_step1, dst |-> t.dst + c.dst_step1, counter0 |-> 0,
                 counter1 |-> Add(t.counter1, 1), counter2 |-> t.counter2,
                 ahbm_channel |-> t.ahbm_channel]
           /\ RowEnds(t, c) /\ PlaneEnds(t, c) => Stepped(t, c) =
                [src |-> t.src + c.src_step2, dst |-> t.dst + c.dst_step2, counter0 |-> 0,
                 counter1 |-> 0, counter2 |-> Add(t.counter2, 1),
                 ahbm_channel |-> t.ahbm_channel]
<1>1. t = [src |-> t.src, dst |-> t.dst, counter0 |-> t.counter0, counter1 |-> t.counter1,
           counter2 |-> t.counter2, ahbm_channel |-> t.ahbm_channel]
  BY DEF TransferState
<1>2. CASE ~RowEnds(t, c)
  <2>1. Stepped(t, c) = [Step0(t, c) EXCEPT !.counter0 = Add(@, Counted(c))]
    BY <1>2 DEF Stepped
  <2>2. QED
    BY <1>1, <1>2, <2>1 DEF Step0
<1>3. CASE RowEnds(t, c) /\ ~PlaneEnds(t, c)
  <2>1. Stepped(t, c) = NextRow(t, c)
    BY <1>3 DEF Stepped
  <2>2. QED
    BY <1>1, <1>3, <2>1 DEF NextRow, Step1
<1>4. CASE RowEnds(t, c) /\ PlaneEnds(t, c)
  <2>1. Stepped(t, c) = NextPlane(t, c)
    BY <1>4 DEF Stepped
  <2>2. QED
    BY <1>1, <1>4, <2>1 DEF NextPlane, Step2
<1>5. QED
  BY <1>2, <1>3, <1>4

\* A step of one element leaves the running transfer well formed.
LEMMA SteppedType ==
    ASSUME NEW t \in TransferState, NEW c \in ChannelState
    PROVE  /\ Stepped(t, c) \in TransferState
           /\ Stepped(t, c).ahbm_channel = t.ahbm_channel
<1>1. /\ c.src_step0 \in Nat /\ c.src_step1 \in Nat /\ c.src_step2 \in Nat
      /\ c.dst_step0 \in Nat /\ c.dst_step1 \in Nat /\ c.dst_step2 \in Nat
  BY DEF ChannelState, Register
<1>2. \A x \in 0 .. CounterWidth - 1, n \in {1, 2} : Add(x, n) \in 0 .. CounterWidth - 1
  BY DmaAssumption DEF Add
<1>3. 0 \in 0 .. CounterWidth - 1
  BY DmaAssumption
<1>4. Counted(c) \in {1, 2}
  BY DEF Counted
<1>5. /\ t.src \in Nat /\ t.dst \in Nat /\ t.ahbm_channel \in AhbmChannel
      /\ t.counter0 \in 0 .. CounterWidth - 1 /\ t.counter1 \in 0 .. CounterWidth - 1
      /\ t.counter2 \in 0 .. CounterWidth - 1
  BY DEF TransferState
<1>6. QED
  BY <1>1, <1>2, <1>3, <1>4, <1>5, SteppedRecord DEF TransferState

\* What a write, a read and a tick leave in the queues.
LEMMA WriteTypes ==
    ASSUME BridgeTypes, NEW i \in AhbmChannel, NEW found, IsQueue(found), Len(found) <= 7,
           NEW address, NEW v, WriteInternal(i, found, address, v)
    PROVE  BridgeTypes'
<1>1. ahbm[i] \in AhbmState /\ DOMAIN burst_queue = AhbmChannel
  BY DEF BridgeTypes
<1>2. ahbm[i].burst_size \in {1, 4, 8} /\ Len(found) \in Nat
  BY <1>1, QueueSteps DEF AhbmState, BurstSize
<1>3. IsQueue(burst_queue'[i]) /\ Len(burst_queue'[i]) <= 7
  BY <1>1, <1>2, WrittenQueue
<1>4. QED
  BY <1>1, <1>3, WrittenQueue DEF BridgeTypes

LEMMA ReadTypes ==
    ASSUME BridgeTypes, NEW i \in AhbmChannel, NEW address
    PROVE  /\ IsQueue(Popped(i, address)) /\ Len(Popped(i, address)) <= 7
           /\ PopRead(i, address) => BridgeTypes'
<1>1. ahbm[i] \in AhbmState /\ IsQueue(burst_queue[i]) /\ Len(burst_queue[i]) <= 7
  BY DEF BridgeTypes
<1>2. ahbm[i].burst_size \in {1, 4, 8} /\ Len(burst_queue[i]) \in Nat
  BY <1>1, QueueSteps DEF AhbmState, BurstSize
<1>3. IsQueue(Popped(i, address)) /\ Len(Popped(i, address)) <= 7
  BY <1>1, <1>2, ReadQueue
<1>4. QED
  BY <1>3 DEF PopRead, BridgeTypes

LEMMA SendTypes ==
    ASSUME BridgeTypes, NEW t \in TransferState, NEW c, NEW v, SendElement(t, c, v)
    PROVE  BridgeTypes'
<1>1. t.ahbm_channel \in AhbmChannel
  BY DEF TransferState
<1>2. IsQueue(QueueFound(t, c)) /\ Len(QueueFound(t, c)) <= 7
  BY <1>1, ReadTypes DEF QueueFound, BridgeTypes
<1>3. CASE c.dst_space = 7
  BY <1>1, <1>2, <1>3, WriteTypes DEF SendElement, Write16, Write32
<1>4. CASE c.dst_space # 7 /\ c.src_space = 7
  BY <1>1, <1>4, ReadTypes DEF SendElement
<1>5. CASE c.dst_space # 7 /\ c.src_space # 7
  BY <1>5 DEF SendElement, ahbmVars, BridgeTypes
<1>6. QED
  BY <1>3, <1>4, <1>5

\* A register the firmware writes takes a value of the plan.
LEMMA WriteDmaTypes == ASSUME Types, WriteDma PROVE EngineTypes'
<1>1. PICK r \in Register : SetRegister(r, plan.dma[r])
  BY DEF WriteDma, DmaToWrite
<1> DEFINE c == channels[active_channel]
           d == [c EXCEPT ![r] = plan.dma[r]]
<1>2. active_channel \in DmaChannel /\ channels \in [DmaChannel -> ChannelState]
  BY DEF Types, EngineTypes
<1>3. /\ plan.dma[r] \in Nat
      /\ r \in {"size0", "size1", "size2"} => plan.dma[r] < CounterWidth
  BY TransferAssumption DEF Types, FirmwareTypes
<1>4. c \in ChannelState
  BY <1>2
<1>5. d \in [Register -> Nat]
  BY <1>3, <1>4 DEF ChannelState
<1>6. d.size0 < CounterWidth /\ d.size1 < CounterWidth /\ d.size2 < CounterWidth
  BY <1>3, <1>4 DEF ChannelState, Register
<1>7. d \in ChannelState
  BY <1>5, <1>6 DEF ChannelState
<1>8. channels' = [channels EXCEPT ![active_channel] = d]
  BY <1>1 DEF SetRegister
<1> HIDE DEF d
<1>9. channels' \in [DmaChannel -> ChannelState]
  BY <1>2, <1>7, <1>8
<1>10. QED
  BY <1>1, <1>9 DEF Types, EngineTypes, SetRegister

LEMMA WriteAhbmTypes == ASSUME Types, WriteAhbm PROVE BridgeTypes'
<1>1. PICK ir \in AhbmToWrite : SetAhbm(ir[1], ir[2], plan.ahbm[ir[1]][ir[2]])
  BY DEF WriteAhbm
<1>2. ir[1] \in AhbmChannel /\ ir[2] \in {"unit_size", "burst_size", "dma_channel"}
  BY <1>1 DEF AhbmToWrite, InitialAhbm
<1> DEFINE b == ahbm[ir[1]]
           d == [b EXCEPT ![ir[2]] = plan.ahbm[ir[1]][ir[2]]]
<1>3. b \in AhbmState /\ plan.ahbm[ir[1]] \in AhbmState
  BY <1>2, TransferAssumption DEF Types, BridgeTypes, FirmwareTypes
<1>4. d \in AhbmState
  BY <1>2, <1>3 DEF AhbmState
<1>5. ahbm' = [ahbm EXCEPT ![ir[1]] = d]
  BY <1>1 DEF SetAhbm
<1> HIDE DEF d
<1>6. ahbm' \in [AhbmChannel -> AhbmState]
  BY <1>4, <1>5 DEF Types, BridgeTypes
<1>7. QED
  BY <1>1, <1>6 DEF Types, BridgeTypes, SetAhbm

LEMMA RunTypes == ASSUME Types, RunTransfer PROVE Types'
<1> DEFINE c == channels[running]
<1>1. running \in DmaChannel /\ c \in ChannelState /\ dma_current \in TransferState
  BY DEF Types, EngineTypes, RunTransfer, Tick
<1>2. BridgeTypes'
  BY <1>1, SendTypes DEF Types, RunTransfer, Tick
<1>3. dma_current' \in TransferState /\ running' \in DmaChannel \cup {NoChannel}
  BY <1>1, SteppedType, NoTransferType DEF RunTransfer, Tick, Advance
<1>4. EngineTypes'
  BY <1>3 DEF Types, EngineTypes, RunTransfer, Tick
<1>5. FirmwareTypes'
  BY DEF Types, FirmwareTypes, RunTransfer
<1>6. QED
  BY <1>2, <1>4, <1>5 DEF Types, RunTransfer, Tick

LEMMA NextTypes == ASSUME Types, [TransferNext]_transferVars PROVE Types'
<1> USE DEF Types, FirmwareTypes
<1>1. CASE Choose
  <2>1. plan'.channel \in DmaChannel /\ plan' \in Plans
    BY <1>1, TransferAssumption DEF Choose
  <2>2. EngineTypes'
    BY <1>1, <2>1 DEF Choose, ActivateChannel, EngineTypes
  <2>3. BridgeTypes' /\ miu' \in MiuConfigs
    BY <1>1 DEF Choose, memoryVars, ahbmVars, BridgeTypes
  <2>4. ops' \in 0 .. MaxOps
    BY <1>1, TransferAssumption DEF Choose, Operation
  <2>5. QED
    BY <1>1, <2>1, <2>2, <2>3, <2>4 DEF Choose, Operation, ActivateChannel
<1>2. CASE WriteDma
  <2>1. running' = running
    BY <1>2 DEF WriteDma, SetRegister
  <2>2. QED
    BY <1>2, <2>1, WriteDmaTypes DEF WriteDma, memoryVars, ahbmVars, BridgeTypes
<1>3. CASE WriteAhbm
  BY <1>3, WriteAhbmTypes DEF WriteAhbm, memoryVars, dmaVars, EngineTypes
<1>4. CASE StartTransfer
  <2>1. active_channel \in DmaChannel /\ channels[active_channel] \in ChannelState
    BY DEF EngineTypes
  <2>2. channels[active_channel].addr_src \in Nat /\ channels[active_channel].addr_dst \in Nat
    BY <2>1 DEF ChannelState, Register
  <2>3. dma_current' \in TransferState
    BY <1>4, <2>2, SomeBridge, NoTransferType
    DEF StartTransfer, Start, TransferState, NoTransfer
  <2>4. EngineTypes' /\ running' # NoChannel
    BY <1>4, <2>1, <2>3, TransferAssumption DEF StartTransfer, Start, EngineTypes
  <2>5. QED
    BY <1>4, <2>4 DEF StartTransfer, memoryVars, ahbmVars, BridgeTypes
<1>5. CASE RunTransfer
  BY <1>5, RunTypes
<1>6. CASE Interrupt
  BY <1>6, TransferAssumption
  DEF Interrupt, NoPlan, memoryVars, ahbmVars, dmaVars, BridgeTypes, EngineTypes
<1>7. CASE HostRead16
  BY <1>7, ReadTypes, TransferAssumption
  DEF HostRead16, Operation, memoryVars, dmaVars, EngineTypes
<1>8. CASE HostWrite16
  <2>1. BridgeTypes'
    BY <1>8, WriteTypes, TransferAssumption DEF HostWrite16, Write16, BridgeTypes
  <2>2. QED
    BY <1>8, <2>1, TransferAssumption
    DEF HostWrite16, Operation, memoryVars, dmaVars, EngineTypes
<1>9. CASE WriteMiu
  BY <1>9, TransferAssumption
  DEF WriteMiu, Operation, SetMiu, ahbmVars, dmaVars, BridgeTypes, EngineTypes
<1>10. CASE StoreWord
  <2>1. miu' = miu
    BY <1>10 DEF StoreWord, DataWrite, DataWriteA32
  <2>2. ops' \in 0 .. MaxOps
    BY <1>10, TransferAssumption DEF StoreWord, Operation
  <2>3. QED
    BY <1>10, <2>1, <2>2 DEF StoreWord, Operation, ahbmVars, dmaVars, BridgeTypes, EngineTypes
<1>11. CASE ResetAll
  <2>1. BridgeTypes'
    BY <1>11, ResetBridge, EmptyQueue DEF ResetAll, ResetAhbm, BridgeTypes
  <2>2. EngineTypes'
    BY <1>11, ResetChannels, TransferAssumption DEF ResetAll, ResetDma, EngineTypes
  <2>3. QED
    BY <1>11, <2>1, <2>2, TransferAssumption DEF ResetAll, Operation, ResetMemory, ResetDma
<1>12. CASE UNCHANGED transferVars
  BY <1>12 DEF transferVars, memoryVars, ahbmVars, dmaVars, BridgeTypes, EngineTypes
<1>13. QED
  BY <1>1, <1>2, <1>3, <1>4, <1>5, <1>6, <1>7, <1>8, <1>9, <1>10, <1>11, <1>12
  DEF TransferNext

LEMMA AlwaysTypes == TransferSpec => []Types
<1>1. TransferInit => Types
  BY InitTypes
<1>2. Types /\ [TransferNext]_transferVars => Types'
  BY NextTypes
<1>3. QED
  BY <1>1, <1>2, PTL DEF TransferSpec

\* Whatever plans the firmware transfers with, whatever it interrupts itself with
\* and whatever the host does meanwhile: registers, queues (never as long as a
\* burst), counters and the phases of the firmware keep their types.
THEOREM TransferTypes == TransferSpec => []TransferTypeOK
<1>1. Types => TransferTypeOK
  BY TypesSuffice
<1>2. QED
  BY <1>1, AlwaysTypes, PTL

\* The processor and the host see one memory, in both page modes, for any bank,
\* window and page registers.
THEOREM TransferOneMemory == TransferSpec => []OneMemory
<1>1. ASSUME Types PROVE OneMemory
  <2>1. miu \in MiuState
    BY <1>1, TransferAssumption DEF Types
  <2>2. QED
    BY <2>1, OneWord DEF OneMemory
<1>2. QED
  BY <1>1, AlwaysTypes, PTL

-----------------------------------------------------------------------------
(***************************************************************************)
(* The elements of a transfer                                              *)
(***************************************************************************)
\* Rows and elements a transfer has completed.
Rows(t, c) == t.counter2 * Size1(c) + t.counter1
Done(t, c) == Rows(t, c) * Size0(c) + t.counter0 \div Counted(c)

\* Doublewords, the largest odd size: counter0 wraps past it, and the row goes on.
NeverEnds(c) == Counted(c) = 2 /\ c.size0 = CounterWidth - 1 /\ CounterWidth % 2 = 0

InArray(t, c) ==
    /\ t.counter0 % Counted(c) = 0
    /\ t.counter0 \div Counted(c) < Size0(c)
    /\ t.counter1 < Size1(c)
    /\ t.counter2 < Size2(c)

\* The running addresses are those dma.md gives the next element.
AtElement(t, c) == t.src = SrcAt(c, Done(t, c)) /\ t.dst = DstAt(c, Done(t, c))

\* A queue that was empty at the start holds what was written since the last burst
\* went out, or what the last burst brought in and was not read.
OnTrack(c, size, q, k) ==
    /\ c.dst_space = 7 /\ c.src_space # 7 => q < size /\ k % size = q
    /\ c.src_space = 7 /\ c.dst_space # 7 => q < size /\ (k + q) % size = 0

Underway ==
    phase = "running" =>
        /\ running = active_channel
        /\ dma_current.ahbm_channel = GetChannelForDma(active_channel)
        /\ IF NeverEnds(Config)
              THEN dma_current.counter0 % 2 = 0
              ELSE /\ InArray(dma_current, Config)
                   /\ AtElement(dma_current, Config)
                   /\ clean => OnTrack(Config, Bridge.burst_size,
                                       Len(burst_queue[GetChannelForDma(active_channel)]),
                                       Done(dma_current, Config))

\* The sizes of the array, and the numbers of a transfer inside it.
LEMMA Sizes ==
    ASSUME NEW c \in ChannelState
    PROVE  /\ Counted(c) \in {1, 2}
           /\ Size0(c) \in Nat \ {0} /\ Size1(c) \in Nat \ {0} /\ Size2(c) \in Nat \ {0}
           /\ Size1(c) = IF c.size1 = 0 THEN 1 ELSE c.size1
           /\ Size2(c) = IF c.size2 = 0 THEN 1 ELSE c.size2
           /\ c.size0 \in Nat /\ c.size1 \in Nat /\ c.size2 \in Nat
<1>1. c.size0 \in Nat /\ c.size1 \in Nat /\ c.size2 \in Nat
  BY DEF ChannelState, Register
<1>2. Counted(c) \in {1, 2}
  BY DEF Counted
<1>3. (c.size0 + Counted(c) - 1) \div Counted(c) \in Nat
  BY <1>1, <1>2
<1>4. QED
  BY <1>1, <1>2, <1>3 DEF Size0, Size1, Size2, AtLeastOne

LEMMA Numbers ==
    ASSUME NEW c \in ChannelState, NEW t \in TransferState, InArray(t, c)
    PROVE  /\ t.counter0 \in Nat /\ t.counter1 \in Nat /\ t.counter2 \in Nat
           /\ t.counter0 \div Counted(c) \in 0 .. Size0(c) - 1
           /\ t.counter1 \in 0 .. Size1(c) - 1 /\ t.counter2 \in 0 .. Size2(c) - 1
           /\ Rows(t, c) \in Nat /\ Done(t, c) \in Nat
<1>1. t.counter0 \in Nat /\ t.counter1 \in Nat /\ t.counter2 \in Nat
  BY DmaAssumption DEF TransferState
<1>2. t.counter0 \div Counted(c) \in Nat
  BY <1>1, Sizes
<1>3. Rows(t, c) \in Nat
  BY <1>1, Sizes DEF Rows
<1>4. Done(t, c) \in Nat
  <2>1. Rows(t, c) * Size0(c) \in Nat
    BY <1>3, Sizes
  <2>2. QED
    BY <1>2, <2>1 DEF Done
<1>5. QED
  BY <1>1, <1>2, <1>3, <1>4, Sizes DEF InArray

\* Rows and planes before element Done.
LEMMA RowsAndPlanes ==
    ASSUME NEW c \in ChannelState, NEW t \in TransferState, InArray(t, c)
    PROVE  /\ Done(t, c) \div Size0(c) = Rows(t, c)
           /\ Done(t, c) \div (Size0(c) * Size1(c)) = t.counter2
<1> DEFINE S0 == Size0(c)
           S1 == Size1(c)
           e == t.counter0 \div Counted(c)
           r == t.counter1
           p == t.counter2
<1>1. /\ S0 \in Nat \ {0} /\ S1 \in Nat \ {0}
      /\ e \in 0 .. S0 - 1 /\ r \in 0 .. S1 - 1 /\ p \in Nat
      /\ Rows(t, c) \in Nat
  BY Numbers, Sizes
<1>2. Done(t, c) = Rows(t, c) * S0 + e /\ Rows(t, c) = p * S1 + r
  BY DEF Done, Rows
<1> HIDE DEF S0, S1, e, r, p
<1>3. (Rows(t, c) * S0 + e) \div S0 = Rows(t, c)
  BY <1>1, Quotient
<1>4. r * S0 + e \in 0 .. S0 * S1 - 1
  <2>1. r * S0 <= (S1 - 1) * S0
    BY <1>1
  <2>2. (S1 - 1) * S0 = S0 * S1 - S0
    BY <1>1
  <2>3. S0 * S1 \in Nat /\ r * S0 \in Nat
    BY <1>1
  <2>4. QED
    BY <1>1, <2>1, <2>2, <2>3
<1>5. Rows(t, c) * S0 + e = p * (S0 * S1) + (r * S0 + e)
  <2>1. (p * S1 + r) * S0 = p * (S0 * S1) + r * S0
    BY <1>1
  <2>2. p * (S0 * S1) \in Nat /\ r * S0 \in Nat
    BY <1>1
  <2>3. QED
    BY <1>1, <1>2, <2>1, <2>2
<1>6. S0 * S1 \in Nat \ {0}
  BY <1>1
<1>7. (p * (S0 * S1) + (r * S0 + e)) \div (S0 * S1) = p
  BY <1>1, <1>4, <1>6, Quotient
<1>8. QED
  BY <1>2, <1>3, <1>5, <1>7 DEF S0, S1, p

\* The counters end their rows, planes and array exactly at its sizes, and do not
\* wrap before.
LEMMA RowEnd ==
    ASSUME NEW c \in ChannelState, NEW t \in TransferState, InArray(t, c), ~NeverEnds(c)
    PROVE  /\ RowEnds(t, c) <=> t.counter0 \div Counted(c) + 1 = Size0(c)
           /\ ~RowEnds(t, c) => Add(t.counter0, Counted(c)) = t.counter0 + Counted(c)
<1> DEFINE x == t.counter0
           s == c.size0
           w == CounterWidth
<1>1. w \in Nat \ {0} /\ x \in 0 .. w - 1 /\ s \in 0 .. w - 1
  BY Sizes, DmaAssumption DEF TransferState, ChannelState
<1>2. x % Counted(c) = 0 /\ x \div Counted(c) < Size0(c)
  BY DEF InArray
<1>3. \A y : Add(x, y) = (x + y) % w
  BY DEF Add
<1>4. RowEnds(t, c) <=> Add(x, Counted(c)) >= s
  BY DEF RowEnds
<1>5. Size0(c) = AtLeastOne((s + Counted(c) - 1) \div Counted(c))
  BY DEF Size0
<1>6. Counted(c) = 2 => ~(s = w - 1 /\ w % 2 = 0)
  BY DEF NeverEnds
<1> HIDE DEF x, s, w
<1>7. CASE Counted(c) = 1
  <2>1. s # 0 => Size0(c) = s
    BY <1>1, <1>5, <1>7 DEF AtLeastOne
  <2>2. s = 0 => Size0(c) = 1
    BY <1>1, <1>5, <1>7 DEF AtLeastOne
  <2>3. x \div 1 = x
    BY <1>1
  <2>4. s # 0 => (x + 1) % w = x + 1
    BY <1>1, <1>2, <1>7, <2>1, <2>3
  <2>5. (x + 1) % w >= 0
    BY <1>1
  <2>6. s # 0 => (x + 1 >= s <=> x \div 1 + 1 = s)
    BY <1>1, <1>2, <1>7, <2>1, <2>3
  <2>7. s = 0 => x = 0
    BY <1>1, <1>2, <1>7, <2>2, <2>3
  <2>8. QED
    BY <1>1, <1>3, <1>4, <1>7, <2>1, <2>2, <2>3, <2>4, <2>5, <2>6, <2>7 DEF x, s
<1>8. CASE Counted(c) = 2
  <2>1. s # 0 => Size0(c) = (s + 1) \div 2
    BY <1>1, <1>5, <1>8 DEF AtLeastOne
  <2>2. s = 0 => Size0(c) = 1
    BY <1>1, <1>5, <1>8 DEF AtLeastOne
  <2>3. x % 2 = 0
    BY <1>2, <1>8
  <2>4. s # 0 => x + 2 <= s + 1
    BY <1>1, <1>2, <1>8, <2>1, <2>3
  <2>5. s # 0 => x + 2 < w
    BY <1>1, <1>6, <1>8, <2>3, <2>4
  <2>6. s # 0 => (x + 2) % w = x + 2
    BY <1>1, <2>5
  <2>7. (x + 2) % w >= 0
    BY <1>1
  <2>8. s # 0 => (x + 2 >= s <=> x \div 2 + 1 = (s + 1) \div 2)
    BY <1>1, <2>3, <2>4
  <2>9. s = 0 => x = 0
    BY <1>1, <1>2, <1>8, <2>2, <2>3
  <2>10. QED
    BY <1>1, <1>3, <1>4, <1>8, <2>1, <2>2, <2>6, <2>7, <2>8, <2>9 DEF x, s
<1>9. QED
  BY <1>7, <1>8, Sizes

LEMMA PlaneEnd ==
    ASSUME NEW x \in 0 .. CounterWidth - 1, NEW s \in 0 .. CounterWidth - 1,
           x < AtLeastOne(s)
    PROVE  /\ Add(x, 1) >= s <=> x + 1 = AtLeastOne(s)
           /\ ~(Add(x, 1) >= s) => Add(x, 1) = x + 1
<1>1. CounterWidth \in Nat \ {0}
  BY DmaAssumption
<1>2. CASE s = 0
  <2>1. (x + 1) % CounterWidth >= 0
    BY <1>1
  <2>2. QED
    BY <1>2, <2>1 DEF Add, AtLeastOne
<1>3. CASE s # 0
  <2>1. x + 1 < CounterWidth
    BY <1>1, <1>3 DEF AtLeastOne
  <2>2. Add(x, 1) = x + 1
    BY <1>1, <2>1 DEF Add
  <2>3. QED
    BY <1>3, <2>2 DEF AtLeastOne
<1>4. QED
  BY <1>2, <1>3

LEMMA Ends ==
    ASSUME NEW c \in ChannelState, NEW t \in TransferState, InArray(t, c)
    PROVE  /\ PlaneEnds(t, c) <=> t.counter1 + 1 = Size1(c)
           /\ ~PlaneEnds(t, c) => Add(t.counter1, 1) = t.counter1 + 1
           /\ AllEnds(t, c) <=> t.counter2 + 1 = Size2(c)
           /\ ~AllEnds(t, c) => Add(t.counter2, 1) = t.counter2 + 1
<1>1. /\ t.counter1 \in 0 .. CounterWidth - 1 /\ t.counter2 \in 0 .. CounterWidth - 1
      /\ c.size1 \in 0 .. CounterWidth - 1 /\ c.size2 \in 0 .. CounterWidth - 1
  BY Sizes, DmaAssumption DEF TransferState, ChannelState
<1>2. t.counter1 < AtLeastOne(c.size1) /\ t.counter2 < AtLeastOne(c.size2)
  BY DEF InArray, Size1, Size2
<1>3. QED
  BY <1>1, <1>2, PlaneEnd DEF PlaneEnds, AllEnds, Size1, Size2

-----------------------------------------------------------------------------
\* The address after an element: one more step of the dimension that goes on.
LEMMA NextAddress ==
    ASSUME NEW a \in Nat, NEW x \in Nat, NEW y \in Nat, NEW z \in Nat,
           NEW k \in Nat, NEW r \in Nat, NEW p \in Nat
    PROVE  LET A(i, j, l) == a + (i - j) * x + (j - l) * y + l * z
           IN  /\ A(k + 1, r, p) = A(k, r, p) + x
               /\ A(k + 1, r + 1, p) = A(k, r, p) + y
               /\ A(k + 1, r + 1, p + 1) = A(k, r, p) + z
<1>1. (k + 1 - r) * x = (k - r) * x + x /\ (k - r) * x \in Int
  OBVIOUS
<1>2. (r + 1 - p) * y = (r - p) * y + y /\ (r - p) * y \in Int
  OBVIOUS
<1>3. (p + 1) * z = p * z + z /\ p * z \in Int
  OBVIOUS
<1>4. (k + 1) - (r + 1) = k - r /\ (r + 1) - (p + 1) = r - p
  OBVIOUS
<1>5. QED
  BY <1>1, <1>2, <1>3, <1>4

\* The address dma.md gives the element a transfer is at.
LEMMA AtDone ==
    ASSUME NEW c \in ChannelState, NEW t \in TransferState, InArray(t, c),
           NEW a, NEW x, NEW y, NEW z
    PROVE  At(a, x, y, z, c, Done(t, c)) =
             a + (Done(t, c) - Rows(t, c)) * x + (Rows(t, c) - t.counter2) * y + t.counter2 * z
  BY RowsAndPlanes DEF At

\* A step of one element goes to the next element of the array, at its addresses.
LEMMA NextElement ==
    ASSUME NEW c \in ChannelState, NEW t \in TransferState, InArray(t, c), ~NeverEnds(c),
           ~Last(t, c)
    PROVE  /\ InArray(Stepped(t, c), c)
           /\ Done(Stepped(t, c), c) = Done(t, c) + 1
           /\ Rows(Stepped(t, c), c) = IF RowEnds(t, c) THEN Rows(t, c) + 1 ELSE Rows(t, c)
<1> DEFINE S0 == Size0(c)
           S1 == Size1(c)
           e == t.counter0 \div Counted(c)
           n == Stepped(t, c)
<1>1. /\ Counted(c) \in {1, 2} /\ S0 \in Nat \ {0} /\ S1 \in Nat \ {0}
      /\ t.counter0 \in Nat /\ t.counter1 \in Nat /\ t.counter2 \in Nat
      /\ e \in 0 .. S0 - 1 /\ t.counter1 \in 0 .. S1 - 1 /\ t.counter2 < Size2(c)
      /\ Size2(c) \in Nat
      /\ t.counter0 % Counted(c) = 0
  BY Numbers, Sizes DEF InArray
<1>2. 0 % Counted(c) = 0 /\ 0 \div Counted(c) = 0
  BY <1>1
<1>3. CASE ~RowEnds(t, c)
  <2>1. /\ n.counter0 = t.counter0 + Counted(c) /\ n.counter1 = t.counter1
        /\ n.counter2 = t.counter2
    BY <1>3, SteppedRecord, RowEnd
  <2>2. (t.counter0 + Counted(c)) \div Counted(c) = e + 1
    BY <1>1
  <2>3. (t.counter0 + Counted(c)) % Counted(c) = 0
    BY <1>1
  <2>4. e + 1 < S0
    BY <1>1, <1>3, RowEnd
  <2>5. InArray(n, c)
    BY <1>1, <2>1, <2>2, <2>3, <2>4 DEF InArray
  <2>6. Rows(n, c) = Rows(t, c)
    BY <2>1 DEF Rows
  <2>7. Rows(t, c) * S0 \in Nat
    BY <1>1, Numbers
  <2>8. QED
    BY <1>1, <1>3, <2>1, <2>2, <2>5, <2>6, <2>7 DEF Done
<1>4. CASE RowEnds(t, c) /\ ~PlaneEnds(t, c)
  <2>1. n.counter0 = 0 /\ n.counter1 = t.counter1 + 1 /\ n.counter2 = t.counter2
    BY <1>4, SteppedRecord, Ends
  <2>2. e + 1 = S0 /\ t.counter1 + 1 < S1
    BY <1>1, <1>4, RowEnd, Ends
  <2>3. InArray(n, c)
    BY <1>1, <1>2, <2>1, <2>2 DEF InArray
  <2>4. t.counter2 * S1 \in Nat
    BY <1>1
  <2>5. Rows(n, c) = Rows(t, c) + 1
    BY <1>1, <2>1, <2>4 DEF Rows
  <2>6. (Rows(t, c) + 1) * S0 = Rows(t, c) * S0 + S0 /\ Rows(t, c) * S0 \in Nat
    BY <1>1, Numbers
  <2>7. Done(n, c) = Done(t, c) + 1
    BY <1>1, <1>2, <2>1, <2>2, <2>5, <2>6 DEF Done
  <2>8. QED
    BY <1>4, <2>3, <2>5, <2>7
<1>5. CASE RowEnds(t, c) /\ PlaneEnds(t, c)
  <2>1. ~AllEnds(t, c)
    BY <1>5 DEF Last
  <2>2. n.counter0 = 0 /\ n.counter1 = 0 /\ n.counter2 = t.counter2 + 1
    BY <1>5, <2>1, SteppedRecord, Ends
  <2>3. e + 1 = S0 /\ t.counter1 + 1 = S1 /\ t.counter2 + 1 < Size2(c)
    BY <1>1, <1>5, <2>1, RowEnd, Ends
  <2>4. InArray(n, c)
    BY <1>1, <1>2, <2>2, <2>3 DEF InArray
  <2>5. (t.counter2 + 1) * S1 = t.counter2 * S1 + S1 /\ t.counter2 * S1 \in Nat
    BY <1>1
  <2>6. Rows(n, c) = Rows(t, c) + 1
    BY <1>1, <2>2, <2>3, <2>5 DEF Rows
  <2>7. (Rows(t, c) + 1) * S0 = Rows(t, c) * S0 + S0 /\ Rows(t, c) * S0 \in Nat
    BY <1>1, Numbers
  <2>8. Done(n, c) = Done(t, c) + 1
    BY <1>1, <1>2, <2>2, <2>3, <2>6, <2>7 DEF Done
  <2>9. QED
    BY <1>5, <2>4, <2>6, <2>8
<1>6. QED
  BY <1>3, <1>4, <1>5

LEMMA NextAddresses ==
    ASSUME NEW c \in ChannelState, NEW t \in TransferState, InArray(t, c), ~NeverEnds(c),
           ~Last(t, c), AtElement(t, c)
    PROVE  AtElement(Stepped(t, c), c)
<1> DEFINE n == Stepped(t, c)
           k == Done(t, c)
           r == Rows(t, c)
           p == t.counter2
<1>1. /\ c.src_step0 \in Nat /\ c.src_step1 \in Nat /\ c.src_step2 \in Nat
      /\ c.dst_step0 \in Nat /\ c.dst_step1 \in Nat /\ c.dst_step2 \in Nat
      /\ c.addr_src \in Nat /\ c.addr_dst \in Nat
  BY DEF ChannelState, Register
<1>2. k \in Nat /\ r \in Nat /\ p \in Nat
  BY Numbers
<1>3. n \in TransferState /\ InArray(n, c) /\ Done(n, c) = k + 1
      /\ Rows(n, c) = IF RowEnds(t, c) THEN r + 1 ELSE r
  BY SteppedType, NextElement
<1>4. n.counter2 = IF RowEnds(t, c) /\ PlaneEnds(t, c) THEN p + 1 ELSE p
  BY SteppedRecord, Ends DEF Last
<1>5. \A a, x, y, z :
        /\ At(a, x, y, z, c, k) = a + (k - r) * x + (r - p) * y + p * z
        /\ At(a, x, y, z, c, Done(n, c)) =
             a + (Done(n, c) - Rows(n, c)) * x + (Rows(n, c) - n.counter2) * y + n.counter2 * z
  BY <1>3, AtDone
<1> HIDE DEF n, k, r, p
<1>6. \A a, x, y, z \in Nat :
        At(a, x, y, z, c, Done(n, c)) =
            At(a, x, y, z, c, k)
            + (IF ~RowEnds(t, c) THEN x ELSE IF ~PlaneEnds(t, c) THEN y ELSE z)
  <2> SUFFICES ASSUME NEW a \in Nat, NEW x \in Nat, NEW y \in Nat, NEW z \in Nat
               PROVE  At(a, x, y, z, c, Done(n, c)) =
                        At(a, x, y, z, c, k)
                        + (IF ~RowEnds(t, c) THEN x ELSE IF ~PlaneEnds(t, c) THEN y ELSE z)
    OBVIOUS
  <2> DEFINE A(i, j, l) == a + (i - j) * x + (j - l) * y + l * z
  <2>1. /\ At(a, x, y, z, c, k) = A(k, r, p)
        /\ At(a, x, y, z, c, Done(n, c)) = A(Done(n, c), Rows(n, c), n.counter2)
    BY <1>5
  <2>2. /\ A(k + 1, r, p) = A(k, r, p) + x
        /\ A(k + 1, r + 1, p) = A(k, r, p) + y
        /\ A(k + 1, r + 1, p + 1) = A(k, r, p) + z
    BY <1>2, NextAddress
  <2> HIDE DEF A
  <2>3. QED
    BY <1>3, <1>4, <2>1, <2>2
<1>7. /\ n.src = t.src + (IF ~RowEnds(t, c) THEN c.src_step0
                          ELSE IF ~PlaneEnds(t, c) THEN c.src_step1 ELSE c.src_step2)
      /\ n.dst = t.dst + (IF ~RowEnds(t, c) THEN c.dst_step0
                          ELSE IF ~PlaneEnds(t, c) THEN c.dst_step1 ELSE c.dst_step2)
  BY SteppedRecord DEF n
<1>8. t.src = SrcAt(c, k) /\ t.dst = DstAt(c, k)
  BY DEF AtElement, k
<1>9. QED
  BY <1>1, <1>6, <1>7, <1>8 DEF AtElement, SrcAt, DstAt, n

\* When the last element is done, the whole array is.
LEMMA LastElement ==
    ASSUME NEW c \in ChannelState, NEW t \in TransferState, InArray(t, c), ~NeverEnds(c),
           Last(t, c)
    PROVE  Done(t, c) + 1 = Cardinality(Elements(c))
<1> DEFINE S0 == Size0(c)
           S1 == Size1(c)
           S2 == Size2(c)
<1>1. S0 \in Nat \ {0} /\ S1 \in Nat \ {0} /\ S2 \in Nat \ {0}
  BY Sizes
<1>2. /\ t.counter0 \div Counted(c) + 1 = S0 /\ t.counter1 + 1 = S1 /\ t.counter2 + 1 = S2
      /\ t.counter0 \div Counted(c) \in Nat /\ t.counter1 \in Nat /\ t.counter2 \in Nat
  BY Numbers, RowEnd, Ends DEF Last
<1>3. Rows(t, c) + 1 = S1 * S2
  <2>1. (t.counter2 + 1) * S1 = t.counter2 * S1 + S1 /\ t.counter2 * S1 \in Nat
    BY <1>1, <1>2
  <2>2. QED
    BY <1>1, <1>2, <2>1 DEF Rows
<1>4. Done(t, c) + 1 = S0 * S1 * S2
  <2>1. (Rows(t, c) + 1) * S0 = Rows(t, c) * S0 + S0 /\ Rows(t, c) * S0 \in Nat
    BY <1>1, Numbers
  <2>2. (S1 * S2) * S0 = S0 * S1 * S2
    BY <1>1
  <2>3. QED
    BY <1>1, <1>2, <1>3, <2>1, <2>2 DEF Done
<1>5. S0 * S1 * S2 \in Nat \ {0}
  BY <1>1
<1>6. Cardinality(0 .. S0 * S1 * S2 - 1) = S0 * S1 * S2
  BY <1>5, FS_Interval
<1>7. QED
  BY <1>4, <1>6 DEF Elements

\* A position inside the sizes is an element.
LEMMA InElements ==
    ASSUME NEW c \in ChannelState, NEW t \in TransferState, InArray(t, c)
    PROVE  Done(t, c) \in Elements(c)
<1> DEFINE S0 == Size0(c)
           S1 == Size1(c)
           S2 == Size2(c)
<1>1. /\ S0 \in Nat \ {0} /\ S1 \in Nat \ {0} /\ S2 \in Nat \ {0}
      /\ t.counter0 \div Counted(c) \in 0 .. S0 - 1
      /\ t.counter1 \in 0 .. S1 - 1 /\ t.counter2 \in 0 .. S2 - 1
      /\ Rows(t, c) \in Nat /\ Done(t, c) \in Nat
  BY Sizes, Numbers
<1>2. Rows(t, c) + 1 <= S2 * S1
  <2>1. (t.counter2 + 1) * S1 <= S2 * S1
    BY <1>1
  <2>2. (t.counter2 + 1) * S1 = t.counter2 * S1 + S1 /\ t.counter2 * S1 \in Nat
    BY <1>1
  <2>3. S2 * S1 \in Nat
    BY <1>1
  <2>4. QED
    BY <1>1, <2>1, <2>2, <2>3 DEF Rows
<1>3. Done(t, c) < S0 * S1 * S2
  <2>1. S2 * S1 \in Nat
    BY <1>1
  <2>2. (Rows(t, c) + 1) * S0 <= (S2 * S1) * S0
    BY <1>1, <1>2, <2>1
  <2>3. (Rows(t, c) + 1) * S0 = Rows(t, c) * S0 + S0 /\ Rows(t, c) * S0 \in Nat
    BY <1>1
  <2>4. (S2 * S1) * S0 = S0 * S1 * S2 /\ S0 * S1 * S2 \in Nat
    BY <1>1
  <2>5. QED
    BY <1>1, <2>2, <2>3, <2>4 DEF Done
<1>4. QED
  BY <1>1, <1>3 DEF Elements

\* A transfer that never ends has an even counter, which wraps to 0.
LEMMA EvenForever ==
    ASSUME NEW c \in ChannelState, NEW t \in TransferState, NeverEnds(c), t.counter0 % 2 = 0
    PROVE  ~RowEnds(t, c) /\ Stepped(t, c).counter0 % 2 = 0
<1>1. /\ CounterWidth \in Nat \ {0} /\ CounterWidth % 2 = 0
      /\ t.counter0 \in 0 .. CounterWidth - 1 /\ c.size0 = CounterWidth - 1 /\ Counted(c) = 2
  BY DmaAssumption DEF NeverEnds, TransferState
<1>2. t.counter0 + 2 <= CounterWidth
  BY <1>1
<1>3. Add(t.counter0, 2) = IF t.counter0 + 2 = CounterWidth THEN 0 ELSE t.counter0 + 2
  <2>1. CASE t.counter0 + 2 = CounterWidth
    BY <1>1, <2>1 DEF Add
  <2>2. CASE t.counter0 + 2 < CounterWidth
    BY <1>1, <2>2 DEF Add
  <2>3. QED
    BY <1>1, <1>2, <2>1, <2>2
<1>4. Add(t.counter0, 2) % 2 = 0 /\ Add(t.counter0, 2) < CounterWidth - 1
  BY <1>1, <1>2, <1>3
<1>5. Add(t.counter0, 2) \in Nat
  BY <1>1, <1>3
<1>6. ~RowEnds(t, c)
  BY <1>1, <1>4, <1>5 DEF RowEnds
<1>7. QED
  BY <1>1, <1>4, <1>6, SteppedRecord

-----------------------------------------------------------------------------
(***************************************************************************)
(* The queue of the running transfer                                       *)
(***************************************************************************)
\* The queue after one more unit was written, or read.
LEMMA SentQueue ==
    ASSUME BridgeTypes, NEW t \in TransferState, NEW c, NEW v, SendElement(t, c, v)
    PROVE  LET i == t.ahbm_channel
               q == Len(burst_queue[i])
           IN  /\ ahbm' = ahbm /\ q \in Nat
               /\ c.dst_space = 7 /\ c.src_space # 7 =>
                    Len(burst_queue'[i]) = IF q + 1 >= ahbm[i].burst_size THEN 0 ELSE q + 1
               /\ c.src_space = 7 /\ c.dst_space # 7 =>
                    Len(burst_queue'[i]) = IF q = 0 THEN ahbm[i].burst_size - 1 ELSE q - 1
<1> DEFINE i == t.ahbm_channel
<1>1. /\ i \in AhbmChannel /\ ahbm[i] \in AhbmState /\ IsQueue(burst_queue[i])
      /\ DOMAIN burst_queue = AhbmChannel
  BY DEF TransferState, BridgeTypes
<1>2. Len(burst_queue[i]) \in Nat
  BY <1>1, QueueSteps
<1>3. ahbm' = ahbm
  BY DEF SendElement, Write16, Write32, WriteInternal, PopRead, ahbmVars
<1>4. CASE c.dst_space = 7 /\ c.src_space # 7
  <2>1. QueueFound(t, c) = burst_queue[i]
    BY <1>4 DEF QueueFound
  <2>2. \E w : WriteInternal(i, burst_queue[i], t.dst, w)
    BY <1>4, <2>1 DEF SendElement, Write16, Write32
  <2>3. QED
    BY <1>1, <1>2, <1>3, <1>4, <2>2, WrittenQueue
<1>5. CASE c.src_space = 7 /\ c.dst_space # 7
  <2>1. burst_queue'[i] = Popped(i, t.src)
    BY <1>1, <1>5 DEF SendElement, PopRead
  <2>2. QED
    BY <1>1, <1>2, <1>3, <1>5, <2>1, ReadQueue
<1>6. QED
  BY <1>2, <1>3, <1>4, <1>5

LEMMA StaysOnTrack ==
    ASSUME NEW c, NEW size \in BurstSize, NEW q \in Nat, NEW p \in Nat, NEW k \in Nat,
           OnTrack(c, size, q, k),
           c.dst_space = 7 /\ c.src_space # 7 => p = IF q + 1 >= size THEN 0 ELSE q + 1,
           c.src_space = 7 /\ c.dst_space # 7 => p = IF q = 0 THEN size - 1 ELSE q - 1
    PROVE  OnTrack(c, size, p, k + 1)
<1>1. size \in {1, 4, 8}
  BY DEF BurstSize
<1>2. CASE c.dst_space = 7 /\ c.src_space # 7
  <2>1. q < size /\ k % size = q /\ p = IF q + 1 >= size THEN 0 ELSE q + 1
    BY <1>2 DEF OnTrack
  <2>2. p < size /\ (k + 1) % size = p
    BY <1>1, <2>1
  <2>3. QED
    BY <1>2, <2>2 DEF OnTrack
<1>3. CASE c.src_space = 7 /\ c.dst_space # 7
  <2>1. q < size /\ (k + q) % size = 0 /\ p = IF q = 0 THEN size - 1 ELSE q - 1
    BY <1>3 DEF OnTrack
  <2>2. p < size /\ (k + 1 + p) % size = 0
    BY <1>1, <2>1
  <2>3. QED
    BY <1>3, <2>2 DEF OnTrack
<1>4. QED
  BY <1>2, <1>3 DEF OnTrack

-----------------------------------------------------------------------------
(***************************************************************************)
(* The invariant of the running transfer                                   *)
(***************************************************************************)
LEMMA StartUnderway == ASSUME Types, StartTransfer PROVE Underway'
<1> DEFINE c == Config
           i == GetChannelForDma(active_channel)
           t == dma_current'
<1>1. c \in ChannelState /\ i \in AhbmChannel /\ ahbm[i] \in AhbmState
  BY SomeBridge DEF Types, EngineTypes, BridgeTypes, Config
<1>2. /\ channels' = channels /\ active_channel' = active_channel /\ ahbm' = ahbm
      /\ burst_queue' = burst_queue
      /\ running' = active_channel
      /\ clean' = (burst_queue[i] = <<>>)
  BY DEF StartTransfer, Start, ahbmVars
<1>3. /\ Config' = c /\ Bridge' = Bridge /\ Bridge = ahbm[i]
      /\ GetChannelForDma(active_channel)' = i
  BY <1>2 DEF Config, Bridge, GetChannelForDma
<1>4. t = [src |-> c.addr_src, dst |-> c.addr_dst, counter0 |-> 0, counter1 |-> 0,
           counter2 |-> 0, ahbm_channel |-> i]
  BY DEF StartTransfer, Start, NoTransfer, Config
<1>5. t \in TransferState
  BY NextTypes DEF TransferNext, Types, EngineTypes
<1>6. InArray(t, c)
  <2>1. 0 % Counted(c) = 0 /\ 0 \div Counted(c) = 0
    BY <1>1, Sizes
  <2>2. QED
    BY <1>1, <1>4, <2>1, Sizes DEF InArray
<1>7. Rows(t, c) = 0 /\ Done(t, c) = 0
  <2>1. 0 \div Counted(c) = 0
    BY <1>1, Sizes
  <2>2. QED
    BY <1>1, <1>4, <2>1, Sizes DEF Rows, Done
<1>8. AtElement(t, c)
  <2>1. \A a, x, y, z :
            At(a, x, y, z, c, Done(t, c)) =
             a + (Done(t, c) - Rows(t, c)) * x + (Rows(t, c) - t.counter2) * y + t.counter2 * z
    BY <1>1, <1>5, <1>6, AtDone
  <2>2. \A a, x, y, z \in Nat : At(a, x, y, z, c, Done(t, c)) = a
    BY <1>4, <1>7, <2>1
  <2>3. /\ c.src_step0 \in Nat /\ c.src_step1 \in Nat /\ c.src_step2 \in Nat
        /\ c.dst_step0 \in Nat /\ c.dst_step1 \in Nat /\ c.dst_step2 \in Nat
        /\ c.addr_src \in Nat /\ c.addr_dst \in Nat
    BY <1>1 DEF ChannelState, Register
  <2>4. QED
    BY <1>4, <2>2, <2>3 DEF AtElement, SrcAt, DstAt
<1>9. clean' => OnTrack(c, Bridge.burst_size, Len(burst_queue[i]), 0)
  <2>1. Bridge.burst_size \in {1, 4, 8}
    BY <1>1, <1>3 DEF AhbmState, BurstSize
  <2>2. clean' => Len(burst_queue[i]) = 0
    BY <1>1, <1>2, EmptyQueue
  <2>3. QED
    BY <2>1, <2>2 DEF OnTrack
<1>10. t.counter0 % 2 = 0 /\ t.ahbm_channel = i
  BY <1>4
<1> HIDE DEF c, i, t
<1>11. /\ running' = active_channel' /\ t.ahbm_channel = GetChannelForDma(active_channel)'
       /\ t.counter0 % 2 = 0
       /\ InArray(t, Config')
       /\ AtElement(t, Config')
       /\ clean' => OnTrack(Config', Bridge'.burst_size, Len(burst_queue'[i]), Done(t, Config'))
  BY <1>2, <1>3, <1>6, <1>7, <1>8, <1>9, <1>10
<1>12. QED
  BY <1>3, <1>11 DEF Underway, t

\* What a step of the loop leaves alone, and what it does to the queue.
LEMMA RunFacts ==
    ASSUME Types, Underway, RunTransfer
    PROVE  LET i == GetChannelForDma(active_channel)
               q == Len(burst_queue[i])
           IN  /\ i \in AhbmChannel /\ Bridge.burst_size \in BurstSize
               /\ Config \in ChannelState /\ dma_current \in TransferState
               /\ Config' = Config /\ Bridge' = Bridge
               /\ GetChannelForDma(active_channel)' = i
               /\ active_channel' = active_channel /\ clean' = clean
               /\ q \in Nat /\ Len(burst_queue'[i]) \in Nat
               /\ Config.dst_space = 7 /\ Config.src_space # 7 =>
                    Len(burst_queue'[i]) = IF q + 1 >= Bridge.burst_size THEN 0 ELSE q + 1
               /\ Config.src_space = 7 /\ Config.dst_space # 7 =>
                    Len(burst_queue'[i]) = IF q = 0 THEN Bridge.burst_size - 1 ELSE q - 1
               /\ running = active_channel /\ dma_current.ahbm_channel = i
               /\ Advance(dma_current, Config)
<1> DEFINE i == GetChannelForDma(active_channel)
<1>1. running = active_channel /\ dma_current.ahbm_channel = i
  BY DEF Underway, RunTransfer
<1>2. /\ i \in AhbmChannel /\ ahbm[i] \in AhbmState /\ Config \in ChannelState
      /\ dma_current \in TransferState /\ BridgeTypes
  BY SomeBridge DEF Types, EngineTypes, BridgeTypes, Config
<1>3. \E v : SendElement(dma_current, Config, v)
  BY <1>1 DEF RunTransfer, Tick, Config
<1>4. ahbm' = ahbm /\ active_channel' = active_channel /\ channels' = channels /\ clean' = clean
  BY <1>2, <1>3, SentQueue DEF RunTransfer, Tick
<1>5. Config' = Config /\ Bridge' = Bridge /\ GetChannelForDma(active_channel)' = i
  BY <1>4 DEF Config, Bridge, GetChannelForDma
<1>6. Bridge = ahbm[i] /\ Bridge.burst_size \in BurstSize
  BY <1>2 DEF Bridge, AhbmState
<1>7. Advance(dma_current, Config)
  BY <1>1 DEF RunTransfer, Tick, Config
<1>8. BridgeTypes'
  BY NextTypes DEF TransferNext, Types
<1>9. Len(burst_queue'[i]) \in Nat
  BY <1>2, <1>8, QueueSteps DEF BridgeTypes
<1> HIDE DEF i
<1>10. QED
  BY <1>1, <1>2, <1>3, <1>4, <1>5, <1>6, <1>7, <1>9, SentQueue DEF i

LEMMA RunUnderway == ASSUME Types, Underway, RunTransfer PROVE Underway'
<1> SUFFICES ASSUME phase' = "running" PROVE Underway'
  BY DEF Underway
<1> DEFINE i == GetChannelForDma(active_channel)
           c == Config
           t == dma_current
           q == Len(burst_queue[i])
           k == Done(t, c)
<1>1. phase = "running"
  BY DEF RunTransfer
<1>2. c \in ChannelState /\ t \in TransferState
  BY RunFacts
<1>3. ~Last(t, c) /\ dma_current' = Stepped(t, c) /\ running' = running
  BY <1>1, RunFacts DEF RunTransfer, Advance
<1>4. dma_current'.ahbm_channel = i
  BY <1>2, <1>3, RunFacts, SteppedType
<1>5. CASE NeverEnds(c)
  <2>1. dma_current'.counter0 % 2 = 0
    BY <1>1, <1>2, <1>3, <1>5, EvenForever DEF Underway
  <2>2. QED
    BY <1>3, <1>4, <1>5, <2>1, RunFacts DEF Underway
<1>6. CASE ~NeverEnds(c)
  <2>1. InArray(t, c) /\ AtElement(t, c) /\ (clean => OnTrack(c, Bridge.burst_size, q, k))
    BY <1>1, <1>6 DEF Underway
  <2>2. /\ InArray(dma_current', c) /\ AtElement(dma_current', c)
        /\ Done(dma_current', c) = k + 1 /\ k \in Nat
    BY <1>2, <1>3, <1>6, <2>1, NextElement, NextAddresses, Numbers
  <2> HIDE DEF k
  <2>3. clean => OnTrack(c, Bridge.burst_size, Len(burst_queue'[i]), k + 1)
    BY <2>1, <2>2, RunFacts, StaysOnTrack
  <2>4. QED
    BY <1>3, <1>4, <1>6, <2>2, <2>3, RunFacts DEF Underway
<1>7. QED
  BY <1>5, <1>6

\* One of the two spaces is the bridge's.
LEMMA OneSide ==
    ASSUME NEW c, Cardinality({s \in {"src_space", "dst_space"} : c[s] = 7}) = 1
    PROVE  \/ c.src_space = 7 /\ c.dst_space # 7
           \/ c.dst_space = 7 /\ c.src_space # 7
<1> DEFINE T == {s \in {"src_space", "dst_space"} : c[s] = 7}
<1>1. IsFiniteSet({"src_space"}) /\ Cardinality({"src_space"}) = 1
  BY FS_Singleton
<1>2. "dst_space" \notin {"src_space"}
  OBVIOUS
<1> HIDE DEF T
<1>3. CASE c.src_space = 7 /\ c.dst_space = 7
  <2>1. T = {"src_space"} \cup {"dst_space"}
    BY <1>3 DEF T
  <2>2. Cardinality({"src_space"} \cup {"dst_space"}) = 1 + 1
    BY <1>1, <1>2, FS_AddElement
  <2>3. Cardinality(T) = 1
    BY DEF T
  <2>4. QED
    BY <2>1, <2>2, <2>3
<1>4. CASE c.src_space # 7 /\ c.dst_space # 7
  <2>1. T = {} /\ Cardinality(T) = 1
    BY <1>4 DEF T
  <2>2. QED
    BY <2>1, FS_EmptySet
<1>5. QED
  BY <1>3, <1>4

\* When the last element is done the queue is back where it started.
LEMMA RunLeavesNothing == ASSUME Types, Underway, RunTransfer PROVE NoLeftovers'
<1> DEFINE i == GetChannelForDma(active_channel)
           c == Config
           t == dma_current
           q == Len(burst_queue[i])
           k == Done(t, c)
           size == Bridge.burst_size
<1> SUFFICES ASSUME phase' = "done", clean',
                    Cardinality({s \in {"src_space", "dst_space"} : c[s] = 7}) = 1,
                    Cardinality(Elements(c)) % size = 0
             PROVE  burst_queue'[i] = <<>>
  BY RunFacts DEF NoLeftovers, WholeBursts
<1>1. phase = "running" /\ clean /\ running # NoChannel
  BY RunFacts DEF RunTransfer, Tick
<1>2. Last(t, c)
  BY <1>1, RunFacts DEF RunTransfer, Advance
<1>3. c \in ChannelState /\ t \in TransferState
  BY RunFacts
<1>4. ~NeverEnds(c)
  BY <1>1, <1>2, <1>3, EvenForever DEF Underway, Last
<1>5. InArray(t, c) /\ OnTrack(c, size, q, k)
  BY <1>1, <1>4 DEF Underway
<1>6. k \in Nat /\ k + 1 = Cardinality(Elements(c))
  BY <1>2, <1>3, <1>4, <1>5, LastElement, Numbers
<1> HIDE DEF k
<1>7. OnTrack(c, size, Len(burst_queue'[i]), k + 1)
  BY <1>5, <1>6, RunFacts, StaysOnTrack
<1>8. size \in {1, 4, 8} /\ Len(burst_queue'[i]) \in Nat
  BY RunFacts DEF BurstSize
<1>9. (k + 1) % size = 0
  BY <1>6
<1>10. Len(burst_queue'[i]) = 0
  <2>1. CASE c.dst_space = 7 /\ c.src_space # 7
    BY <1>7, <1>9, <2>1 DEF OnTrack
  <2>2. CASE c.src_space = 7 /\ c.dst_space # 7
    <3>1. Len(burst_queue'[i]) < size /\ (k + 1 + Len(burst_queue'[i])) % size = 0
      BY <1>7, <2>2 DEF OnTrack
    <3>2. k + 1 \in Nat
      BY <1>6
    <3>3. CASE size = 1
      BY <1>8, <3>1, <3>3
    <3>4. CASE size = 4
      BY <1>8, <1>9, <3>1, <3>2, <3>4
    <3>5. CASE size = 8
      BY <1>8, <1>9, <3>1, <3>2, <3>5
    <3>6. QED
      BY <1>8, <3>3, <3>4, <3>5
  <2>3. QED
    BY <2>1, <2>2, OneSide
<1>11. IsQueue(burst_queue'[i])
  BY RunFacts, NextTypes DEF TransferNext, Types, BridgeTypes
<1>12. QED
  BY <1>10, <1>11, QueueSteps

LEMMA NextUnderway ==
    ASSUME Types, Underway, NoLeftovers, [TransferNext]_transferVars
    PROVE  Underway' /\ NoLeftovers'
<1>1. CASE StartTransfer
  BY <1>1, StartUnderway DEF StartTransfer, NoLeftovers
<1>2. CASE RunTransfer
  BY <1>2, RunUnderway, RunLeavesNothing
<1>3. CASE phase' \notin {"running", "done"}
  BY <1>3 DEF Underway, NoLeftovers
<1>4. CASE UNCHANGED transferVars
  <2>1. /\ Config' = Config /\ Bridge' = Bridge
        /\ GetChannelForDma(active_channel)' = GetChannelForDma(active_channel)
        /\ dma_current' = dma_current /\ running' = running /\ phase' = phase
        /\ clean' = clean /\ burst_queue' = burst_queue /\ active_channel' = active_channel
    BY <1>4 DEF transferVars, dmaVars, ahbmVars, Config, Bridge, GetChannelForDma
  <2>2. QED
    BY <2>1 DEF Underway, NoLeftovers, WholeBursts
<1>5. QED
  <2>1. ASSUME TransferNext, ~StartTransfer, ~RunTransfer
        PROVE  phase' \notin {"running", "done"}
    BY <2>1 DEF TransferNext, Choose, Operation, WriteDma, WriteAhbm, Interrupt, HostRead16,
                HostWrite16, WriteMiu, StoreWord, ResetAll
  <2>2. QED
    BY <1>1, <1>2, <1>3, <1>4, <2>1

\* The invariant of the transfers: types, the position of the running transfer in
\* its array, and the queue that goes with it.
THEOREM TransferInductive == TransferSpec => [](Types /\ Underway /\ NoLeftovers)
<1>1. TransferInit => Types /\ Underway /\ NoLeftovers
  BY InitTypes DEF TransferInit, Underway, NoLeftovers
<1>2. Types /\ Underway /\ NoLeftovers /\ [TransferNext]_transferVars
      => (Types /\ Underway /\ NoLeftovers)'
  BY NextTypes, NextUnderway
<1>3. QED
  BY <1>1, <1>2, PTL DEF TransferSpec

\* Whatever its shape and whichever channels it runs on, a transfer of whole bursts
\* that found the bridge's queue empty leaves it empty.
THEOREM TransferNoLeftovers == TransferSpec => []NoLeftovers
  BY TransferInductive, PTL

\* The running transfer is at an element of its array, with the addresses dma.md
\* gives that element, for any sizes and steps; the exception is the size whose
\* counter wraps past it.
VisitsElements ==
    phase = "running" /\ ~NeverEnds(Config) =>
        LET k == Done(dma_current, Config) IN
        /\ k \in Elements(Config)
        /\ dma_current.src = SrcAt(Config, k)
        /\ dma_current.dst = DstAt(Config, k)

THEOREM TransferVisitsElements == TransferSpec => []VisitsElements
<1>1. ASSUME Types, Underway PROVE VisitsElements
  <2> SUFFICES ASSUME phase = "running", ~NeverEnds(Config) PROVE VisitsElements
    BY DEF VisitsElements
  <2>1. Config \in ChannelState /\ dma_current \in TransferState
    BY <1>1 DEF Types, EngineTypes, Config
  <2>2. InArray(dma_current, Config) /\ AtElement(dma_current, Config)
    BY <1>1 DEF Underway
  <2>3. Done(dma_current, Config) \in Elements(Config)
    BY <2>1, <2>2, InElements
  <2>4. QED
    BY <2>2, <2>3 DEF VisitsElements, AtElement
<1>2. QED
  BY <1>1, TransferInductive, PTL

-----------------------------------------------------------------------------
(***************************************************************************)
(* A transfer copies the array that dma.md describes                       *)
(***************************************************************************)

\* The bytes of both memories.
Places ==
    {<<7, a, 1>> : a \in DOMAIN InitialExternal} \cup
    {<<0, a, b>> : a \in DOMAIN InitialMemory, b \in {1, 2}}

\* In s the first m elements of from are copied, and nothing else has changed.
Progress(c, from, s, m) ==
    /\ \A k \in Elements(c), n \in 1 .. ElementWidth(c) :
        k < m => ValueOf(s, DstBytes(c, k)[n]) = ValueOf(from, SrcBytes(c, k)[n])
    /\ \A x \in Places :
        (\A k \in Elements(c), n \in 1 .. ElementWidth(c) : k < m => DstBytes(c, k)[n] # x)
        => ValueOf(s, x) = ValueOf(from, x)

\* A queue holds elements of from, from element first on; a burst may read further.
Holding(c, from, queue, first) ==
    \A j \in 1 .. Len(queue), n \in 1 .. ElementWidth(c) :
        first + j - 1 \in Elements(c) =>
            queue[j][n] = ValueOf(from, SrcBytes(c, first + j - 1)[n])

\* The elements that have reached their destination, of k that were read.
Arrived(c, queue, k) == IF c.dst_space = 7 THEN k - Len(queue) ELSE k

\* With k elements read the memories are s; start is where the queue will be written.
MovedTo(c, from, s, queue, start, k) ==
    LET first == Arrived(c, queue, k) IN
    /\ Progress(c, from, s, first)
    /\ UsesBridge(c) => Holding(c, from, queue, first)
    /\ c.dst_space = 7 /\ queue # <<>> => start = DstAt(c, first)

Moved ==
    phase = "running" /\ clean /\ Plain(Config, Bridge) /\ ~NeverEnds(Config) =>
        LET i == GetChannelForDma(active_channel) IN
        MovedTo(Config, before, Snapshot, burst_queue[i], write_burst_start[i],
                Done(dma_current, Config))

\* The channel that runs is the plan's, and the memories keep their sizes.
Planned ==
    /\ phase = "writing" => active_channel = plan.channel
    /\ phase = "running" => Backed(Config)
    /\ DOMAIN memory = DOMAIN InitialMemory
    /\ DOMAIN external = DOMAIN InitialExternal

-----------------------------------------------------------------------------
(***************************************************************************)
(* The bytes of elements                                                   *)
(***************************************************************************)
LEMMA Widths ==
    ASSUME NEW c \in ChannelState
    PROVE  /\ Counted(c) \in {1, 2}
           /\ ElementWidth(c) \in {2, 4} /\ ElementWidth(c) = 2 * Counted(c)
           /\ ElementWidth(c) = 4 <=> c.dword_mode = 1
  BY DEF Counted, ElementWidth

LEMMA ElementsFinite ==
    ASSUME NEW c \in ChannelState
    PROVE  /\ Elements(c) \subseteq Nat
           /\ IsFiniteSet(Elements(c)) /\ Cardinality(Elements(c)) \in Nat
           /\ Elements(c) = 0 .. Cardinality(Elements(c)) - 1
<1> DEFINE n == Size0(c) * Size1(c) * Size2(c)
<1>1. n \in Nat \ {0}
  <2>1. Size0(c) \in Nat \ {0} /\ Size1(c) \in Nat \ {0} /\ Size2(c) \in Nat \ {0}
    BY Sizes
  <2>2. Size0(c) * Size1(c) \in Nat \ {0}
    BY <2>1
  <2>3. QED
    BY <2>1, <2>2
<1>2. Elements(c) = 0 .. n - 1
  BY DEF Elements
<1> HIDE DEF n
<1>3. IsFiniteSet(0 .. n - 1) /\ Cardinality(0 .. n - 1) = n
  BY <1>1, FS_Interval
<1>4. QED
  BY <1>1, <1>2, <1>3

LEMMA ByteShape ==
    ASSUME NEW c, NEW space, NEW a
    PROVE  /\ DOMAIN BytesAt(c, space, a) = 1 .. ElementWidth(c)
           /\ space = 7 => \A n \in 1 .. ElementWidth(c) :
                BytesAt(c, space, a)[n] = <<7, AlignDown(a, ElementWidth(c)) + n - 1, 1>>
           /\ space # 7 => \A n \in 1 .. ElementWidth(c) :
                BytesAt(c, space, a)[n] =
                    <<0, Offset + AlignDown(a, Counted(c)) + (n - 1) \div 2, 1 + ((n - 1) % 2)>>
  BY DEF BytesAt

\* Every byte of the elements is one of the memories'.
LEMMA InPlace ==
    ASSUME NEW c \in ChannelState, NEW space \in {0, 7}, NEW a, NEW n \in 1 .. ElementWidth(c),
           Present(BytesAt(c, space, a)[n])
    PROVE  BytesAt(c, space, a)[n] \in Places
<1> DEFINE byte == BytesAt(c, space, a)[n]
<1>1. (n - 1) % 2 \in {0, 1}
  BY Widths
<1>2. 1 + ((n - 1) % 2) \in {1, 2}
  BY <1>1
<1>3. CASE space = 7
  <2>1. PICK x : byte = <<7, x, 1>>
    BY <1>3, ByteShape
  <2>2. x \in DOMAIN InitialExternal
    BY <2>1 DEF Present
  <2>3. QED
    BY <2>1, <2>2 DEF Places
<1>4. CASE space = 0
  <2>1. PICK x : byte = <<0, x, 1 + ((n - 1) % 2)>>
    BY <1>4, ByteShape
  <2>2. x \in DOMAIN InitialMemory
    BY <2>1 DEF Present
  <2>3. PICK b \in {1, 2} : byte = <<0, x, b>>
    BY <1>2, <2>1
  <2>4. QED
    BY <2>2, <2>3 DEF Places
<1>5. QED
  BY <1>3, <1>4

Spaces(c) == c.src_space \in {0, 7} /\ c.dst_space \in {0, 7}

LEMMA ElementsInPlace ==
    ASSUME NEW c \in ChannelState, Spaces(c), Backed(c),
           NEW k \in Elements(c), NEW n \in 1 .. ElementWidth(c)
    PROVE  SrcBytes(c, k)[n] \in Places /\ DstBytes(c, k)[n] \in Places
  BY InPlace DEF Spaces, Backed, SrcBytes, DstBytes

\* No byte is written twice, none that is written is read.
Distinct(c) ==
    /\ \A k, j \in Elements(c), n, m \in 1 .. ElementWidth(c) :
        DstBytes(c, k)[n] = DstBytes(c, j)[m] => k = j /\ n = m
    /\ \A k, j \in Elements(c), n, m \in 1 .. ElementWidth(c) :
        DstBytes(c, k)[n] # SrcBytes(c, j)[m]

\* As many bytes as elements have are all different.
LEMMA ApartDistinct ==
    ASSUME NEW c \in ChannelState, Apart(c)
    PROVE  Distinct(c)
<1> DEFINE E == Elements(c)
           W == 1 .. ElementWidth(c)
           written == UNION {BytesOf(DstBytes(c, k)) : k \in E}
           read == UNION {BytesOf(SrcBytes(c, k)) : k \in E}
           f == [p \in E \X W |-> DstBytes(c, p[1])[p[2]]]
<1>1. \A k \in E : DOMAIN DstBytes(c, k) = W /\ DOMAIN SrcBytes(c, k) = W
  BY ByteShape DEF DstBytes, SrcBytes
<1>2. written \cap read = {} /\ Cardinality(written) = Cardinality(E) * ElementWidth(c)
  BY DEF Apart
<1>3. \A k \in E, n \in W : DstBytes(c, k)[n] \in written /\ SrcBytes(c, k)[n] \in read
  <2>1. \A k \in E, n \in W : /\ DstBytes(c, k)[n] \in BytesOf(DstBytes(c, k))
                              /\ SrcBytes(c, k)[n] \in BytesOf(SrcBytes(c, k))
    BY <1>1 DEF BytesOf
  <2>2. QED
    BY <2>1
<1>4. IsFiniteSet(W) /\ Cardinality(W) = ElementWidth(c)
  BY FS_Interval, Widths
<1>5. IsFiniteSet(E \X W) /\ Cardinality(E \X W) = Cardinality(E) * ElementWidth(c)
  BY <1>4, ElementsFinite, FS_Product
<1>6. f \in Surjection(E \X W, written)
  <2>1. \A p \in E \X W : f[p] \in written
    BY <1>3
  <2>2. f \in [E \X W -> written]
    BY <2>1
  <2>3. ASSUME NEW x \in written PROVE \E p \in E \X W : f[p] = x
    <3>1. PICK k \in E : x \in BytesOf(DstBytes(c, k))
      OBVIOUS
    <3>2. PICK n \in W : x = DstBytes(c, k)[n]
      BY <1>1, <3>1 DEF BytesOf
    <3>3. <<k, n>> \in E \X W /\ f[<<k, n>>] = x
      BY <3>2
    <3>4. QED
      BY <3>3
  <2>4. QED
    BY <2>2, <2>3 DEF Surjection
<1> HIDE DEF written, read
<1>7. f \in Injection(E \X W, written)
  BY <1>2, <1>5, <1>6, FS_Surjection
<1>8. ASSUME NEW k \in E, NEW j \in E, NEW n \in W, NEW m \in W,
             DstBytes(c, k)[n] = DstBytes(c, j)[m]
      PROVE  k = j /\ n = m
  <2>1. <<k, n>> \in E \X W /\ <<j, m>> \in E \X W
    OBVIOUS
  <2>2. f[<<k, n>>] = f[<<j, m>>]
    BY <1>8, <2>1
  <2> HIDE DEF f
  <2>3. <<k, n>> = <<j, m>>
    BY <1>7, <2>1, <2>2 DEF Injection, IsInjective
  <2>4. QED
    BY <2>3
<1>9. QED
  BY <1>2, <1>3, <1>8 DEF Distinct

-----------------------------------------------------------------------------
(***************************************************************************)
(* Progress, element by element                                            *)
(***************************************************************************)
\* From s to s2 the bytes of v go to element k, and nothing else changes.
Put(c, s, s2, k, v) ==
    /\ \A n \in 1 .. ElementWidth(c) : ValueOf(s2, DstBytes(c, k)[n]) = v[n]
    /\ \A x \in Places :
        (\A n \in 1 .. ElementWidth(c) : DstBytes(c, k)[n] # x) => ValueOf(s2, x) = ValueOf(s, x)

\* A configuration whose array can be copied byte by byte.
Copyable(c) == c \in ChannelState /\ Spaces(c) /\ Backed(c) /\ Distinct(c)

LEMMA OneMore ==
    ASSUME NEW c, Copyable(c), NEW from, NEW s, NEW s2, NEW m \in Elements(c), NEW v,
           Progress(c, from, s, m), Put(c, s, s2, m, v),
           \A n \in 1 .. ElementWidth(c) : v[n] = ValueOf(from, SrcBytes(c, m)[n])
    PROVE  Progress(c, from, s2, m + 1)
<1> USE DEF Copyable
<1>1. Elements(c) \subseteq Nat
  BY ElementsFinite
<1>2. ASSUME NEW k \in Elements(c), NEW n \in 1 .. ElementWidth(c), k < m + 1
      PROVE  ValueOf(s2, DstBytes(c, k)[n]) = ValueOf(from, SrcBytes(c, k)[n])
  <2>1. CASE k = m
    BY <2>1 DEF Put
  <2>2. CASE k # m
    <3>1. k < m
      BY <1>1, <1>2, <2>2
    <3>2. DstBytes(c, k)[n] \in Places
      BY ElementsInPlace
    <3>3. \A l \in 1 .. ElementWidth(c) : DstBytes(c, m)[l] # DstBytes(c, k)[n]
      BY <2>2 DEF Distinct
    <3>4. ValueOf(s2, DstBytes(c, k)[n]) = ValueOf(s, DstBytes(c, k)[n])
      BY <3>2, <3>3 DEF Put
    <3>5. QED
      BY <3>1, <3>4 DEF Progress
  <2>3. QED
    BY <2>1, <2>2
<1>3. ASSUME NEW x \in Places,
             \A k \in Elements(c), n \in 1 .. ElementWidth(c) : k < m + 1 => DstBytes(c, k)[n] # x
      PROVE  ValueOf(s2, x) = ValueOf(from, x)
  <2>1. \A n \in 1 .. ElementWidth(c) : DstBytes(c, m)[n] # x
    BY <1>1, <1>3
  <2>2. \A k \in Elements(c), n \in 1 .. ElementWidth(c) : k < m => DstBytes(c, k)[n] # x
    BY <1>1, <1>3
  <2>3. QED
    BY <2>1, <2>2 DEF Put, Progress
<1>4. QED
  BY <1>2, <1>3 DEF Progress

\* What is to be read is as it was at the start.
LEMMA Unread ==
    ASSUME NEW c, Copyable(c), NEW from, NEW s, NEW m, Progress(c, from, s, m),
           NEW k \in Elements(c), NEW n \in 1 .. ElementWidth(c)
    PROVE  ValueOf(s, SrcBytes(c, k)[n]) = ValueOf(from, SrcBytes(c, k)[n])
<1>1. SrcBytes(c, k)[n] \in Places
  BY ElementsInPlace DEF Copyable
<1>2. \A j \in Elements(c), l \in 1 .. ElementWidth(c) : DstBytes(c, j)[l] # SrcBytes(c, k)[n]
  BY DEF Copyable, Distinct
<1>3. QED
  BY <1>1, <1>2 DEF Progress

LEMMA NoProgress ==
    ASSUME NEW c \in ChannelState, NEW s
    PROVE  Progress(c, s, s, 0)
<1>1. \A k \in Elements(c) : ~(k < 0)
  BY ElementsFinite
<1>2. QED
  BY <1>1 DEF Progress

\* When all elements have arrived the array is copied and the rest untouched.
LEMMA Copied ==
    ASSUME NEW c \in ChannelState, NEW from, NEW m, NEW e,
           Progress(c, from, [memory |-> m, external |-> e], Cardinality(Elements(c))),
           DOMAIN m = DOMAIN InitialMemory, DOMAIN e = DOMAIN InitialExternal
    PROVE  LET dst == UNION {BytesOf(DstBytes(c, k)) : k \in Elements(c)}
               s   == [memory |-> m, external |-> e]
           IN  /\ \A k \in Elements(c), n \in 1 .. ElementWidth(c) :
                    ValueOf(s, DstBytes(c, k)[n]) = ValueOf(from, SrcBytes(c, k)[n])
               /\ \A a \in DOMAIN e : <<7, a, 1>> \notin dst => e[a] = from.external[a]
               /\ \A a \in DOMAIN m, b \in {1, 2} : <<0, a, b>> \notin dst =>
                    m[a][b] = from.memory[a][b]
<1> DEFINE dst == UNION {BytesOf(DstBytes(c, k)) : k \in Elements(c)}
           s   == [memory |-> m, external |-> e]
<1>1. \A k \in Elements(c) : k < Cardinality(Elements(c))
  BY ElementsFinite
<1>2. \A k \in Elements(c), n \in 1 .. ElementWidth(c) : DstBytes(c, k)[n] \in dst
  <2>1. \A k \in Elements(c) : DOMAIN DstBytes(c, k) = 1 .. ElementWidth(c)
    BY ByteShape DEF DstBytes
  <2>2. \A k \in Elements(c), n \in 1 .. ElementWidth(c) :
            DstBytes(c, k)[n] \in BytesOf(DstBytes(c, k))
    BY <2>1 DEF BytesOf
  <2>3. QED
    BY <2>2
<1>3. s.memory = m /\ s.external = e /\ Progress(c, from, s, Cardinality(Elements(c)))
  OBVIOUS
<1> HIDE DEF dst, s
<1>4. \A x \in Places : x \notin dst => ValueOf(s, x) = ValueOf(from, x)
  BY <1>2, <1>3 DEF Progress
<1>5. \A k \in Elements(c), n \in 1 .. ElementWidth(c) :
        ValueOf(s, DstBytes(c, k)[n]) = ValueOf(from, SrcBytes(c, k)[n])
  BY <1>1, <1>3 DEF Progress
<1>6. ASSUME NEW a \in DOMAIN e, <<7, a, 1>> \notin dst
      PROVE  e[a] = from.external[a]
  <2>1. <<7, a, 1>> \in Places
    BY DEF Places
  <2>2. ValueOf(s, <<7, a, 1>>) = ValueOf(from, <<7, a, 1>>)
    BY <1>4, <1>6, <2>1
  <2>3. QED
    BY <1>3, <2>2 DEF ValueOf
<1>7. ASSUME NEW a \in DOMAIN m, NEW b \in {1, 2}, <<0, a, b>> \notin dst
      PROVE  m[a][b] = from.memory[a][b]
  <2>1. <<0, a, b>> \in Places
    BY DEF Places
  <2>2. ValueOf(s, <<0, a, b>>) = ValueOf(from, <<0, a, b>>)
    BY <1>4, <1>7, <2>1
  <2>3. QED
    BY <1>3, <2>2 DEF ValueOf
<1>8. QED
  BY <1>5, <1>6, <1>7 DEF dst, s

-----------------------------------------------------------------------------
(***************************************************************************)
(* An element in the DSP's memory                                          *)
(***************************************************************************)
\* The words and halves of the bytes of a word and of a doubleword.
LEMMA WordBytes ==
    ASSUME NEW c, NEW a \in Nat, c \in ChannelState
    PROVE  /\ c.dword_mode # 1 =>
                /\ ElementWidth(c) = 2
                /\ BytesAt(c, 0, a)[1] = <<0, Offset + a, 1>>
                /\ BytesAt(c, 0, a)[2] = <<0, Offset + a, 2>>
           /\ c.dword_mode = 1 =>
                /\ ElementWidth(c) = 4
                /\ BytesAt(c, 0, a)[1] = <<0, Even(a), 1>>
                /\ BytesAt(c, 0, a)[2] = <<0, Even(a), 2>>
                /\ BytesAt(c, 0, a)[3] = <<0, Odd(a), 1>>
                /\ BytesAt(c, 0, a)[4] = <<0, Odd(a), 2>>
<1>0. Offset \in Nat /\ a % 1 = 0 /\ a % 2 \in {0, 1}
  BY MemoryAssumption
<1>1. CASE c.dword_mode # 1
  <2>1. ElementWidth(c) = 2 /\ Counted(c) = 1
    BY <1>1 DEF ElementWidth, Counted
  <2>2. AlignDown(a, 1) = a
    BY <1>0 DEF AlignDown
  <2>3. \A n \in 1 .. 2 : BytesAt(c, 0, a)[n] = <<0, Offset + a + (n - 1) \div 2, 1 + ((n - 1) % 2)>>
    BY <2>1, <2>2 DEF BytesAt
  <2>4. (1 - 1) \div 2 = 0 /\ (2 - 1) \div 2 = 0 /\ (1 - 1) % 2 = 0 /\ (2 - 1) % 2 = 1
    OBVIOUS
  <2>5. /\ BytesAt(c, 0, a)[1] = <<0, Offset + a + 0, 1 + 0>>
        /\ BytesAt(c, 0, a)[2] = <<0, Offset + a + 0, 1 + 1>>
    <3>1. 1 \in 1 .. 2 /\ 2 \in 1 .. 2
      OBVIOUS
    <3>2. QED
      BY <2>3, <2>4, <3>1
  <2>6. Offset + a + 0 = Offset + a /\ 1 + 0 = 1 /\ 1 + 1 = 2
    BY <1>0
  <2>7. QED
    BY <1>1, <2>1, <2>5, <2>6
<1>2. CASE c.dword_mode = 1
  <2>1. ElementWidth(c) = 4 /\ Counted(c) = 2
    BY <1>2 DEF ElementWidth, Counted
  <2>2. Even(a) \in Int /\ Odd(a) = Even(a) + 1
    BY <1>0 DEF Even, Odd, AlignDown
  <2>3. \A n \in 1 .. 4 : BytesAt(c, 0, a)[n] = <<0, Even(a) + (n - 1) \div 2, 1 + ((n - 1) % 2)>>
    <3>1. \A n \in 1 .. 4 :
            BytesAt(c, 0, a)[n] = <<0, Offset + AlignDown(a, 2) + (n - 1) \div 2, 1 + ((n - 1) % 2)>>
      BY <2>1 DEF BytesAt
    <3>2. Even(a) = Offset + AlignDown(a, 2)
      BY DEF Even
    <3>3. QED
      BY <3>1, <3>2
  <2>4. /\ (1 - 1) \div 2 = 0 /\ (2 - 1) \div 2 = 0 /\ (3 - 1) \div 2 = 1 /\ (4 - 1) \div 2 = 1
        /\ (1 - 1) % 2 = 0 /\ (2 - 1) % 2 = 1 /\ (3 - 1) % 2 = 0 /\ (4 - 1) % 2 = 1
    OBVIOUS
  <2>5. /\ BytesAt(c, 0, a)[1] = <<0, Even(a) + 0, 1 + 0>>
        /\ BytesAt(c, 0, a)[2] = <<0, Even(a) + 0, 1 + 1>>
        /\ BytesAt(c, 0, a)[3] = <<0, Even(a) + 1, 1 + 0>>
        /\ BytesAt(c, 0, a)[4] = <<0, Even(a) + 1, 1 + 1>>
    <3>1. 1 \in 1 .. 4 /\ 2 \in 1 .. 4 /\ 3 \in 1 .. 4 /\ 4 \in 1 .. 4
      OBVIOUS
    <3>2. QED
      BY <2>3, <2>4, <3>1
  <2>6. Even(a) + 0 = Even(a) /\ 1 + 0 = 1 /\ 1 + 1 = 2
    BY <2>2
  <2>7. QED
    BY <1>2, <2>1, <2>2, <2>5, <2>6
<1>3. QED
  BY <1>1, <1>2

\* An element read from memory is its bytes.
LEMMA ElementRead ==
    ASSUME NEW c \in ChannelState, c.src_space = 0, NEW k, NEW t, t.src = SrcAt(c, k),
           t.src \in Nat, NEW n \in 1 .. ElementWidth(c)
    PROVE  Element(t, c)[n] = ValueOf(Snapshot, SrcBytes(c, k)[n])
<1> DEFINE a == t.src
<1>1. SrcBytes(c, k) = BytesAt(c, 0, a)
  BY DEF SrcBytes
<1>2. \A w, b : ValueOf(Snapshot, <<0, w, b>>) = memory[w][b]
  BY DEF ValueOf, Snapshot
<1>3. CASE c.dword_mode # 1
  <2>1. Element(t, c) = <<memory[Offset + a][1], memory[Offset + a][2], ZeroByte, ZeroByte>>
    BY <1>3 DEF Element, Word, Bytes
  <2>2. /\ n \in {1, 2}
        /\ SrcBytes(c, k)[1] = <<0, Offset + a, 1>> /\ SrcBytes(c, k)[2] = <<0, Offset + a, 2>>
    <3>1. ElementWidth(c) = 2
      BY <1>3, Widths
    <3>2. QED
      BY <1>1, <1>3, <3>1, WordBytes
  <2>3. /\ Element(t, c)[1] = memory[Offset + a][1]
        /\ Element(t, c)[2] = memory[Offset + a][2]
    BY <2>1
  <2>4. /\ ValueOf(Snapshot, SrcBytes(c, k)[1]) = memory[Offset + a][1]
        /\ ValueOf(Snapshot, SrcBytes(c, k)[2]) = memory[Offset + a][2]
    BY <1>2, <2>2
  <2>5. QED
    BY <2>2, <2>3, <2>4
<1>4. CASE c.dword_mode = 1
  <2>1. Element(t, c) = <<memory[Even(a)][1], memory[Even(a)][2],
                          memory[Odd(a)][1], memory[Odd(a)][2]>>
    BY <1>4 DEF Element, Dword, Bytes
  <2>2. /\ n \in {1, 2, 3, 4}
        /\ SrcBytes(c, k)[1] = <<0, Even(a), 1>> /\ SrcBytes(c, k)[2] = <<0, Even(a), 2>>
        /\ SrcBytes(c, k)[3] = <<0, Odd(a), 1>> /\ SrcBytes(c, k)[4] = <<0, Odd(a), 2>>
    <3>1. ElementWidth(c) = 4
      BY <1>4, Widths
    <3>2. QED
      BY <1>1, <1>4, <3>1, WordBytes
  <2>3. /\ Element(t, c)[1] = memory[Even(a)][1] /\ Element(t, c)[2] = memory[Even(a)][2]
        /\ Element(t, c)[3] = memory[Odd(a)][1] /\ Element(t, c)[4] = memory[Odd(a)][2]
    BY <2>1
  <2>4. /\ ValueOf(Snapshot, SrcBytes(c, k)[1]) = memory[Even(a)][1]
        /\ ValueOf(Snapshot, SrcBytes(c, k)[2]) = memory[Even(a)][2]
        /\ ValueOf(Snapshot, SrcBytes(c, k)[3]) = memory[Odd(a)][1]
        /\ ValueOf(Snapshot, SrcBytes(c, k)[4]) = memory[Odd(a)][2]
    BY <1>2, <2>2
  <2>5. QED
    BY <2>2, <2>3, <2>4
<1>5. QED
  BY <1>3, <1>4

\* Storing an element in memory puts its bytes there.
LEMMA ElementStored ==
    ASSUME NEW c, Copyable(c), c.dst_space = 0, NEW k \in Elements(c),
           NEW t, t.dst = DstAt(c, k), t.dst \in Nat, NEW v, StoreElement(t, c, v),
           DOMAIN memory = DOMAIN InitialMemory, NEW e
    PROVE  /\ Put(c, [memory |-> memory, external |-> e],
                     [memory |-> memory', external |-> e], k, v)
           /\ DOMAIN memory' = DOMAIN InitialMemory
<1> DEFINE a == t.dst
           s == [memory |-> memory, external |-> e]
           s2 == [memory |-> memory', external |-> e]
<1>0. c \in ChannelState
  BY DEF Copyable
<1>1. DstBytes(c, k) = BytesAt(c, 0, a)
  BY DEF DstBytes
<1>2. \A w, b : /\ ValueOf(s, <<0, w, b>>) = memory[w][b]
                /\ ValueOf(s2, <<0, w, b>>) = memory'[w][b]
  BY DEF ValueOf
<1>3. \A x \in Places : \/ \E w \in DOMAIN memory, b \in {1, 2} : x = <<0, w, b>>
                        \/ ValueOf(s2, x) = ValueOf(s, x)
  <2>1. \A w : ValueOf(s2, <<7, w, 1>>) = ValueOf(s, <<7, w, 1>>)
    BY DEF ValueOf
  <2>2. QED
    BY <2>1 DEF Places
<1>4. \A n \in 1 .. ElementWidth(c) : DstBytes(c, k)[n] \in Places
  BY ElementsInPlace DEF Copyable
<1>5. \A w, b : <<0, w, b>> \in Places => w \in DOMAIN memory
  BY DEF Places
<1> HIDE DEF s, s2
<1>6. CASE c.dword_mode # 1
  <2>1. /\ ElementWidth(c) = 2
        /\ DstBytes(c, k)[1] = <<0, Offset + a, 1>> /\ DstBytes(c, k)[2] = <<0, Offset + a, 2>>
    BY <1>0, <1>1, <1>6, WordBytes
  <2>2. Offset + a \in DOMAIN memory
    <3>1. <<0, Offset + a, 1>> \in Places
      BY <1>4, <2>1
    <3>2. QED
      BY <1>5, <3>1
  <2>3. memory' = [memory EXCEPT ![Offset + a] = <<v[1], v[2]>>]
    BY <1>6 DEF StoreElement
  <2>4. memory'[Offset + a][1] = v[1] /\ memory'[Offset + a][2] = v[2]
    BY <2>2, <2>3
  <2>5. ASSUME NEW n \in 1 .. ElementWidth(c) PROVE ValueOf(s2, DstBytes(c, k)[n]) = v[n]
    <3>1. n \in {1, 2}
      BY <2>1
    <3>2. ValueOf(s2, DstBytes(c, k)[1]) = v[1] /\ ValueOf(s2, DstBytes(c, k)[2]) = v[2]
      BY <1>2, <2>1, <2>4
    <3>3. QED
      BY <3>1, <3>2
  <2>6. ASSUME NEW x \in Places, \A n \in 1 .. ElementWidth(c) : DstBytes(c, k)[n] # x
        PROVE  ValueOf(s2, x) = ValueOf(s, x)
    <3>1. SUFFICES ASSUME NEW w \in DOMAIN memory, NEW b \in {1, 2}, x = <<0, w, b>>
                   PROVE  ValueOf(s2, x) = ValueOf(s, x)
      BY <1>3
    <3>2. <<0, w, b>> # <<0, Offset + a, 1>> /\ <<0, w, b>> # <<0, Offset + a, 2>>
      BY <2>1, <2>6, <3>1
    <3>3. w # Offset + a
      BY <3>1, <3>2
    <3>4. memory'[w] = memory[w]
      BY <2>3, <3>1, <3>3
    <3>5. QED
      BY <1>2, <3>1, <3>4
  <2>7. QED
    BY <2>3, <2>5, <2>6 DEF Put, s, s2
<1>7. CASE c.dword_mode = 1
  <2>1. /\ ElementWidth(c) = 4
        /\ DstBytes(c, k)[1] = <<0, Even(a), 1>> /\ DstBytes(c, k)[2] = <<0, Even(a), 2>>
        /\ DstBytes(c, k)[3] = <<0, Odd(a), 1>> /\ DstBytes(c, k)[4] = <<0, Odd(a), 2>>
    BY <1>0, <1>1, <1>7, WordBytes
  <2>2. Even(a) \in DOMAIN memory /\ Odd(a) \in DOMAIN memory
    BY <1>4, <1>5, <2>1
  <2>3. memory' = [memory EXCEPT ![Even(a)] = <<v[1], v[2]>>, ![Odd(a)] = <<v[3], v[4]>>]
    BY <1>7 DEF StoreElement
  <2>4. Even(a) # Odd(a)
    BY MemoryAssumption DEF Even, Odd, AlignDown
  <2>5. /\ memory'[Even(a)][1] = v[1] /\ memory'[Even(a)][2] = v[2]
        /\ memory'[Odd(a)][1] = v[3] /\ memory'[Odd(a)][2] = v[4]
    BY <2>2, <2>3, <2>4
  <2>6. ASSUME NEW n \in 1 .. ElementWidth(c) PROVE ValueOf(s2, DstBytes(c, k)[n]) = v[n]
    <3>1. n \in {1, 2, 3, 4}
      BY <2>1
    <3>2. /\ ValueOf(s2, DstBytes(c, k)[1]) = v[1] /\ ValueOf(s2, DstBytes(c, k)[2]) = v[2]
          /\ ValueOf(s2, DstBytes(c, k)[3]) = v[3] /\ ValueOf(s2, DstBytes(c, k)[4]) = v[4]
      BY <1>2, <2>1, <2>5
    <3>3. QED
      BY <3>1, <3>2
  <2>7. ASSUME NEW x \in Places, \A n \in 1 .. ElementWidth(c) : DstBytes(c, k)[n] # x
        PROVE  ValueOf(s2, x) = ValueOf(s, x)
    <3>1. SUFFICES ASSUME NEW w \in DOMAIN memory, NEW b \in {1, 2}, x = <<0, w, b>>
                   PROVE  ValueOf(s2, x) = ValueOf(s, x)
      BY <1>3
    <3>2. /\ <<0, w, b>> # <<0, Even(a), 1>> /\ <<0, w, b>> # <<0, Even(a), 2>>
          /\ <<0, w, b>> # <<0, Odd(a), 1>> /\ <<0, w, b>> # <<0, Odd(a), 2>>
      BY <2>1, <2>7, <3>1
    <3>3. w # Even(a) /\ w # Odd(a)
      BY <3>1, <3>2
    <3>4. memory'[w] = memory[w]
      BY <2>3, <3>1, <3>3
    <3>5. QED
      BY <1>2, <3>1, <3>4
  <2>8. QED
    BY <2>3, <2>6, <2>7 DEF Put, s, s2
<1>8. QED
  BY <1>6, <1>7

-----------------------------------------------------------------------------
(***************************************************************************)
(* An element on the bridge                                                *)
(***************************************************************************)
\* A bridge set up for the width of the elements, and an aligned address.
Fitted(c, unit, a) ==
    /\ unit \in UnitSize /\ Width(unit) = ElementWidth(c)
    /\ a \in Int /\ a % ElementWidth(c) = 0

LEMMA FittedUnit ==
    ASSUME NEW c \in ChannelState, NEW unit, NEW a, Fitted(c, unit, a)
    PROVE  /\ \/ unit = "u16" /\ ElementWidth(c) = 2
              \/ unit = "u32" /\ ElementWidth(c) = 4
           /\ AlignDown(a, ElementWidth(c)) = a
<1>1. unit \in {"u8", "u16", "u32", "unknown"} /\ Width(unit) \in {2, 4}
  BY Widths DEF Fitted, UnitSize
<1>2. /\ Width("u8") = 1 /\ Width("u16") = 2 /\ Width("u32") = 4 /\ Width("unknown") = 0
  BY DEF Width
<1>3. AlignDown(a, ElementWidth(c)) = a
  BY DEF Fitted, AlignDown
<1>4. QED
  BY <1>1, <1>2, <1>3 DEF Fitted

LEMMA BridgeBytes ==
    ASSUME NEW c \in ChannelState, NEW unit, NEW a, Fitted(c, unit, a),
           NEW n \in 1 .. ElementWidth(c)
    PROVE  BytesAt(c, 7, a)[n] = <<7, a + n - 1, 1>>
  BY FittedUnit, ByteShape

LEMMA UnitRead ==
    ASSUME NEW c \in ChannelState, NEW unit, NEW a, Fitted(c, unit, a),
           NEW n \in 1 .. ElementWidth(c)
    PROVE  ReadUnit(unit, a)[n] = external[a + n - 1]
<1>1. a \in Int /\ AlignDown(a, ElementWidth(c)) = a
  BY FittedUnit DEF Fitted
<1>2. CASE unit = "u16" /\ ElementWidth(c) = 2
  <2>1. ReadUnit(unit, a) = <<external[a], external[a + 1], ZeroByte, ZeroByte>>
    BY <1>1, <1>2 DEF ReadUnit, Bytes, Lane
  <2>2. /\ ReadUnit(unit, a)[1] = external[a] /\ ReadUnit(unit, a)[2] = external[a + 1]
    BY <2>1
  <2>3. n \in {1, 2} /\ a + 1 - 1 = a /\ a + 2 - 1 = a + 1
    BY <1>1, <1>2
  <2>4. QED
    BY <2>2, <2>3
<1>3. CASE unit = "u32" /\ ElementWidth(c) = 4
  <2>1. ReadUnit(unit, a) = <<external[a], external[a + 1], external[a + 2], external[a + 3]>>
    BY <1>1, <1>3 DEF ReadUnit, Bytes, Lane
  <2>2. /\ ReadUnit(unit, a)[1] = external[a] /\ ReadUnit(unit, a)[2] = external[a + 1]
        /\ ReadUnit(unit, a)[3] = external[a + 2] /\ ReadUnit(unit, a)[4] = external[a + 3]
    BY <2>1
  <2>3. /\ n \in {1, 2, 3, 4} /\ a + 1 - 1 = a /\ a + 2 - 1 = a + 1
        /\ a + 3 - 1 = a + 2 /\ a + 4 - 1 = a + 3
    BY <1>1, <1>3
  <2>4. QED
    BY <2>2, <2>3
<1>4. QED
  BY <1>2, <1>3, FittedUnit

LEMMA UnitWritten ==
    ASSUME NEW c \in ChannelState, NEW unit, NEW a, Fitted(c, unit, a), NEW mem, NEW v
    PROVE  WriteUnit(mem, unit, a, v) =
             [b \in DOMAIN mem |->
                IF b \in a .. a + ElementWidth(c) - 1 THEN v[b - a + 1] ELSE mem[b]]
<1>1. AlignDown(a, ElementWidth(c)) = a /\ Width(unit) = ElementWidth(c)
  BY FittedUnit DEF Fitted
<1>2. unit \in {"u16", "u32"}
  BY FittedUnit
<1>3. QED
  BY <1>1, <1>2 DEF WriteUnit

\* Writing a unit puts the bytes of an element into external memory.
LEMMA UnitPut ==
    ASSUME NEW c, Copyable(c), c.dst_space = 7, NEW k \in Elements(c), NEW unit,
           Fitted(c, unit, DstAt(c, k)), NEW mem, DOMAIN mem = DOMAIN InitialExternal,
           NEW v, NEW w
    PROVE  Put(c, [memory |-> w, external |-> mem],
                  [memory |-> w, external |-> WriteUnit(mem, unit, DstAt(c, k), v)], k, v)
<1> DEFINE a == DstAt(c, k)
           W == ElementWidth(c)
           new == WriteUnit(mem, unit, a, v)
           s == [memory |-> w, external |-> mem]
           s2 == [memory |-> w, external |-> new]
<1>0. c \in ChannelState /\ a \in Int /\ W \in {2, 4}
  BY Widths DEF Copyable, Fitted
<1>1. new = [b \in DOMAIN mem |-> IF b \in a .. a + W - 1 THEN v[b - a + 1] ELSE mem[b]]
  BY <1>0, UnitWritten
<1>2. \A n \in 1 .. W : DstBytes(c, k)[n] = <<7, a + n - 1, 1>>
  BY <1>0, BridgeBytes DEF DstBytes
<1>3. \A n \in 1 .. W : a + n - 1 \in DOMAIN mem
  <2>1. \A b : <<7, b, 1>> \in Places => b \in DOMAIN mem
    BY DEF Places
  <2>2. \A n \in 1 .. W : <<7, a + n - 1, 1>> \in Places
    BY <1>2, ElementsInPlace DEF Copyable
  <2>3. QED
    BY <2>1, <2>2
<1> HIDE DEF a, W, new
<1>4. \A b : /\ ValueOf(s, <<7, b, 1>>) = mem[b]
             /\ ValueOf(s2, <<7, b, 1>>) = new[b]
  BY DEF ValueOf
<1>5. \A b, h : ValueOf(s2, <<0, b, h>>) = ValueOf(s, <<0, b, h>>)
  BY DEF ValueOf
<1> HIDE DEF s, s2
<1>6. ASSUME NEW n \in 1 .. W PROVE ValueOf(s2, DstBytes(c, k)[n]) = v[n]
  <2>1. a + n - 1 \in a .. a + W - 1 /\ (a + n - 1) - a + 1 = n
    BY <1>0
  <2>2. new[a + n - 1] = v[n]
    BY <1>1, <1>3, <2>1
  <2>3. QED
    BY <1>2, <1>4, <2>2
<1>7. ASSUME NEW x \in Places, \A n \in 1 .. W : DstBytes(c, k)[n] # x
      PROVE  ValueOf(s2, x) = ValueOf(s, x)
  <2>1. CASE \E b \in DOMAIN InitialMemory, h \in {1, 2} : x = <<0, b, h>>
    BY <1>5, <2>1
  <2>2. CASE \E b \in DOMAIN InitialExternal : x = <<7, b, 1>>
    <3>1. PICK b \in DOMAIN mem : x = <<7, b, 1>>
      BY <2>2
    <3>2. ASSUME b \in a .. a + W - 1 PROVE FALSE
      <4>1. b - a + 1 \in 1 .. W /\ a + (b - a + 1) - 1 = b
        BY <1>0, <3>2
      <4>2. DstBytes(c, k)[b - a + 1] = <<7, b, 1>>
        BY <1>2, <4>1
      <4>3. QED
        BY <1>7, <3>1, <4>1, <4>2
    <3>3. new[b] = mem[b]
      BY <1>1, <3>1, <3>2
    <3>4. QED
      BY <1>4, <3>1, <3>3
  <2>3. QED
    BY <2>1, <2>2 DEF Places
<1>8. QED
  BY <1>6, <1>7 DEF Put, s, s2, new, a, W

-----------------------------------------------------------------------------
(***************************************************************************)
(* A burst that is written                                                 *)
(***************************************************************************)
\* f is external memory unit by unit, up to n.
BurstTo(f, unit, start, queue, n) ==
    f = [m \in 0 .. n |->
            IF m = 0 THEN external
            ELSE WriteUnit(f[m - 1], unit, start + (m - 1) * Width(unit), queue[m])]

LEMMA BurstExists ==
    ASSUME NEW unit, NEW start, NEW queue, NEW n \in Nat
    PROVE  \E f : BurstTo(f, unit, start, queue, n)
<1> DEFINE New(mem, m) == WriteUnit(mem, unit, start + (m - 1) * Width(unit), queue[m])
           Good == {k \in Nat : \E f : BurstTo(f, unit, start, queue, k)}
<1>1. 0 \in Good
  <2> DEFINE f == [m \in 0 .. 0 |-> external]
  <2>1. BurstTo(f, unit, start, queue, 0)
    BY DEF BurstTo
  <2>2. QED
    BY <2>1
<1>2. ASSUME NEW k \in Good
      PROVE  k + 1 \in Good
  <2>1. PICK f : BurstTo(f, unit, start, queue, k)
    BY <1>2
  <2> DEFINE g == [m \in 0 .. k + 1 |-> IF m = k + 1 THEN New(f[k], m) ELSE f[m]]
  <2>2. k \in Nat
    BY <1>2
  <2> HIDE DEF New
  <2>3. \A m \in 0 .. k + 1 : m # 0 => g[m - 1] = f[m - 1]
    BY <2>2
  <2>4. f = [m \in 0 .. k |-> IF m = 0 THEN external ELSE New(f[m - 1], m)]
    BY <2>1 DEF BurstTo, New
  <2>5. \A m \in 0 .. k + 1 : g[m] = IF m = 0 THEN external ELSE New(g[m - 1], m)
    BY <2>2, <2>3, <2>4
  <2>6. g = [m \in 0 .. k + 1 |-> IF m = 0 THEN external ELSE New(g[m - 1], m)]
    BY <2>5
  <2> HIDE DEF g
  <2>7. BurstTo(g, unit, start, queue, k + 1)
    BY <2>6 DEF BurstTo, New
  <2>8. QED
    BY <2>2, <2>7
<1>3. Good = Nat
  <2> HIDE DEF Good
  <2>1. Good \in SUBSET Nat
    BY DEF Good
  <2>2. QED
    BY <1>1, <1>2, <2>1, Induction
<1>4. QED
  BY <1>3

LEMMA WriteBurstIs ==
    ASSUME NEW i, NEW start, NEW queue, Len(queue) \in Nat
    PROVE  \E f : /\ BurstTo(f, ahbm[i].unit_size, start, queue, Len(queue))
                  /\ WriteBurst(i, start, queue) = f[Len(queue)]
<1>1. \E f : BurstTo(f, ahbm[i].unit_size, start, queue, Len(queue))
  BY BurstExists
<1>2. QED
  BY <1>1 DEF WriteBurst, BurstTo

\* No burst changes what external memory there is.
LEMMA BurstDomain ==
    ASSUME NEW i, ahbm[i] \in AhbmState, NEW start, NEW queue, Len(queue) \in Nat
    PROVE  DOMAIN WriteBurst(i, start, queue) = DOMAIN external
<1> DEFINE unit == ahbm[i].unit_size
           n == Len(queue)
<1>1. \A mem, a, v : DOMAIN WriteUnit(mem, unit, a, v) = DOMAIN mem
  BY DEF WriteUnit, Store, AhbmState, UnitSize
<1>2. PICK f : BurstTo(f, unit, start, queue, n) /\ WriteBurst(i, start, queue) = f[n]
  BY WriteBurstIs
<1> DEFINE Good == {k \in Nat : k <= n => DOMAIN f[k] = DOMAIN external}
<1>3. 0 \in Good
  BY <1>2 DEF BurstTo
<1>4. ASSUME NEW k \in Good
      PROVE  k + 1 \in Good
  <2>1. k \in Nat /\ (k <= n => DOMAIN f[k] = DOMAIN external)
    BY <1>4
  <2> HIDE DEF unit
  <2>2. k + 1 <= n =>
            f[k + 1] = WriteUnit(f[k], unit, start + k * Width(unit), queue[k + 1])
    BY <1>2, <2>1 DEF BurstTo
  <2>3. k + 1 <= n => DOMAIN f[k + 1] = DOMAIN f[k]
    BY <1>1, <2>2
  <2>4. QED
    BY <2>1, <2>3
<1>5. Good = Nat
  <2> HIDE DEF Good
  <2>1. Good \in SUBSET Nat
    BY DEF Good
  <2>2. QED
    BY <1>3, <1>4, <2>1, Induction
<1>6. QED
  BY <1>2, <1>5

\* A burst of elements first .. first + n - 1 puts them all.
LEMMA BurstProgress ==
    ASSUME NEW c, Copyable(c), c.dst_space = 7, NEW from, NEW first \in Nat,
           Progress(c, from, Snapshot, first), DOMAIN external = DOMAIN InitialExternal,
           NEW i, NEW start, NEW queue, Len(queue) \in Nat, Holding(c, from, queue, first),
           ASSUME NEW j \in 1 .. Len(queue)
           PROVE  /\ first + j - 1 \in Elements(c)
                  /\ Fitted(c, ahbm[i].unit_size, DstAt(c, first + j - 1))
                  /\ start + (j - 1) * Width(ahbm[i].unit_size) = DstAt(c, first + j - 1)
    PROVE  Progress(c, from, [memory |-> memory, external |-> WriteBurst(i, start, queue)],
                    first + Len(queue))
<1> DEFINE unit == ahbm[i].unit_size
           n == Len(queue)
           S(mem) == [memory |-> memory, external |-> mem]
<1>1. PICK f : BurstTo(f, unit, start, queue, n) /\ WriteBurst(i, start, queue) = f[n]
  BY WriteBurstIs
<1> DEFINE Good == {k \in Nat : k <= n => /\ DOMAIN f[k] = DOMAIN InitialExternal
                                          /\ Progress(c, from, S(f[k]), first + k)}
<1>2. 0 \in Good
  <2>1. f[0] = external
    BY <1>1 DEF BurstTo
  <2>2. S(f[0]) = Snapshot /\ first + 0 = first
    BY <2>1 DEF Snapshot
  <2>3. QED
    BY <2>1, <2>2
<1>3. ASSUME NEW k \in Good
      PROVE  k + 1 \in Good
  <2>1. k \in Nat
    BY <1>3
  <2> SUFFICES ASSUME k + 1 <= n
               PROVE  /\ DOMAIN f[k + 1] = DOMAIN InitialExternal
                      /\ Progress(c, from, S(f[k + 1]), first + (k + 1))
    BY <2>1
  <2>2. DOMAIN f[k] = DOMAIN InitialExternal /\ Progress(c, from, S(f[k]), first + k)
    BY <1>3, <2>1
  <2> DEFINE m == first + k
             v == queue[k + 1]
  <2>3. k + 1 \in 1 .. n /\ first + (k + 1) - 1 = m /\ (k + 1) - 1 = k
    BY <2>1
  <2>4. /\ m \in Elements(c) /\ Fitted(c, unit, DstAt(c, m))
        /\ start + k * Width(unit) = DstAt(c, m)
    BY <2>3
  <2>5. f[k + 1] = WriteUnit(f[k], unit, DstAt(c, m), v)
    <3>1. f[k + 1] = WriteUnit(f[k], unit, start + k * Width(unit), v)
      BY <1>1, <2>1, <2>3 DEF BurstTo
    <3>2. QED
      BY <2>4, <3>1
  <2>6. Put(c, S(f[k]), S(f[k + 1]), m, v)
    BY <2>2, <2>4, <2>5, UnitPut
  <2>7. \A l \in 1 .. ElementWidth(c) : v[l] = ValueOf(from, SrcBytes(c, m)[l])
    BY <2>3, <2>4 DEF Holding
  <2>8. Progress(c, from, S(f[k + 1]), m + 1)
    <3> HIDE DEF m, v, S
    <3>1. Progress(c, from, S(f[k]), m)
      BY <2>2 DEF m
    <3>2. QED
      BY <2>4, <2>6, <2>7, <3>1, OneMore
  <2>9. m + 1 = first + (k + 1)
    BY <2>1
  <2>10. DOMAIN f[k + 1] = DOMAIN f[k]
    <3>1. c \in ChannelState
      BY DEF Copyable
    <3>2. QED
      BY <2>4, <2>5, <3>1, UnitWritten
  <2>11. QED
    BY <2>2, <2>8, <2>9, <2>10
<1>4. Good = Nat
  <2> HIDE DEF Good
  <2>1. Good \in SUBSET Nat
    BY DEF Good
  <2>2. QED
    BY <1>2, <1>3, <2>1, Induction
<1>5. Progress(c, from, S(f[n]), first + n)
  <2>1. n \in Good
    <3> HIDE DEF Good
    <3>1. QED
      BY <1>4
  <2>2. n <= n
    OBVIOUS
  <2>3. QED
    BY <2>1, <2>2
<1>6. QED
  BY <1>1, <1>5

-----------------------------------------------------------------------------
(***************************************************************************)
(* A plain transfer                                                        *)
(***************************************************************************)
LEMMA Positions ==
    ASSUME NEW c \in ChannelState, NEW k \in Elements(c)
    PROVE  SrcAt(c, k) \in Int /\ DstAt(c, k) \in Int
<1>1. /\ c.src_step0 \in Nat /\ c.src_step1 \in Nat /\ c.src_step2 \in Nat
      /\ c.dst_step0 \in Nat /\ c.dst_step1 \in Nat /\ c.dst_step2 \in Nat
      /\ c.addr_src \in Nat /\ c.addr_dst \in Nat
  BY DEF ChannelState, Register
<1>2. k \in Nat
  BY ElementsFinite
<1> DEFINE rows == k \div Size0(c)
           planes == k \div (Size0(c) * Size1(c))
<1>3. rows \in Int /\ planes \in Int
  <2>1. Size0(c) \in Nat \ {0} /\ Size1(c) \in Nat \ {0}
    BY Sizes
  <2>2. Size0(c) * Size1(c) \in Nat \ {0}
    BY <2>1
  <2>3. QED
    BY <1>2, <2>1, <2>2
<1>4. \A a, x, y, z : At(a, x, y, z, c, k) = a + (k - rows) * x + (rows - planes) * y + planes * z
  BY DEF At
<1> HIDE DEF rows, planes
<1>5. \A a, x, y, z \in Nat : At(a, x, y, z, c, k) \in Int
  <2> SUFFICES ASSUME NEW a \in Nat, NEW x \in Nat, NEW y \in Nat, NEW z \in Nat
               PROVE  At(a, x, y, z, c, k) \in Int
    OBVIOUS
  <2>1. (k - rows) * x \in Int /\ (rows - planes) * y \in Int /\ planes * z \in Int
    BY <1>2, <1>3
  <2>2. QED
    BY <1>4, <2>1
<1>6. QED
  BY <1>1, <1>5 DEF SrcAt, DstAt

\* The n addresses g, in bursts of addresses w apart.
Spaced(g, n, size, w) ==
    \A k \in 0 .. n - 1 : g[k] \in Int /\ (k % size # 0 => g[k] = g[k - 1] + w)

\* The elements of one burst follow one another.
LEMMA Consecutive ==
    ASSUME NEW n \in Nat, NEW size \in BurstSize, NEW w \in Nat, NEW g, Spaced(g, n, size, w),
           NEW first \in Nat, first % size = 0
    PROVE  \A j \in Nat : j < size /\ first + j < n => g[first + j] = g[first] + j * w
<1> DEFINE Good == {j \in Nat : j < size /\ first + j < n => g[first + j] = g[first] + j * w}
<1>1. 0 \in Good
  <2>1. first < n => g[first] \in Int /\ 0 * w = 0
    BY DEF Spaced
  <2>2. QED
    BY <2>1
<1>2. ASSUME NEW j \in Good
      PROVE  j + 1 \in Good
  <2>1. j \in Nat
    BY <1>2
  <2> SUFFICES ASSUME j + 1 < size, first + (j + 1) < n
               PROVE  g[first + (j + 1)] = g[first] + (j + 1) * w
    BY <2>1
  <2>2. size \in {1, 4, 8}
    BY DEF BurstSize
  <2>3. g[first + j] = g[first] + j * w
    BY <1>2, <2>1, <2>2
  <2>4. (first + (j + 1)) % size # 0
    <3>1. CASE size = 1
      BY <2>1, <3>1
    <3>2. CASE size = 4
      BY <2>1, <3>2
    <3>3. CASE size = 8
      BY <2>1, <3>3
    <3>4. QED
      BY <2>2, <3>1, <3>2, <3>3
  <2>5. first + (j + 1) \in 0 .. n - 1 /\ first + (j + 1) - 1 = first + j /\ first \in 0 .. n - 1
    BY <2>1
  <2>6. g[first + (j + 1)] = g[first + j] + w
    BY <2>4, <2>5 DEF Spaced
  <2>7. (j + 1) * w = j * w + w /\ j * w \in Int /\ g[first] \in Int
    BY <2>1, <2>5 DEF Spaced
  <2>8. QED
    BY <2>3, <2>6, <2>7
<1>3. Good = Nat
  <2> HIDE DEF Good
  <2>1. Good \in SUBSET Nat
    BY DEF Good
  <2>2. QED
    BY <1>1, <1>2, <2>1, Induction
<1>4. QED
  BY <1>3

\* What Plain says, for the proofs.
LEMMA PlainSource ==
    ASSUME NEW c \in ChannelState, NEW bridge \in AhbmState, Plain(c, bridge), c.src_space = 7
    PROVE  /\ c.dst_space = 0
           /\ \A k \in Elements(c) : Fitted(c, bridge.unit_size, SrcAt(c, k))
           /\ \A k \in Elements(c), j \in Nat :
                k % bridge.burst_size = 0 /\ j < bridge.burst_size /\ k + j \in Elements(c) =>
                    SrcAt(c, k + j) = SrcAt(c, k) + j * ElementWidth(c)
<1> DEFINE n == Cardinality(Elements(c))
           g == [k \in Elements(c) |-> SrcAt(c, k)]
<1>1. c.dst_space = 0
  BY DEF Plain
<1>2. /\ Width(bridge.unit_size) = ElementWidth(c)
      /\ \A k \in Elements(c) :
            /\ SrcAt(c, k) % ElementWidth(c) = 0
            /\ k % bridge.burst_size # 0 => SrcAt(c, k) = SrcAt(c, k - 1) + ElementWidth(c)
  BY DEF Plain, InBursts
<1>3. \A k \in Elements(c) : Fitted(c, bridge.unit_size, SrcAt(c, k))
  BY <1>2, Positions DEF Fitted, AhbmState
<1>4. bridge.burst_size \in BurstSize /\ n \in Nat /\ Elements(c) = 0 .. n - 1
      /\ ElementWidth(c) \in Nat
  BY ElementsFinite, Widths DEF AhbmState
<1> HIDE DEF n
<1>5. \A k \in 0 .. n - 1 : g[k] \in Int
  BY <1>4, Positions
<1>6. \A k \in 0 .. n - 1 : k % bridge.burst_size # 0 => g[k] = g[k - 1] + ElementWidth(c)
  <2> SUFFICES ASSUME NEW k \in 0 .. n - 1, k % bridge.burst_size # 0
               PROVE  g[k] = g[k - 1] + ElementWidth(c)
    OBVIOUS
  <2>1. k # 0
    BY <1>4 DEF BurstSize
  <2>2. k - 1 \in 0 .. n - 1
    BY <1>4, <2>1
  <2>3. QED
    BY <1>2, <1>4, <2>2
<1>7. ASSUME NEW k \in Elements(c), NEW j \in Nat, k % bridge.burst_size = 0,
             j < bridge.burst_size, k + j \in Elements(c)
      PROVE  SrcAt(c, k + j) = SrcAt(c, k) + j * ElementWidth(c)
  <2>1. k \in Nat /\ k + j < n
    BY <1>4, <1>7
  <2> HIDE DEF g
  <2>2. \A i \in Nat : i < bridge.burst_size /\ k + i < n =>
            g[k + i] = g[k] + i * ElementWidth(c)
    <3> DEFINE size == bridge.burst_size
               w == ElementWidth(c)
    <3>1. /\ n \in Nat /\ size \in BurstSize /\ w \in Nat /\ k \in Nat /\ k % size = 0
          /\ Spaced(g, n, size, w)
      BY <1>4, <1>5, <1>6, <1>7, <2>1 DEF Spaced
    <3> HIDE DEF size, w
    <3>2. \A i \in Nat : i < size /\ k + i < n => g[k + i] = g[k] + i * w
      BY <3>1, Consecutive
    <3>3. QED
      BY <3>2 DEF size, w
  <2>3. g[k + j] = g[k] + j * ElementWidth(c)
    BY <1>7, <2>1, <2>2
  <2>4. QED
    BY <1>7, <2>3 DEF g
<1>8. QED
  BY <1>1, <1>3, <1>7

LEMMA PlainDestination ==
    ASSUME NEW c \in ChannelState, NEW bridge \in AhbmState, Plain(c, bridge), c.dst_space = 7
    PROVE  /\ c.src_space = 0
           /\ \A k \in Elements(c) : Fitted(c, bridge.unit_size, DstAt(c, k))
           /\ \A k \in Elements(c), j \in Nat :
                k % bridge.burst_size = 0 /\ j < bridge.burst_size /\ k + j \in Elements(c) =>
                    DstAt(c, k + j) = DstAt(c, k) + j * ElementWidth(c)
<1> DEFINE n == Cardinality(Elements(c))
           g == [k \in Elements(c) |-> DstAt(c, k)]
<1>1. c.src_space = 0
  BY DEF Plain
<1>2. /\ Width(bridge.unit_size) = ElementWidth(c)
      /\ \A k \in Elements(c) :
            /\ DstAt(c, k) % ElementWidth(c) = 0
            /\ k % bridge.burst_size # 0 => DstAt(c, k) = DstAt(c, k - 1) + ElementWidth(c)
  BY DEF Plain, InBursts
<1>3. \A k \in Elements(c) : Fitted(c, bridge.unit_size, DstAt(c, k))
  BY <1>2, Positions DEF Fitted, AhbmState
<1>4. bridge.burst_size \in BurstSize /\ n \in Nat /\ Elements(c) = 0 .. n - 1
      /\ ElementWidth(c) \in Nat
  BY ElementsFinite, Widths DEF AhbmState
<1> HIDE DEF n
<1>5. \A k \in 0 .. n - 1 : g[k] \in Int
  BY <1>4, Positions
<1>6. \A k \in 0 .. n - 1 : k % bridge.burst_size # 0 => g[k] = g[k - 1] + ElementWidth(c)
  <2> SUFFICES ASSUME NEW k \in 0 .. n - 1, k % bridge.burst_size # 0
               PROVE  g[k] = g[k - 1] + ElementWidth(c)
    OBVIOUS
  <2>1. k # 0
    BY <1>4 DEF BurstSize
  <2>2. k - 1 \in 0 .. n - 1
    BY <1>4, <2>1
  <2>3. QED
    BY <1>2, <1>4, <2>2
<1>7. ASSUME NEW k \in Elements(c), NEW j \in Nat, k % bridge.burst_size = 0,
             j < bridge.burst_size, k + j \in Elements(c)
      PROVE  DstAt(c, k + j) = DstAt(c, k) + j * ElementWidth(c)
  <2>1. k \in Nat /\ k + j < n
    BY <1>4, <1>7
  <2> HIDE DEF g
  <2>2. \A i \in Nat : i < bridge.burst_size /\ k + i < n =>
            g[k + i] = g[k] + i * ElementWidth(c)
    <3> DEFINE size == bridge.burst_size
               w == ElementWidth(c)
    <3>1. /\ n \in Nat /\ size \in BurstSize /\ w \in Nat /\ k \in Nat /\ k % size = 0
          /\ Spaced(g, n, size, w)
      BY <1>4, <1>5, <1>6, <1>7, <2>1 DEF Spaced
    <3> HIDE DEF size, w
    <3>2. \A i \in Nat : i < size /\ k + i < n => g[k + i] = g[k] + i * w
      BY <3>1, Consecutive
    <3>3. QED
      BY <3>2 DEF size, w
  <2>3. g[k + j] = g[k] + j * ElementWidth(c)
    BY <1>7, <2>1, <2>2
  <2>4. QED
    BY <1>7, <2>3 DEF g
<1>8. QED
  BY <1>1, <1>3, <1>7

-----------------------------------------------------------------------------
(***************************************************************************)
(* What is planned                                                         *)
(***************************************************************************)
\* Registers that all hold what the plan wants are the plan's.
LEMMA AsPlanned ==
    ASSUME Types, Planned, StartTransfer
    PROVE  Backed(Config)
<1>1. active_channel = plan.channel /\ plan \in Plans
  BY DEF StartTransfer, Planned, Types, FirmwareTypes
<1>2. Config \in [Register -> Nat] /\ plan.dma \in [Register -> Nat]
  BY <1>1, TransferAssumption DEF Types, EngineTypes, ChannelState, Config
<1>3. \A r \in Register : Config[r] = plan.dma[r]
  BY <1>1 DEF StartTransfer, DmaToWrite, Config
<1>4. Config = plan.dma
  BY <1>2, <1>3
<1>5. QED
  BY <1>1, <1>4, BackedAssumption

\* Neither a burst nor an element changes what memory there is.
LEMMA WrittenDomain ==
    ASSUME BridgeTypes, NEW i \in AhbmChannel, NEW found, IsQueue(found), NEW address, NEW v,
           WriteInternal(i, found, address, v)
    PROVE  DOMAIN external' = DOMAIN external
<1>1. ahbm[i] \in AhbmState
  BY DEF BridgeTypes
<1>2. Len(Append(found, v)) \in Nat
  BY QueueSteps
<1>3. \A start : DOMAIN WriteBurst(i, start, Append(found, v)) = DOMAIN external
  BY <1>1, <1>2, BurstDomain
<1>4. QED
  BY <1>3 DEF WriteInternal

LEMMA SentDomain ==
    ASSUME BridgeTypes, NEW t \in TransferState, NEW c, NEW v, SendElement(t, c, v)
    PROVE  DOMAIN external' = DOMAIN external
<1>1. t.ahbm_channel \in AhbmChannel
  BY DEF TransferState
<1>2. IsQueue(QueueFound(t, c))
  BY <1>1, ReadTypes DEF QueueFound, BridgeTypes
<1>3. CASE c.dst_space = 7
  BY <1>1, <1>2, <1>3, WrittenDomain DEF SendElement, Write16, Write32
<1>4. CASE c.dst_space # 7
  BY <1>4 DEF SendElement, PopRead, ahbmVars
<1>5. QED
  BY <1>3, <1>4

LEMMA StoredDomain ==
    ASSUME NEW t, NEW c, NEW v, StoreElement(t, c, v)
    PROVE  DOMAIN memory' = DOMAIN memory
<1>1. CASE c.dst_space # 0
  BY <1>1 DEF StoreElement
<1>2. CASE c.dst_space = 0
  BY <1>2 DEF StoreElement
<1>3. QED
  BY <1>1, <1>2

LEMMA NextPlanned == ASSUME Types, Planned, [TransferNext]_transferVars PROVE Planned'
<1> USE DEF Planned
<1>1. CASE Choose
  BY <1>1 DEF Choose, ActivateChannel, memoryVars, ahbmVars
<1>2. CASE WriteDma
  BY <1>2 DEF WriteDma, SetRegister, memoryVars, ahbmVars
<1>3. CASE WriteAhbm
  BY <1>3 DEF WriteAhbm, SetAhbm, memoryVars, dmaVars
<1>4. CASE StartTransfer
  <2>1. Config' = Config
    BY <1>4 DEF StartTransfer, Start, Config
  <2>2. Backed(Config')
    BY <1>4, <2>1, AsPlanned
  <2>3. QED
    BY <1>4, <2>2 DEF StartTransfer, memoryVars, ahbmVars
<1>5. CASE RunTransfer
  <2>1. /\ running \in DmaChannel /\ dma_current \in TransferState /\ BridgeTypes
        /\ phase = "running"
    BY <1>5 DEF RunTransfer, Tick, Types, EngineTypes
  <2>2. /\ DOMAIN memory' = DOMAIN memory /\ DOMAIN external' = DOMAIN external
    BY <1>5, <2>1, SentDomain, StoredDomain DEF RunTransfer, Tick
  <2>3. Config' = Config /\ phase' # "writing"
    BY <1>5 DEF RunTransfer, Tick, Config
  <2>4. Backed(Config')
    BY <2>1, <2>3
  <2>5. QED
    BY <2>2, <2>3, <2>4
<1>6. CASE Interrupt
  BY <1>6 DEF Interrupt, memoryVars, ahbmVars
<1>7. CASE HostRead16
  BY <1>7 DEF HostRead16, Operation, PopRead, memoryVars
<1>8. CASE HostWrite16
  <2>1. DOMAIN external' = DOMAIN external
    BY <1>8, WrittenDomain, TransferAssumption DEF HostWrite16, Write16, Types, BridgeTypes
  <2>2. QED
    BY <1>8, <2>1 DEF HostWrite16, Operation, memoryVars
<1>9. CASE WriteMiu
  BY <1>9 DEF WriteMiu, Operation, SetMiu, ahbmVars
<1>10. CASE StoreWord
  <2>1. DOMAIN memory' = DOMAIN memory
    BY <1>10 DEF StoreWord, DataWrite, DataWriteA32
  <2>2. QED
    BY <1>10, <2>1 DEF StoreWord, Operation, ahbmVars
<1>11. CASE ResetAll
  BY <1>11 DEF ResetAll, Operation, ResetMemory, ResetAhbm
<1>12. CASE UNCHANGED transferVars
  <2>1. Config' = Config
    BY <1>12 DEF transferVars, dmaVars, Config
  <2>2. QED
    BY <1>12, <2>1 DEF transferVars, memoryVars, ahbmVars, dmaVars
<1>13. QED
  BY <1>1, <1>2, <1>3, <1>4, <1>5, <1>6, <1>7, <1>8, <1>9, <1>10, <1>11, <1>12
  DEF TransferNext

-----------------------------------------------------------------------------
(***************************************************************************)
(* The copy, step by step                                                  *)
(***************************************************************************)
\* At the start nothing is done: the queue is empty and the memories are before.
LEMMA StartMoved == ASSUME Types, StartTransfer PROVE Moved'
<1> DEFINE c == Config
           i == GetChannelForDma(active_channel)
           t == dma_current'
<1>1. c \in ChannelState
  BY DEF Types, EngineTypes, Config
<1>2. /\ Config' = c /\ GetChannelForDma(active_channel)' = i
      /\ burst_queue' = burst_queue /\ before' = Snapshot /\ Snapshot' = Snapshot
      /\ (clean' => burst_queue[i] = <<>>)
  <2>1. /\ channels' = channels /\ active_channel' = active_channel /\ ahbm' = ahbm
        /\ burst_queue' = burst_queue /\ memory' = memory /\ external' = external
        /\ clean' = (burst_queue[i] = <<>>) /\ before' = Snapshot
    BY DEF StartTransfer, Start, memoryVars, ahbmVars
  <2>2. Config' = c /\ GetChannelForDma(active_channel)' = i /\ Snapshot' = Snapshot
    BY <2>1 DEF Config, GetChannelForDma, Snapshot
  <2>3. clean' => burst_queue[i] = <<>>
    BY <2>1
  <2>4. QED
    BY <2>1, <2>2, <2>3
<1>3. t.counter0 = 0 /\ t.counter1 = 0 /\ t.counter2 = 0
  BY DEF StartTransfer, Start, NoTransfer
<1>4. Done(t, c) = 0
  <2>1. 0 \div Counted(c) = 0
    BY <1>1, Sizes
  <2>2. QED
    BY <1>1, <1>3, <2>1, Sizes DEF Rows, Done
<1>5. Done(dma_current, Config)' = 0
  <2>1. Done(dma_current, Config)' = Done(t, c)
    BY <1>2 DEF Done, Rows
  <2>2. QED
    BY <1>4, <2>1
<1> HIDE DEF c, i, t
<1>6. clean' => Arrived(c, <<>>, 0) = 0 /\ Holding(c, before', <<>>, 0)
  <2>1. Len(<<>>) = 0
    BY EmptyQueue
  <2>2. Arrived(c, <<>>, 0) = 0
    <3>1. \A queue : Len(queue) = 0 => Arrived(c, queue, 0) = 0
      BY DEF Arrived
    <3>2. QED
      BY <2>1, <3>1
  <2>3. Holding(c, before', <<>>, 0)
    BY <2>1 DEF Holding
  <2>4. QED
    BY <2>2, <2>3
<1>7. Progress(c, before', Snapshot', 0)
  BY <1>1, <1>2, NoProgress
<1>8. clean' => \A start : MovedTo(c, before', Snapshot', <<>>, start, 0)
  BY <1>6, <1>7 DEF MovedTo
<1>9. QED
  BY <1>2, <1>5, <1>8 DEF Moved

\* From memory to memory: an element arrives as it is read.
LEMMA MemoryToMemory ==
    ASSUME NEW c, Copyable(c), c.src_space = 0, c.dst_space = 0, NEW k \in Elements(c),
           NEW t, t.src = SrcAt(c, k), t.src \in Nat, t.dst = DstAt(c, k), t.dst \in Nat,
           StoreElement(t, c, Element(t, c)), external' = external,
           DOMAIN memory = DOMAIN InitialMemory,
           NEW from, NEW queue, NEW start, MovedTo(c, from, Snapshot, queue, start, k),
           NEW queue2, NEW start2
    PROVE  MovedTo(c, from, Snapshot', queue2, start2, k + 1)
<1> DEFINE v == Element(t, c)
           s2 == [memory |-> memory', external |-> external]
<1>1. c \in ChannelState
  BY DEF Copyable
<1>2. Progress(c, from, Snapshot, k)
  BY DEF MovedTo, Arrived
<1>3. \A n \in 1 .. ElementWidth(c) : v[n] = ValueOf(from, SrcBytes(c, k)[n])
  <2> SUFFICES ASSUME NEW n \in 1 .. ElementWidth(c)
               PROVE  v[n] = ValueOf(from, SrcBytes(c, k)[n])
    OBVIOUS
  <2>1. v[n] = ValueOf(Snapshot, SrcBytes(c, k)[n])
    BY <1>1, ElementRead
  <2>2. QED
    BY <1>2, <2>1, Unread
<1> HIDE DEF v
<1>4. Put(c, Snapshot, s2, k, v)
  <2>1. StoreElement(t, c, v)
    BY DEF v
  <2>2. Put(c, [memory |-> memory, external |-> external], s2, k, v)
    BY <2>1, ElementStored
  <2>3. QED
    BY <2>2 DEF Snapshot
<1>5. Progress(c, from, s2, k + 1)
  <2> HIDE DEF s2
  <2>1. QED
    BY <1>2, <1>3, <1>4, OneMore
<1>6. Snapshot' = s2
  BY DEF Snapshot
<1>7. ~UsesBridge(c)
  BY DEF UsesBridge
<1>8. QED
  BY <1>5, <1>6, <1>7 DEF MovedTo, Arrived

\* What a queue holds after a unit went in or out, unit by unit.
LEMMA QueueItems ==
    ASSUME NEW q, IsQueue(q)
    PROVE  /\ q # <<>> => /\ Head(q) = q[1] /\ Len(q) \in Nat \ {0}
                          /\ \A j \in 1 .. Len(q) - 1 : Tail(q)[j] = q[j + 1]
           /\ \A v : /\ \A j \in 1 .. Len(q) : Append(q, v)[j] = q[j]
                     /\ Append(q, v)[Len(q) + 1] = v
<1> DEFINE S == {q[n] : n \in DOMAIN q}
<1>1. q \in Seq(S)
  BY DEF IsQueue
<1> HIDE DEF S
<1>2. Len(q) \in Nat /\ (q = <<>> <=> Len(q) = 0)
  BY <1>1
<1>3. ASSUME q # <<>>
      PROVE  Head(q) = q[1] /\ \A j \in 1 .. Len(q) - 1 : Tail(q)[j] = q[j + 1]
  BY <1>1, <1>2, <1>3
<1>4. ASSUME NEW v
      PROVE  /\ \A j \in 1 .. Len(q) : Append(q, v)[j] = q[j]
             /\ Append(q, v)[Len(q) + 1] = v
  <2>1. q \in Seq(S \cup {v})
    BY <1>1
  <2>2. QED
    BY <1>2, <2>1
<1>5. QED
  BY <1>2, <1>3, <1>4

\* The queue a read takes the front of holds the elements from the one to be read on.
LEMMA FilledHolding ==
    ASSUME NEW c, Copyable(c), c.src_space = 7, NEW k \in Elements(c),
           NEW i \in AhbmChannel, ahbm[i] \in AhbmState, Plain(c, ahbm[i]),
           burst_queue[i] = <<>> => k % ahbm[i].burst_size = 0,
           NEW from, Progress(c, from, Snapshot, k), Holding(c, from, burst_queue[i], k)
    PROVE  Holding(c, from, Filled(i, SrcAt(c, k)), k)
<1>1. CASE burst_queue[i] # <<>>
  BY <1>1 DEF Filled
<1>2. CASE burst_queue[i] = <<>>
  <2> DEFINE burst == ReadBurst(i, SrcAt(c, k))
             unit == ahbm[i].unit_size
             size == ahbm[i].burst_size
  <2>1. Filled(i, SrcAt(c, k)) = burst
    BY <1>2 DEF Filled
  <2>2. Len(burst) = size /\ size \in Nat /\ c \in ChannelState
    BY BurstRead DEF AhbmState, BurstSize, Copyable
  <2>3. ASSUME NEW j \in 1 .. size, NEW n \in 1 .. ElementWidth(c), k + j - 1 \in Elements(c)
        PROVE  burst[j][n] = ValueOf(from, SrcBytes(c, k + j - 1)[n])
    <3> DEFINE m == k + j - 1
               a == SrcAt(c, m)
    <3>1. k \in Nat /\ j - 1 \in Nat /\ j - 1 < size /\ m = k + (j - 1)
      BY <2>2, ElementsFinite
    <3>2. Fitted(c, unit, a)
      BY <2>2, <2>3, PlainSource
    <3>3. SrcAt(c, k + (j - 1)) = SrcAt(c, k) + (j - 1) * ElementWidth(c)
      BY <1>2, <2>2, <2>3, <3>1, PlainSource
    <3>4. a = SrcAt(c, k) + (j - 1) * Width(unit)
      BY <3>1, <3>2, <3>3 DEF Fitted
    <3>5. burst[j] = ReadUnit(unit, a)
      BY <2>2, <3>4 DEF ReadBurst
    <3>6. burst[j][n] = external[a + n - 1]
      BY <2>2, <3>2, <3>5, UnitRead
    <3>7. SrcBytes(c, m)[n] = <<7, a + n - 1, 1>>
      BY <2>2, <3>2, BridgeBytes DEF SrcBytes
    <3>8. ValueOf(Snapshot, SrcBytes(c, m)[n]) = external[a + n - 1]
      BY <3>7 DEF ValueOf, Snapshot
    <3>9. ValueOf(Snapshot, SrcBytes(c, m)[n]) = ValueOf(from, SrcBytes(c, m)[n])
      BY <2>3, Unread
    <3>10. QED
      BY <3>6, <3>8, <3>9
  <2> HIDE DEF burst
  <2>4. Holding(c, from, burst, k)
    BY <2>2, <2>3 DEF Holding
  <2>5. QED
    BY <2>1, <2>4
<1>3. QED
  BY <1>1, <1>2

\* What Tick takes from the bridge are the bytes of the front of the queue.
LEMMA FrontRead ==
    ASSUME NEW c \in ChannelState, c.src_space = 7, NEW t, t.src \in Int,
           t.src % ElementWidth(c) = 0, NEW n \in 1 .. ElementWidth(c)
    PROVE  Element(t, c)[n] = Head(Filled(t.ahbm_channel, t.src))[n]
<1> DEFINE h == Head(Filled(t.ahbm_channel, t.src))
<1>1. CASE c.dword_mode = 1
  BY <1>1 DEF Element, Read32
<1>2. CASE c.dword_mode # 1
  <2>1. ElementWidth(c) = 2 /\ t.src % 2 = 0 /\ n \in {1, 2}
    BY <1>2, Widths
  <2>2. Element(t, c) = <<h[1], h[2], ZeroByte, ZeroByte>>
    BY <1>2, <2>1 DEF Element, Read16, Read32, LowHalf, Bytes
  <2> HIDE DEF h
  <2>3. Element(t, c)[1] = h[1] /\ Element(t, c)[2] = h[2]
    BY <2>2
  <2>4. QED
    BY <2>1, <2>3 DEF h
<1>3. QED
  BY <1>1, <1>2

\* From the bridge to memory: an element arrives, and the queue moves on.
LEMMA BridgeToMemory ==
    ASSUME NEW c, Copyable(c), c.src_space = 7, c.dst_space = 0, NEW k \in Elements(c),
           NEW t, t.src = SrcAt(c, k), t.src \in Nat, t.dst = DstAt(c, k), t.dst \in Nat,
           StoreElement(t, c, Element(t, c)), external' = external,
           DOMAIN memory = DOMAIN InitialMemory,
           t.ahbm_channel \in AhbmChannel, ahbm[t.ahbm_channel] \in AhbmState,
           Plain(c, ahbm[t.ahbm_channel]),
           IsQueue(burst_queue[t.ahbm_channel]),
           burst_queue[t.ahbm_channel] = <<>> => k % ahbm[t.ahbm_channel].burst_size = 0,
           NEW from, NEW start,
           MovedTo(c, from, Snapshot, burst_queue[t.ahbm_channel], start, k),
           NEW start2
    PROVE  MovedTo(c, from, Snapshot', Popped(t.ahbm_channel, t.src), start2, k + 1)
<1> DEFINE i == t.ahbm_channel
           queue == Filled(i, t.src)
           v == Element(t, c)
           s2 == [memory |-> memory', external |-> external]
<1>1. c \in ChannelState /\ k \in Nat
  BY ElementsFinite DEF Copyable
<1>2. Progress(c, from, Snapshot, k) /\ Holding(c, from, burst_queue[i], k)
  BY DEF MovedTo, Arrived, UsesBridge
<1>3. Holding(c, from, queue, k)
  BY <1>2, FilledHolding
<1>4. IsQueue(queue) /\ queue # <<>>
  <2>1. ahbm[i].burst_size \in Nat \ {0}
    BY DEF AhbmState, BurstSize
  <2>2. CASE burst_queue[i] = <<>>
    <3>1. IsQueue(ReadBurst(i, t.src)) /\ Len(ReadBurst(i, t.src)) = ahbm[i].burst_size
      BY BurstRead
    <3>2. ReadBurst(i, t.src) # <<>>
      BY <2>1, <3>1, EmptyQueue
    <3>3. QED
      BY <2>2, <3>1, <3>2 DEF Filled
  <2>3. CASE burst_queue[i] # <<>>
    BY <2>3 DEF Filled
  <2>4. QED
    BY <2>2, <2>3
<1>5. Popped(i, t.src) = Tail(queue)
  BY DEF Popped
<1> HIDE DEF queue
<1>6. /\ Head(queue) = queue[1] /\ Len(queue) \in Nat \ {0}
      /\ Len(Tail(queue)) = Len(queue) - 1
      /\ \A j \in 1 .. Len(queue) - 1 : Tail(queue)[j] = queue[j + 1]
  BY <1>4, QueueItems, QueueSteps
<1>7. \A n \in 1 .. ElementWidth(c) : v[n] = ValueOf(from, SrcBytes(c, k)[n])
  <2> SUFFICES ASSUME NEW n \in 1 .. ElementWidth(c)
               PROVE  v[n] = ValueOf(from, SrcBytes(c, k)[n])
    OBVIOUS
  <2>1. t.src % ElementWidth(c) = 0
    BY <1>1, PlainSource DEF Fitted
  <2>2. v[n] = queue[1][n]
    BY <1>1, <1>6, <2>1, FrontRead DEF queue
  <2>3. 1 \in 1 .. Len(queue) /\ k + 1 - 1 = k
    BY <1>1, <1>6
  <2>4. queue[1][n] = ValueOf(from, SrcBytes(c, k)[n])
    BY <1>3, <2>3 DEF Holding
  <2>5. QED
    BY <2>2, <2>4
<1>8. Holding(c, from, Tail(queue), k + 1)
  <2> SUFFICES ASSUME NEW j \in 1 .. Len(Tail(queue)), NEW n \in 1 .. ElementWidth(c),
                      k + 1 + j - 1 \in Elements(c)
               PROVE  Tail(queue)[j][n] = ValueOf(from, SrcBytes(c, k + 1 + j - 1)[n])
    BY DEF Holding
  <2>1. /\ j + 1 \in 1 .. Len(queue) /\ j \in 1 .. Len(queue) - 1
        /\ k + (j + 1) - 1 = k + 1 + j - 1
    BY <1>1, <1>6
  <2>2. queue[j + 1][n] = ValueOf(from, SrcBytes(c, k + (j + 1) - 1)[n])
    BY <1>3, <2>1 DEF Holding
  <2>3. QED
    BY <1>6, <2>1, <2>2
<1> HIDE DEF v
<1>9. Put(c, Snapshot, s2, k, v)
  <2>1. StoreElement(t, c, v)
    BY DEF v
  <2>2. Put(c, [memory |-> memory, external |-> external], s2, k, v)
    BY <2>1, ElementStored
  <2>3. QED
    BY <2>2 DEF Snapshot
<1>10. Progress(c, from, s2, k + 1)
  <2> HIDE DEF s2
  <2>1. QED
    BY <1>2, <1>7, <1>9, OneMore
<1>11. Snapshot' = s2
  BY DEF Snapshot
<1>12. QED
  BY <1>5, <1>8, <1>10, <1>11 DEF MovedTo, Arrived

\* What the bridge is sent are the bytes of the element.
LEMMA BytesSent ==
    ASSUME NEW c \in ChannelState, c.dst_space = 7, NEW t, t.dst \in Int,
           t.dst % ElementWidth(c) = 0, NEW v, SendElement(t, c, v)
    PROVE  \E w : /\ WriteInternal(t.ahbm_channel, QueueFound(t, c), t.dst, w)
                  /\ \A n \in 1 .. ElementWidth(c) : w[n] = v[n]
<1>1. CASE c.dword_mode = 1
  <2>1. t.dst % 2 # 1
    BY <1>1, Widths
  <2>2. WriteInternal(t.ahbm_channel, QueueFound(t, c), t.dst, v)
    BY <1>1, <2>1 DEF SendElement, Write32
  <2>3. QED
    BY <2>2
<1>2. CASE c.dword_mode # 1
  <2> DEFINE w == LowHalf(v)
  <2>1. WriteInternal(t.ahbm_channel, QueueFound(t, c), t.dst, w)
    BY <1>2 DEF SendElement, Write16
  <2>2. ElementWidth(c) = 2
    BY <1>2, Widths
  <2>3. w[1] = v[1] /\ w[2] = v[2]
    BY DEF LowHalf, Bytes
  <2> HIDE DEF w
  <2>4. \A n \in 1 .. ElementWidth(c) : w[n] = v[n]
    BY <2>2, <2>3
  <2>5. QED
    BY <2>1, <2>4
<1>3. QED
  BY <1>1, <1>2

\* The queue with one more element holds it too.
LEMMA HoldingMore ==
    ASSUME NEW c, NEW from, NEW queue, IsQueue(queue), NEW first \in Int,
           Holding(c, from, queue, first), NEW w,
           \A n \in 1 .. ElementWidth(c) :
                w[n] = ValueOf(from, SrcBytes(c, first + Len(queue))[n])
    PROVE  Holding(c, from, Append(queue, w), first)
<1> DEFINE more == Append(queue, w)
<1>1. /\ Len(queue) \in Nat /\ Len(more) = Len(queue) + 1
      /\ \A j \in 1 .. Len(queue) : more[j] = queue[j]
      /\ more[Len(queue) + 1] = w
  BY QueueItems, QueueSteps
<1> HIDE DEF more
<1> SUFFICES ASSUME NEW j \in 1 .. Len(more), NEW n \in 1 .. ElementWidth(c),
                    first + j - 1 \in Elements(c)
             PROVE  more[j][n] = ValueOf(from, SrcBytes(c, first + j - 1)[n])
  BY DEF Holding, more
<1>2. CASE j \in 1 .. Len(queue)
  BY <1>1, <1>2 DEF Holding
<1>3. CASE j = Len(queue) + 1
  <2>1. first + j - 1 = first + Len(queue)
    BY <1>1, <1>3
  <2>2. QED
    BY <1>1, <1>3, <2>1
<1>4. QED
  BY <1>1, <1>2, <1>3

\* The elements of a burst that are not in its queue make whole bursts.
LEMMA BurstBegins ==
    ASSUME NEW k \in Nat, NEW size \in {1, 4, 8}, NEW q, k % size = q
    PROVE  k - q \in Nat /\ (k - q) % size = 0 /\ k - q <= k /\ (k - q) + q = k
<1>1. CASE size = 1
  BY <1>1
<1>2. CASE size = 4
  BY <1>2
<1>3. CASE size = 8
  BY <1>3
<1>4. QED
  BY <1>1, <1>2, <1>3

\* From memory to the bridge: an element goes into the queue, and with the last of a
\* burst the whole burst arrives.
LEMMA MemoryToBridge ==
    ASSUME NEW c, Copyable(c), c.src_space = 0, c.dst_space = 7, NEW k \in Elements(c),
           NEW t, t.src = SrcAt(c, k), t.src \in Nat, t.dst = DstAt(c, k), t.dst \in Nat,
           SendElement(t, c, Element(t, c)), memory' = memory,
           DOMAIN external = DOMAIN InitialExternal,
           NEW i \in AhbmChannel, t.ahbm_channel = i, ahbm[i] \in AhbmState, Plain(c, ahbm[i]),
           DOMAIN burst_queue = AhbmChannel, DOMAIN write_burst_start = AhbmChannel,
           IsQueue(burst_queue[i]),
           Len(burst_queue[i]) < ahbm[i].burst_size,
           k % ahbm[i].burst_size = Len(burst_queue[i]),
           NEW from, MovedTo(c, from, Snapshot, burst_queue[i], write_burst_start[i], k)
    PROVE  MovedTo(c, from, Snapshot', burst_queue'[i], write_burst_start'[i], k + 1)
<1> DEFINE queue == burst_queue[i]
           size == ahbm[i].burst_size
           unit == ahbm[i].unit_size
           q == Len(queue)
           first == k - q
           start == IF queue = <<>> THEN t.dst ELSE write_burst_start[i]
<1>1. /\ c \in ChannelState /\ k \in Nat /\ Elements(c) = 0 .. Cardinality(Elements(c)) - 1
      /\ Cardinality(Elements(c)) \in Nat
      /\ size \in {1, 4, 8} /\ q \in Nat /\ (queue = <<>> <=> q = 0)
  BY ElementsFinite, QueueSteps DEF Copyable, AhbmState, BurstSize
<1>2. Arrived(c, queue, k) = first
  BY DEF Arrived
<1>3. /\ Progress(c, from, Snapshot, first) /\ Holding(c, from, queue, first)
      /\ queue # <<>> => write_burst_start[i] = DstAt(c, first)
  BY <1>2 DEF MovedTo, UsesBridge
<1>4. first \in Nat /\ first % size = 0 /\ first <= k /\ first + q = k
  <2>1. q < size /\ k % size = q /\ k \in Nat /\ size \in {1, 4, 8}
    BY <1>1
  <2> HIDE DEF q, size
  <2>2. QED
    BY <2>1, BurstBegins
<1>5. first \in Elements(c)
  BY <1>1, <1>4
<1>6. start = DstAt(c, first)
  BY <1>1, <1>3
<1>7. PICK w : /\ WriteInternal(i, queue, t.dst, w)
               /\ \A n \in 1 .. ElementWidth(c) : w[n] = Element(t, c)[n]
  <2>1. t.dst % ElementWidth(c) = 0
    BY <1>1, PlainDestination DEF Fitted
  <2>2. QueueFound(t, c) = queue
    BY DEF QueueFound
  <2>3. QED
    BY <1>1, <2>1, <2>2, BytesSent
<1> DEFINE more == Append(queue, w)
<1>8. IsQueue(more) /\ Len(more) = q + 1
  BY QueueSteps
<1>9. Holding(c, from, more, first)
  <2> SUFFICES ASSUME NEW n \in 1 .. ElementWidth(c)
               PROVE  w[n] = ValueOf(from, SrcBytes(c, first + Len(queue))[n])
    BY <1>3, <1>4, HoldingMore
  <2>1. w[n] = ValueOf(Snapshot, SrcBytes(c, k)[n])
    BY <1>1, <1>7, ElementRead
  <2>2. ValueOf(Snapshot, SrcBytes(c, k)[n]) = ValueOf(from, SrcBytes(c, k)[n])
    BY <1>3, Unread
  <2>3. QED
    BY <1>4, <2>1, <2>2
<1> HIDE DEF more
<1>10. CASE ~BurstFull(i, more)
  <2>1. /\ burst_queue'[i] = more /\ external' = external /\ write_burst_start'[i] = start
    BY <1>7, <1>10 DEF WriteInternal, more
  <2>2. Arrived(c, more, k + 1) = first
    BY <1>1, <1>8 DEF Arrived
  <2>3. Snapshot' = Snapshot
    BY <2>1 DEF Snapshot
  <2> HIDE DEF first, start
  <2>4. QED
    BY <1>3, <1>6, <1>9, <2>1, <2>2, <2>3 DEF MovedTo
<1>11. CASE BurstFull(i, more)
  <2>1. burst_queue'[i] = <<>> /\ external' = WriteBurst(i, start, more)
    BY <1>7, <1>11 DEF WriteInternal, more
  <2>2. q + 1 = size
    BY <1>1, <1>8, <1>11 DEF BurstFull
  <2>3. ASSUME NEW j \in 1 .. Len(more)
        PROVE  /\ first + j - 1 \in Elements(c)
               /\ Fitted(c, unit, DstAt(c, first + j - 1))
               /\ start + (j - 1) * Width(unit) = DstAt(c, first + j - 1)
    <3>1. /\ j - 1 \in Nat /\ j - 1 < size /\ first + (j - 1) = first + j - 1
          /\ first + (j - 1) <= k
      <4> HIDE DEF q, size, first
      <4>1. j \in 1 .. q + 1
        BY <1>8
      <4>2. QED
        BY <1>1, <1>4, <2>2, <4>1
    <3>2. first + (j - 1) \in Elements(c)
      BY <1>1, <1>4, <3>1
    <3>3. Fitted(c, unit, DstAt(c, first + j - 1))
      BY <1>1, <3>1, <3>2, PlainDestination
    <3>4. DstAt(c, first + (j - 1)) = DstAt(c, first) + (j - 1) * ElementWidth(c)
      <4> HIDE DEF first
      <4>1. QED
        BY <1>1, <1>4, <1>5, <3>1, <3>2, PlainDestination
    <3>5. QED
      BY <1>6, <3>1, <3>2, <3>3, <3>4 DEF Fitted
  <2> HIDE DEF first, start
  <2>4. Progress(c, from, [memory |-> memory, external |-> WriteBurst(i, start, more)],
                 first + Len(more))
    <3>1. Len(more) \in Nat
      BY <1>1, <1>8
    <3>2. QED
      BY <1>3, <1>4, <1>9, <2>3, <3>1, BurstProgress
  <2>5. Snapshot' = [memory |-> memory, external |-> WriteBurst(i, start, more)]
    BY <2>1 DEF Snapshot
  <2>6. first + Len(more) = k + 1 /\ Len(<<>>) = 0
    BY <1>1, <1>4, <1>8, EmptyQueue
  <2>7. Arrived(c, <<>>, k + 1) = k + 1
    BY <1>1, <2>6 DEF Arrived
  <2>8. Holding(c, from, <<>>, k + 1)
    BY <2>6 DEF Holding
  <2>9. QED
    BY <2>1, <2>4, <2>5, <2>6, <2>7, <2>8 DEF MovedTo
<1>12. QED
  BY <1>10, <1>11

LEMMA PlainCopyable ==
    ASSUME NEW c \in ChannelState, NEW bridge, Plain(c, bridge), Backed(c)
    PROVE  /\ Copyable(c)
           /\ \/ c.src_space = 0 /\ c.dst_space = 0
              \/ c.src_space = 7 /\ c.dst_space = 0
              \/ c.src_space = 0 /\ c.dst_space = 7
<1>1. {c.src_space, c.dst_space} \in {{0}, {0, 7}} /\ Apart(c)
  BY DEF Plain
<1>2. \/ c.src_space = 0 /\ c.dst_space = 0
      \/ c.src_space = 7 /\ c.dst_space = 0
      \/ c.src_space = 0 /\ c.dst_space = 7
  <2>1. CASE {c.src_space, c.dst_space} = {0}
    BY <2>1
  <2>2. CASE {c.src_space, c.dst_space} = {0, 7}
    BY <2>2
  <2>3. QED
    BY <1>1, <2>1, <2>2
<1>3. QED
  BY <1>1, <1>2, ApartDistinct DEF Copyable, Spaces

\* One turn of the loop copies one element more.
LEMMA RunMoves ==
    ASSUME Types, Underway, Planned, Moved, RunTransfer, clean, Plain(Config, Bridge),
           ~NeverEnds(Config)
    PROVE  LET i == GetChannelForDma(active_channel) IN
           MovedTo(Config, before, Snapshot', burst_queue'[i], write_burst_start'[i],
                   Done(dma_current, Config) + 1)
<1> DEFINE c == Config
           i == GetChannelForDma(active_channel)
           t == dma_current
           k == Done(t, c)
<1>1. /\ i \in AhbmChannel /\ c \in ChannelState /\ t \in TransferState
      /\ t.ahbm_channel = i /\ Bridge = ahbm[i] /\ phase = "running"
      /\ running = active_channel
  BY RunFacts DEF RunTransfer, Bridge
<1>2. /\ ahbm[i] \in AhbmState /\ IsQueue(burst_queue[i])
      /\ DOMAIN burst_queue = AhbmChannel /\ DOMAIN write_burst_start = AhbmChannel
  BY <1>1 DEF Types, BridgeTypes
<1>3. /\ InArray(t, c) /\ AtElement(t, c)
      /\ OnTrack(c, ahbm[i].burst_size, Len(burst_queue[i]), k)
  BY <1>1 DEF Underway
<1>4. k \in Elements(c) /\ k \in Nat
  BY <1>1, <1>3, InElements, Numbers
<1>5. t.src = SrcAt(c, k) /\ t.dst = DstAt(c, k) /\ t.src \in Nat /\ t.dst \in Nat
  BY <1>1, <1>3 DEF AtElement, TransferState
<1>6. /\ Copyable(c) /\ Plain(c, ahbm[i])
      /\ \/ c.src_space = 0 /\ c.dst_space = 0
         \/ c.src_space = 7 /\ c.dst_space = 0
         \/ c.src_space = 0 /\ c.dst_space = 7
  BY <1>1, PlainCopyable DEF Planned
<1>7. StoreElement(t, c, Element(t, c)) /\ SendElement(t, c, Element(t, c))
  BY <1>1 DEF RunTransfer, Tick, Config
<1>8. MovedTo(c, before, Snapshot, burst_queue[i], write_burst_start[i], k)
  BY <1>1 DEF Moved
<1>9. DOMAIN memory = DOMAIN InitialMemory /\ DOMAIN external = DOMAIN InitialExternal
  BY DEF Planned
<1> HIDE DEF c, i, t, k
<1>10. CASE c.src_space = 0 /\ c.dst_space = 0
  <2>1. external' = external
    BY <1>7, <1>10 DEF SendElement, ahbmVars
  <2>2. MovedTo(c, before, Snapshot', burst_queue'[i], write_burst_start'[i], k + 1)
    BY <1>4, <1>5, <1>6, <1>7, <1>8, <1>9, <1>10, <2>1, MemoryToMemory
  <2>3. QED
    BY <2>2 DEF c, i, t, k
<1>11. CASE c.src_space = 7 /\ c.dst_space = 0
  <2>1. external' = external /\ burst_queue'[i] = Popped(i, t.src)
    BY <1>1, <1>2, <1>7, <1>11 DEF SendElement, PopRead
  <2>2. burst_queue[i] = <<>> => k % ahbm[i].burst_size = 0
    <3>1. (k + Len(burst_queue[i])) % ahbm[i].burst_size = 0
      BY <1>3, <1>11 DEF OnTrack
    <3>2. burst_queue[i] = <<>> => k + Len(burst_queue[i]) = k
      BY <1>4, EmptyQueue
    <3>3. QED
      BY <3>1, <3>2
  <2>3. MovedTo(c, before, Snapshot', Popped(i, t.src), write_burst_start'[i], k + 1)
    BY <1>1, <1>2, <1>4, <1>5, <1>6, <1>7, <1>8, <1>9, <1>11, <2>1, <2>2, BridgeToMemory
  <2>4. MovedTo(c, before, Snapshot', burst_queue'[i], write_burst_start'[i], k + 1)
    BY <2>1, <2>3
  <2>5. QED
    BY <2>4 DEF c, i, t, k
<1>12. CASE c.src_space = 0 /\ c.dst_space = 7
  <2>1. memory' = memory
    BY <1>7, <1>12 DEF StoreElement
  <2>2. /\ Len(burst_queue[i]) < ahbm[i].burst_size
        /\ k % ahbm[i].burst_size = Len(burst_queue[i])
    BY <1>3, <1>12 DEF OnTrack
  <2>3. MovedTo(c, before, Snapshot', burst_queue'[i], write_burst_start'[i], k + 1)
    BY <1>1, <1>2, <1>4, <1>5, <1>6, <1>7, <1>8, <1>9, <1>12, <2>1, <2>2, MemoryToBridge
  <2>4. QED
    BY <2>3 DEF c, i, t, k
<1>13. QED
  BY <1>6, <1>10, <1>11, <1>12

\* With the last element of a plain transfer nothing waits in the queue.
LEMMA AllArrived ==
    ASSUME Types, Underway, RunTransfer, clean, Plain(Config, Bridge), ~NeverEnds(Config),
           Last(dma_current, Config)
    PROVE  LET n == Cardinality(Elements(Config)) IN
           /\ Done(dma_current, Config) + 1 = n
           /\ Arrived(Config, burst_queue'[GetChannelForDma(active_channel)], n) = n
<1> DEFINE i == GetChannelForDma(active_channel)
           c == Config
           t == dma_current
           k == Done(t, c)
           n == Cardinality(Elements(c))
           q2 == Len(burst_queue'[i])
<1>1. phase = "running" /\ c \in ChannelState /\ t \in TransferState
  BY RunFacts DEF RunTransfer
<1>2. InArray(t, c) /\ OnTrack(c, Bridge.burst_size, Len(burst_queue[i]), k)
  BY <1>1 DEF Underway
<1>3. k \in Nat /\ k + 1 = n
  BY <1>1, <1>2, Numbers, LastElement
<1>4. CASE c.dst_space = 7
  <2>1. c.src_space # 7 /\ n % Bridge.burst_size = 0
    <3>1. {c.src_space, c.dst_space} \in {{0}, {0, 7}}
      BY DEF Plain
    <3>2. c.src_space = 0 \/ c.dst_space = 0
      BY <3>1
    <3>3. QED
      BY <1>4, <3>2 DEF Plain, WholeBursts
  <2> HIDE DEF k, n
  <2>2. OnTrack(c, Bridge.burst_size, q2, k + 1)
    BY <1>2, <1>3, RunFacts, StaysOnTrack
  <2>3. q2 = 0
    BY <1>3, <1>4, <2>1, <2>2 DEF OnTrack
  <2>4. QED
    BY <1>3, <2>3 DEF Arrived, k, n
<1>5. CASE c.dst_space # 7
  BY <1>3, <1>5 DEF Arrived
<1>6. QED
  BY <1>4, <1>5

LEMMA RunCopies ==
    ASSUME Types, Underway, Planned, Moved, RunTransfer
    PROVE  Moved' /\ CopiesArray'
<1> DEFINE i == GetChannelForDma(active_channel)
           c == Config
           t == dma_current
           k == Done(t, c)
<1>1. /\ Config' = c /\ Bridge' = Bridge /\ GetChannelForDma(active_channel)' = i
      /\ clean' = clean /\ before' = before /\ phase = "running" /\ Advance(t, c)
      /\ c \in ChannelState /\ t \in TransferState /\ running # NoChannel
  BY RunFacts DEF RunTransfer, Tick
<1>2. ASSUME phase' = "running", clean, Plain(c, Bridge), ~NeverEnds(c)
      PROVE  MovedTo(c, before, Snapshot', burst_queue'[i], write_burst_start'[i],
                     Done(dma_current', c))
  <2>1. ~Last(t, c) /\ dma_current' = Stepped(t, c)
    BY <1>1, <1>2 DEF RunTransfer, Advance
  <2>2. InArray(t, c)
    BY <1>1, <1>2 DEF Underway
  <2>3. Done(dma_current', c) = k + 1
    BY <1>1, <1>2, <2>1, <2>2, NextElement
  <2>4. QED
    BY <1>2, <2>3, RunMoves
<1>3. Moved'
  <2>1. Done(dma_current, Config)' = Done(dma_current', c)
    BY <1>1 DEF Done, Rows
  <2> HIDE DEF c, i
  <2>2. QED
    BY <1>1, <1>2, <2>1 DEF Moved
<1>4. ASSUME phase' = "done", clean, Plain(c, Bridge)
      PROVE  Progress(c, before, Snapshot', Cardinality(Elements(c)))
  <2>1. Last(t, c)
    BY <1>1, <1>4 DEF RunTransfer, Advance
  <2>2. ~NeverEnds(c)
    BY <1>1, <2>1, EvenForever DEF Underway, Last
  <2>3. MovedTo(c, before, Snapshot', burst_queue'[i], write_burst_start'[i], k + 1)
    BY <1>4, <2>2, RunMoves
  <2>4. QED
    BY <1>4, <2>1, <2>2, <2>3, AllArrived DEF MovedTo
<1>5. DOMAIN memory' = DOMAIN InitialMemory /\ DOMAIN external' = DOMAIN InitialExternal
  <2>1. Planned'
    BY NextPlanned DEF TransferNext
  <2>2. QED
    BY <2>1 DEF Planned
<1>6. Snapshot' = [memory |-> memory', external |-> external']
  BY DEF Snapshot
<1>7. CopiesArray'
  <2> SUFFICES ASSUME phase' = "done", clean, Plain(c, Bridge)
               PROVE  LET dst == UNION {BytesOf(DstBytes(c, m)) : m \in Elements(c)} IN
                      /\ \A m \in Elements(c), n \in 1 .. ElementWidth(c) :
                          ValueOf(Snapshot', DstBytes(c, m)[n]) =
                              ValueOf(before, SrcBytes(c, m)[n])
                      /\ \A a \in DOMAIN external' : <<7, a, 1>> \notin dst =>
                          external'[a] = before.external[a]
                      /\ \A a \in DOMAIN memory', b \in {1, 2} : <<0, a, b>> \notin dst =>
                          memory'[a][b] = before.memory[a][b]
    BY <1>1 DEF CopiesArray
  <2>1. Progress(c, before, [memory |-> memory', external |-> external'],
                 Cardinality(Elements(c)))
    BY <1>4, <1>6
  <2> HIDE DEF c
  <2>2. QED
    BY <1>1, <1>5, <1>6, <2>1, Copied
<1>8. QED
  BY <1>3, <1>7

LEMMA NextMoved ==
    ASSUME Types, Underway, Planned, Moved, CopiesArray, [TransferNext]_transferVars
    PROVE  Moved' /\ CopiesArray'
<1>1. CASE StartTransfer
  BY <1>1, StartMoved DEF StartTransfer, CopiesArray
<1>2. CASE RunTransfer
  BY <1>2, RunCopies
<1>3. CASE phase' \notin {"running", "done"}
  BY <1>3 DEF Moved, CopiesArray
<1>4. CASE UNCHANGED transferVars
  <2>1. /\ memory' = memory /\ external' = external /\ channels' = channels
        /\ active_channel' = active_channel /\ ahbm' = ahbm /\ dma_current' = dma_current
        /\ burst_queue' = burst_queue /\ write_burst_start' = write_burst_start
        /\ phase' = phase /\ clean' = clean /\ before' = before
    BY <1>4 DEF transferVars, memoryVars, ahbmVars, dmaVars
  <2>2. /\ Config' = Config /\ Bridge' = Bridge /\ Snapshot' = Snapshot
        /\ GetChannelForDma(active_channel)' = GetChannelForDma(active_channel)
    BY <2>1 DEF Config, Bridge, Snapshot, GetChannelForDma
  <2>3. Done(dma_current, Config)' = Done(dma_current, Config)
    BY <2>1, <2>2 DEF Done, Rows
  <2>4. Moved'
    BY <2>1, <2>2, <2>3 DEF Moved
  <2>5. CopiesArray'
    BY <2>1, <2>2 DEF CopiesArray
  <2>6. QED
    BY <2>4, <2>5
<1>5. QED
  <2>1. ASSUME TransferNext, ~StartTransfer, ~RunTransfer
        PROVE  phase' \notin {"running", "done"}
    BY <2>1 DEF TransferNext, Choose, Operation, WriteDma, WriteAhbm, Interrupt, HostRead16,
                HostWrite16, WriteMiu, StoreWord, ResetAll
  <2>2. QED
    BY <1>1, <1>2, <1>3, <1>4, <2>1

LEMMA InitMoved == ASSUME TransferInit PROVE Planned /\ Moved /\ CopiesArray
  BY DEF TransferInit, Planned, Moved, CopiesArray

\* The invariant of the copy: the first elements of the array have arrived, the next
\* wait in the queue as they were at the start, and every other byte is untouched.
THEOREM CopyInductive ==
    TransferSpec => [](Types /\ Underway /\ Planned /\ Moved /\ CopiesArray)
<1> DEFINE Inv == Types /\ Underway /\ NoLeftovers /\ Planned /\ Moved /\ CopiesArray
<1>1. TransferInit => Inv
  BY InitTypes, InitMoved DEF TransferInit, Underway, NoLeftovers
<1>2. Inv /\ [TransferNext]_transferVars => Inv'
  BY NextTypes, NextUnderway, NextPlanned, NextMoved
<1>3. QED
  BY <1>1, <1>2, PTL DEF TransferSpec

\* When the interrupt is raised the array dma.md describes has been copied, whichever
\* memories it lies in, and no other byte of either memory has changed: for any sizes,
\* steps, burst sizes and wirings of the bridge, whatever ran and whatever the host
\* accessed before, if the transfer is plain and found the queue empty.
THEOREM TransferCopiesArray == TransferSpec => []CopiesArray
  BY CopyInductive, PTL
=============================================================================
