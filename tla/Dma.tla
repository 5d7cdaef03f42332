--------------------------------- MODULE Dma ---------------------------------
(***************************************************************************)
(* The DMA engine (src/src/dma.h, dma.cpp).  Writing the start value to    *)
(* the Z register of the active channel runs a whole transfer, element by  *)
(* element, before the write returns: each Tick copies one element and     *)
(* steps three counters and two addresses.                                 *)
(*                                                                         *)
(* The Y register is stored and never looked at, and is left out.  A       *)
(* channel's address registers are its low and high halves together.       *)
(***************************************************************************)
EXTENDS Memory, Ahbm

CONSTANTS
    CounterWidth    \* the counters and sizes count below it: 2^16

ASSUME DmaAssumption == CounterWidth \in Nat \ {0}

VARIABLES
    channels,       \* per channel, its registers
    active_channel, \* the channel the registers 0x1C0 .. 0x1DE show
    dma_current,    \* the running transfer: addresses, counters and its bridge
    running         \* the channel that runs, or no channel

dmaVars == <<channels, active_channel, dma_current, running>>

Register ==
    {"addr_src", "addr_dst", "size0", "size1", "size2",
     "src_step0", "src_step1", "src_step2", "dst_step0", "dst_step1", "dst_step2",
     "src_space", "dst_space", "dword_mode"}

InitialChannel == [r \in Register |-> 0]
TransferState ==
    [src : Nat, dst : Nat, counter0 : 0 .. CounterWidth - 1, counter1 : 0 .. CounterWidth - 1,
     counter2 : 0 .. CounterWidth - 1, ahbm_channel : AhbmChannel]
NoTransfer == [src |-> 0, dst |-> 0, counter0 |-> 0, counter1 |-> 0, counter2 |-> 0,
               ahbm_channel |-> 0]
NoChannel == -1

DmaTypeOK ==
    /\ \A d \in DmaChannel : channels[d] \in [Register -> Nat]
    /\ active_channel \in DmaChannel
    /\ running \in DmaChannel \cup {NoChannel}
    /\ dma_current \in TransferState

ActivateChannel(d) ==
    /\ active_channel' = d
    /\ UNCHANGED <<channels, dma_current, running>>

\* Every register of 0x1C0 .. 0x1DA is a cell that shows the active channel.
SetRegister(r, value) ==
    /\ channels' = [channels EXCEPT ![active_channel][r] = value]
    /\ UNCHANGED <<active_channel, dma_current, running>>

\* SetZ with the start value: DoDma up to its loop.
Start ==
    /\ running = NoChannel
    /\ running' = active_channel
    /\ dma_current' = [NoTransfer EXCEPT !.src = channels[active_channel].addr_src,
                                         !.dst = channels[active_channel].addr_dst,
                                         !.ahbm_channel = GetChannelForDma(active_channel)]
    /\ UNCHANGED <<channels, active_channel>>

-----------------------------------------------------------------------------
(***************************************************************************)
(* Stepping: what Tick does to the counters and the addresses.             *)
(***************************************************************************)
Add(value, step) == (value + step) % CounterWidth

Step0(t, c) == [t EXCEPT !.src = @ + c.src_step0, !.dst = @ + c.dst_step0]
Step1(t, c) == [t EXCEPT !.src = @ + c.src_step1, !.dst = @ + c.dst_step1]
Step2(t, c) == [t EXCEPT !.src = @ + c.src_step2, !.dst = @ + c.dst_step2]

NextRow(t, c)   == [Step1(t, c) EXCEPT !.counter0 = 0, !.counter1 = Add(@, 1)]
NextPlaneKeepsRow(t, c) == [Step2(t, c) EXCEPT !.counter0 = 0, !.counter2 = Add(@, 1)]
NextPlane(t, c) == [Step2(t, c) EXCEPT !.counter0 = 0, !.counter1 = 0, !.counter2 = Add(@, 1)]

\* counter0 counts words, so a doubleword counts as two.
Counted(c) == IF c.dword_mode = 1 THEN 2 ELSE 1

RowEnds(t, c)   == Add(t.counter0, Counted(c)) >= c.size0
PlaneEnds(t, c) == Add(t.counter1, 1) >= c.size1
AllEnds(t, c)   == Add(t.counter2, 1) >= c.size2

Last(t, c) == RowEnds(t, c) /\ PlaneEnds(t, c) /\ AllEnds(t, c)

Stepped(t, c) ==
    CASE ~RowEnds(t, c)   -> [Step0(t, c) EXCEPT !.counter0 = Add(@, Counted(c))]
      [] RowEnds(t, c) /\ ~PlaneEnds(t, c) -> NextRow(t, c)
      [] OTHER -> NextPlane(t, c)

-----------------------------------------------------------------------------
(***************************************************************************)
(* Copying one element, of one word or two.                                *)
(***************************************************************************)
Word(a)  == Bytes(memory[a][1], memory[a][2], ZeroByte, ZeroByte)
Dword(l, h) == Bytes(memory[l][1], memory[l][2], memory[h][1], memory[h][2])

Even(a) == Offset + AlignDown(a, 2)
Odd(a)  == Offset + AlignDown(a, 2) + 1

\* What Tick reads; MMIO and unknown spaces read as zero.
Element(t, c) ==
    CASE c.src_space = 0 ->
            IF c.dword_mode = 1 THEN Dword(Even(t.src), Odd(t.src)) ELSE Word(Offset + t.src)
      [] c.src_space = 7 ->
            IF c.dword_mode = 1 THEN Read32(t.ahbm_channel, t.src)
                                ELSE Read16(t.ahbm_channel, t.src)
      [] OTHER -> ZeroValue

\* The bridge's queue once it is read.
QueueFound(t, c) ==
    IF c.src_space = 7 THEN Popped(t.ahbm_channel, t.src) ELSE burst_queue[t.ahbm_channel]

StoreElement(t, c, v) ==
    memory' =
        IF c.dst_space # 0 THEN memory
        ELSE IF c.dword_mode = 1
        THEN [memory EXCEPT ![Even(t.dst)] = <<v[1], v[2]>>, ![Odd(t.dst)] = <<v[3], v[4]>>]
        ELSE [memory EXCEPT ![Offset + t.dst] = <<v[1], v[2]>>]

SendElement(t, c, v) ==
    CASE c.dst_space = 7 ->
            IF c.dword_mode = 1
            THEN Write32(t.ahbm_channel, QueueFound(t, c), t.dst, v)
            ELSE Write16(t.ahbm_channel, QueueFound(t, c), t.dst, v)
      [] c.dst_space # 7 /\ c.src_space = 7 -> PopRead(t.ahbm_channel, t.src)
      [] OTHER -> UNCHANGED ahbmVars

AdvanceRestarts(t, c) ==
    /\ UNCHANGED running
    /\ dma_current' = IF Last(t, c) THEN NoTransfer ELSE Stepped(t, c)

Advance(t, c) ==
    IF Last(t, c)
    THEN running' = NoChannel /\ dma_current' = NoTransfer
    ELSE UNCHANGED running /\ dma_current' = Stepped(t, c)

\* One turn of DoDma's loop; when the last element is done the interrupt follows.
Tick ==
    /\ running # NoChannel
    /\ LET c == channels[running]
           t == dma_current
       IN  /\ StoreElement(t, c, Element(t, c))
           /\ SendElement(t, c, Element(t, c))
           /\ Advance(t, c)
    /\ UNCHANGED <<channels, active_channel, miu>>

ResetDma ==
    /\ running = NoChannel
    /\ channels' = [d \in DmaChannel |-> InitialChannel]
    /\ active_channel' = 0
    /\ UNCHANGED <<dma_current, running>>
=============================================================================
