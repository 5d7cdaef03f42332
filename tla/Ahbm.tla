-------------------------------- MODULE Ahbm --------------------------------
(***************************************************************************)
(* The bridge between the DMA engine and external memory                   *)
(* (src/src/ahbm.h, ahbm.cpp).  Each channel holds a queue of the units of *)
(* a burst: a read fills it from external memory when it is empty, a write *)
(* empties it into external memory when it is full.                        *)
(*                                                                         *)
(* A 32-bit value is the sequence of its four bytes, lowest first, so a    *)
(* shift by 8 or 16 bits moves bytes.  External memory is the host's, and  *)
(* is reached through its callbacks: bytes, little endian.  The direction  *)
(* register is left out: a wrong direction is only warned about.           *)
(***************************************************************************)
EXTENDS Integers, Sequences

CONSTANTS
    AhbmChannel,    \* 0 .. 2 in the code
    DmaChannel,     \* 0 .. 7 in the code
    ZeroByte

VARIABLES
    ahbm,           \* per channel: unit_size, burst_size, dma_channel
    burst_queue,    \* per channel
    write_burst_start,
    external        \* external memory: address |-> byte

ahbmVars == <<ahbm, burst_queue, write_burst_start, external>>

UnitSize  == {"u8", "u16", "u32", "unknown"}
BurstSize == {1, 4, 8}

AhbmState   == [unit_size : UnitSize, burst_size : BurstSize, dma_channel : SUBSET DmaChannel]
InitialAhbm == [unit_size |-> "u8", burst_size |-> 1, dma_channel |-> {}]

AhbmTypeOK ==
    /\ \A i \in AhbmChannel :
        /\ ahbm[i] \in AhbmState
        /\ Len(burst_queue[i]) <= 7
    /\ DOMAIN write_burst_start = AhbmChannel

Width(unit) == [u8 |-> 1, u16 |-> 2, u32 |-> 4, unknown |-> 0][unit]
AlignDown(a, width) == a - (a % width)

Bytes(b0, b1, b2, b3) == <<b0, b1, b2, b3>>
ZeroValue == Bytes(ZeroByte, ZeroByte, ZeroByte, ZeroByte)
LowHalf(v)   == Bytes(v[1], v[2], ZeroByte, ZeroByte)
HighHalf(v)  == Bytes(v[3], v[4], ZeroByte, ZeroByte)

-----------------------------------------------------------------------------
(***************************************************************************)
(* Reading                                                                 *)
(***************************************************************************)
Lane(a) == external[a]

\* An 8-bit read puts the byte of an odd address into the second lane.
ReadUnit(unit, current) ==
    CASE unit = "u8" ->
            IF current % 2 = 1
            THEN Bytes(ZeroByte, Lane(current), ZeroByte, ZeroByte)
            ELSE Bytes(Lane(current), ZeroByte, ZeroByte, ZeroByte)
      [] unit = "u16" ->
            LET a == AlignDown(current, 2) IN
            Bytes(Lane(a), Lane(a + 1), ZeroByte, ZeroByte)
      [] unit = "u32" ->
            LET a == AlignDown(current, 4) IN
            Bytes(Lane(a), Lane(a + 1), Lane(a + 2), Lane(a + 3))
      [] unit = "unknown" -> ZeroValue

ReadBurstTooLong(i, address) ==
    LET unit == ahbm[i].unit_size IN
    [n \in 1 .. ahbm[i].burst_size + 1 |-> ReadUnit(unit, address + (n - 1) * Width(unit))]

ReadBurst(i, address) ==
    LET unit == ahbm[i].unit_size IN
    [n \in 1 .. ahbm[i].burst_size |-> ReadUnit(unit, address + (n - 1) * Width(unit))]

\* The queue a read of address takes the front of.
Filled(i, address) ==
    IF burst_queue[i] = <<>> THEN ReadBurst(i, address) ELSE burst_queue[i]

Read32(i, address) == Head(Filled(i, address))
Read16(i, address) ==
    IF address % 2 = 0 THEN LowHalf(Read32(i, address)) ELSE HighHalf(Read32(i, address))

\* The queue after it.
Popped(i, address) == Tail(Filled(i, address))

PopRead(i, address) ==
    /\ burst_queue' = [burst_queue EXCEPT ![i] = Popped(i, address)]
    /\ UNCHANGED <<ahbm, write_burst_start, external>>

-----------------------------------------------------------------------------
(***************************************************************************)
(* Writing                                                                 *)
(***************************************************************************)
Store(mem, a, b) == [mem EXCEPT ![a] = b]

\* One unit: the byte lanes below its start keep what they hold.
WriteUnit(mem, unit, current, v) ==
    CASE unit = "u8" ->
            Store(mem, current, IF current % 2 = 1 THEN v[2] ELSE v[1])
      [] unit \in {"u16", "u32"} ->
            LET a == AlignDown(current, Width(unit)) IN
            [b \in DOMAIN mem |->
                IF b \in current .. a + Width(unit) - 1 THEN v[b - a + 1] ELSE mem[b]]
      [] unit = "unknown" -> mem

WriteBurst(i, start, queue) ==
    LET unit == ahbm[i].unit_size
        after[n \in 0 .. Len(queue)] ==
            IF n = 0 THEN external
            ELSE WriteUnit(after[n - 1], unit, start + (n - 1) * Width(unit), queue[n])
    IN  after[Len(queue)]

BurstOverFull(i, queue) == Len(queue) > ahbm[i].burst_size
BurstFull(i, queue) == Len(queue) >= ahbm[i].burst_size

\* found is the queue the write finds.
WriteInternal(i, found, address, v) ==
    LET queue == Append(found, v)
        start == IF found = <<>> THEN address ELSE write_burst_start[i]
    IN  /\ write_burst_start' = [write_burst_start EXCEPT ![i] = start]
        /\ IF BurstFull(i, queue)
              THEN /\ external' = WriteBurst(i, start, queue)
                   /\ burst_queue' = [burst_queue EXCEPT ![i] = <<>>]
              ELSE /\ burst_queue' = [burst_queue EXCEPT ![i] = queue]
                   /\ UNCHANGED external
        /\ UNCHANGED ahbm

Write16(i, found, address, v) == WriteInternal(i, found, address, LowHalf(v))
Write32(i, found, address, v) ==
    WriteInternal(i, found, address, IF address % 2 = 1 THEN HighHalf(v) ELSE v)

-----------------------------------------------------------------------------
\* The first channel connected to the DMA channel, or channel 0.
GetChannelForDma(d) ==
    LET connected == {i \in AhbmChannel : d \in ahbm[i].dma_channel} IN
    IF connected = {} THEN 0 ELSE CHOOSE i \in connected : \A j \in connected : i <= j

\* A setter changes one register and leaves the queue alone.
SetAhbm(i, register, value) ==
    /\ ahbm' = [ahbm EXCEPT ![i][register] = value]
    /\ UNCHANGED <<burst_queue, write_burst_start, external>>

ResetAhbm ==
    /\ ahbm' = [i \in AhbmChannel |-> InitialAhbm]
    /\ burst_queue' = [i \in AhbmChannel |-> <<>>]
    /\ write_burst_start' = [i \in AhbmChannel |-> 0]
    /\ UNCHANGED external
=============================================================================
