------------------------------- MODULE Memory -------------------------------
(***************************************************************************)
(* The DSP's memory and the memory interface unit in front of it           *)
(* (src/src/shared_memory.h, memory_interface.h and .cpp).  The processor  *)
(* reaches data through 16-bit addresses: a window of them is MMIO, the    *)
(* rest is completed by a page register.  The host also reaches the same   *)
(* words through flat addresses, and the DMA engine through its own.       *)
(***************************************************************************)
EXTENDS Integers, Sequences

CONSTANTS
    Bank,           \* DataMemoryBankSize: 0x10000
    Offset,         \* DataMemoryOffset: 0x20000, below it is program memory
    MMIOSize,       \* 0x800
    Resolution,     \* XYSizeResolution: 0x400
    InitialMiu      \* the registers after Reset

ASSUME MemoryAssumption ==
    /\ Bank \in Nat \ {0} /\ Offset \in Nat
    /\ MMIOSize \in 1 .. Bank
    /\ Resolution \in Nat

VARIABLES
    memory,         \* the words, each of them a pair of bytes
    miu             \* its registers

memoryVars == <<memory, miu>>

Address == 0 .. Bank - 1
Page    == {0, 1}               \* of data memory; another page aborts

\* y_size and the sizes of page 1 are cells nothing reads.
MiuState ==
    [mmio_base : Nat, z_page : Page, page_mode : {0, 1}, x_size : Nat, x_page : Page,
     y_page : Page]

-----------------------------------------------------------------------------
(***************************************************************************)
(* Addresses.  u is a value of miu, for properties to range over.          *)
(***************************************************************************)
InMMIO(u, addr) == u.mmio_base <= addr /\ addr < u.mmio_base + MMIOSize
ToMMIO(u, addr) == (addr - u.mmio_base) % MMIOSize

DataPageAlwaysX(u, addr) == IF u.page_mode = 0 THEN u.z_page ELSE u.x_page

DataPage(u, addr) ==
    IF u.page_mode = 0 THEN u.z_page
    ELSE IF addr <= u.x_size * Resolution THEN u.x_page
    ELSE u.y_page

ConvertDataAddress(u, addr) == Offset + addr + DataPage(u, addr) * Bank

\* What an access of the processor hits: an MMIO cell, a word, or an assertion.
Access(u, addr, bypass) ==
    IF InMMIO(u, addr) /\ ~bypass
    THEN IF u.z_page = 0 THEN <<"cell", ToMMIO(u, addr)>> ELSE <<"abort", 0>>
    ELSE IF DataPage(u, addr) \in Page
         THEN <<"word", ConvertDataAddress(u, addr)>>
         ELSE <<"abort", 0>>

\* The host's flat address, and its MMIO address, which is mirrored.
FlatAddress(address) == Offset + (address % (2 * Bank))
MirroredCell(address) == address % MMIOSize

-----------------------------------------------------------------------------
ReadWord(a) == memory[a]

DataReadA32(address) == ReadWord(FlatAddress(address))
DataWriteA32(address, value) ==
    /\ memory' = [memory EXCEPT ![FlatAddress(address)] = value]
    /\ UNCHANGED miu

\* MMIO cells and assertions are outside this module: a data access of the
\* processor that hits a word.
DataRead(addr, bypass) == ReadWord(Access(miu, addr, bypass)[2])
DataWrite(addr, value, bypass) ==
    /\ Access(miu, addr, bypass)[1] = "word"
    /\ memory' = [memory EXCEPT ![Access(miu, addr, bypass)[2]] = value]
    /\ UNCHANGED miu

SetMiu(registers) ==
    /\ miu' = registers
    /\ UNCHANGED memory

ResetMemory(zero) ==
    /\ memory' = [a \in DOMAIN memory |-> zero]
    /\ miu' = InitialMiu
=============================================================================
