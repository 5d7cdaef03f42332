------------------------------ MODULE MCTransfer ------------------------------
(***************************************************************************)
(* Transfer with banks of 16 words, counters of 4 bits and 80 bytes of     *)
(* external memory; every byte starts out different.                       *)
(***************************************************************************)
EXTENDS Transfer

MCMemory == [a \in 0 .. Offset + 2 * Bank - 1 |-> <<2 * a + 1, 2 * a + 2>>]
MCExternal == [a \in 0 .. 79 |-> 100 + a]
MCHostValue == <<90, 91, 0, 0>>

MCMiu == [mmio_base |-> 8, z_page |-> 0, page_mode |-> 0, x_size |-> 2,
          x_page |-> 0, y_page |-> 0]
MCMiuConfigs ==
    {MCMiu, [MCMiu EXCEPT !.z_page = 1],
     [MCMiu EXCEPT !.page_mode = 1, !.y_page = 1, !.mmio_base = 14]}

\* In one line, or with gaps between rows and planes, or with gaps in a row.
Line == <<1, 1, 1>>
Gaps == <<1, 2, 3>>
Comb == <<2, 1, 1>>

StepIn(space, dword, step) ==
    IF space = 7 THEN 2 * (1 + dword) * step ELSE (1 + dword) * step

DmaPlan(spaces, dword, sizes, steps, start) ==
    [addr_src |-> start, addr_dst |-> IF spaces = <<0, 0>> THEN 16 ELSE start,
     size0 |-> sizes[1], size1 |-> sizes[2], size2 |-> sizes[3],
     src_step0 |-> StepIn(spaces[1], dword, steps[1]),
     src_step1 |-> StepIn(spaces[1], dword, steps[2]),
     src_step2 |-> StepIn(spaces[1], dword, steps[3]),
     dst_step0 |-> StepIn(spaces[2], dword, steps[1]),
     dst_step1 |-> StepIn(spaces[2], dword, steps[2]),
     dst_step2 |-> StepIn(spaces[2], dword, steps[3]),
     src_space |-> spaces[1], dst_space |-> spaces[2], dword_mode |-> dword]

\* A doubleword transfer of the largest odd size never ends: counter0 wraps past it.
Endless(c) == c.dword_mode = 1 /\ c.size0 = CounterWidth - 1

\* A burst reads or writes up to 16 bytes from its first address on.
Fits(c, space, address(_)) ==
    \A k \in Elements(c) :
        IF space = 7 THEN address(k) + 16 \in DOMAIN MCExternal
                     ELSE address(k) < 2 * Bank - c.dword_mode

\* Which bridge channel serves which DMA channel; none falls back to channel 0.
Own  == <<{0}, {1}>>
None == <<{}, {}>>
Both == <<{}, {0, 1}>>

Plan(d, spaces, dword, sizes, steps, start, unit, burst, wiring) ==
    [channel |-> d,
     dma |-> DmaPlan(spaces, dword, sizes, steps, start),
     ahbm |-> [i \in AhbmChannel |->
        [unit_size |-> unit, burst_size |-> burst, dma_channel |-> wiring[i + 1]]]]

Fitting(dword) == IF dword = 1 THEN "u32" ELSE "u16"

Bursts ==
    {Plan(0, spaces, dword, sizes, Line, 0, Fitting(dword), burst, Own) :
        spaces \in {<<0, 7>>, <<7, 0>>}, dword \in {0, 1}, burst \in {1, 4},
        sizes \in {<<4, 1, 2>>, <<3, 2, 1>>}}

Strides ==
    {Plan(1, spaces, dword, sizes, steps, 0, Fitting(dword), 1, Both) :
        spaces \in {<<0, 7>>, <<0, 0>>}, dword \in {0, 1}, steps \in {Gaps, Comb},
        sizes \in {<<0, 0, 0>>, <<1, 2, 0>>, <<2, 2, 2>>}}

\* The narrow units and odd addresses whose lanes are peculiar, and other spaces.
Peculiar ==
    {Plan(0, spaces, dword, <<3, 1, 1>>, Line, 1, unit, 1, None) :
        spaces \in {<<0, 7>>, <<7, 0>>}, dword \in {0, 1}, unit \in {"u8", "u16", "u32"}}
    \cup {Plan(1, spaces, 0, <<4, 1, 1>>, Line, 0, "unknown", 4, None) :
        spaces \in {<<5, 7>>, <<7, 1>>, <<7, 7>>}}
    \cup {Plan(0, <<0, 7>>, 0, <<8, 1, 1>>, Line, 0, "u16", 8, Own)}

\* The largest sizes.
Long ==
    {Plan(0, <<0, 0>>, 0, <<15, 1, 1>>, Line, 0, "u16", 1, Own),
     Plan(0, <<0, 0>>, 1, <<13, 1, 1>>, Line, 0, "u16", 1, Own),
     Plan(0, <<0, 0>>, 0, <<1, 1, 15>>, Line, 0, "u16", 1, Own)}

MCPlans ==
    {p \in Bursts \cup Strides \cup Peculiar \cup Long :
        /\ ~Endless(p.dma)
        /\ Fits(p.dma, p.dma.src_space, LAMBDA k : SrcAt(p.dma, k))
        /\ Fits(p.dma, p.dma.dst_space, LAMBDA k : DstAt(p.dma, k))}
=============================================================================
