# Teakra in TLA+

Teakra emulates the Teak DSP of the Nintendo DSi and 3DS. A host (an emulator of
the console) links it as a library: it calls `Teakra::Run(cycles)` to let the DSP
run, and from the same or another thread it sends words, sets semaphore bits and
reads and writes memory. This directory holds specifications of that library in
TLA+: what its parts do, what they promise together, model-checked with TLC and,
for the parts that carry the most, proved with TLAPS.

Paths below are those of the repository (`src/interpreter.h` is
`src/src/interpreter.h` in `PROJECT.json`).

## The system

    host thread                          DSP thread (inside Teakra::Run)
    SendData, SetSemaphore, ...          Interpreter::Run: latch, fetch, execute,
         |                                        dispatch, tick
         v                                   |              |              |
      Apbp (cpu->dsp)  --handler-->  ICU  ---+        MMIO registers   CoreTiming
      Apbp (dsp->cpu)  --handler--> host     ^              |          Tick / Skip
                                             |              v              |
                                             +---- timers, BTDMPs, DMA <---+

| Component (source) | State | Operations | Interacts with | Hard behaviour | What makes it correct |
|---|---|---|---|---|---|
| Interpreter, run loop (`interpreter.h`, `register.h`) | registers, four pending atomics, two vector atomics, `idle` | `Run`, `SignalInterrupt`, `SignalVectoredInterrupt` | signalled by the ICU in any thread; ticks CoreTiming; reads MMIO | flags set while they are exchanged; three stores read as one; nesting, context switches, loops across interrupts | every signalled interrupt is dispatched; loops and repeats survive interrupts; idle only where nothing is to be done |
| Interpreter, instructions | accumulators, factors and products, address registers, banks and shadows, status words | some 300 handlers | memory, registers | widths, saturation, modulo addressing, the pipeline of the multipliers, what a shadow does not keep | results of the programs firmware makes of them |
| ICU (`icu.h`) | request, enables, vectors | `Trigger`, `Acknowledge`, `Set*`, `Get*` | called by APBP, timers, BTDMPs, DMA and MMIO; calls the processor with its mutex held | vectors are written and read without a lock | a trigger of a connected IRQ reaches each of its lines; a vector is read as a whole if its IRQ was disconnected while it was written |
| APBP (`apbp.cpp`) | three channels: word, ready, disable; semaphore, mask, signal | `SendData`, `RecvData`, `SetSemaphore`, `ClearSemaphore`, `MaskSemaphore`, ... | host and MMIO on either side; handlers into ICU or host | the handler runs after the unlock or under a recursive mutex, where the host's may clear and mask | words are delivered once, in order; no word or bit waits without an interrupt or a poll |
| Timers (`timer.cpp`) | counter, start value, mirrors, mode | `Tick`, `TickEvent`, `Restart`, `Skip`, `GetMaxSkip` | CoreTiming, MMIO, ICU | 32-bit edges of skipping | skipping is not observable |
| BTDMP (`btdmp.cpp`) | queue, flags, period counter | `Send`, `Tick`, `Skip`, flush, enable | CoreTiming, MMIO, ICU, host's audio callback | queue limits, flags kept by three sets of rules | as the timers; flags agree with the queue |
| CoreTiming (`core_timing.h`) | list of callbacks | `Tick`, `Skip` | the run loop calls it; it calls timers and BTDMPs | shortest wait of all | no event is overrun |
| MMIO (`mmio.cpp`) | cells and bit fields | `Read`, `Write` | firmware's way to every peripheral | order of fields in one write | each register acts on its component |
| DMA (`dma.cpp`) | eight channels, the active one, counters and addresses of the transfer | `ActivateChannel`, register writes, `SetZ` which runs `Start` and `Tick` to the end | memory interface, AHBM, ICU | wrapping counters, three dimensions stepped separately, channel selection | the array that `dma.md` describes is copied, and the interrupt comes |
| AHBM (`ahbm.cpp`) | per channel: unit and burst size, DMA channel, burst queue | `Read16/32`, `Write16/32`, setters | host memory callbacks; the host reads and writes through channel 0 too | bursts read ahead and written late, unaligned addresses, leftovers | a burst moves the same units as single accesses and leaves nothing behind |
| Memory interface (`memory_interface.cpp`, `shared_memory.h`) | pages, sizes, MMIO base, the words | `DataRead`, `DataWrite`, the A32 accesses, setters | all of the above | boundary compare, the MMIO window | processor, host and DMA reach one memory |
| Facade (`teakra.cpp`, `teakra_c.cpp`) | owns all of it | `Reset`, `Run`, the host calls | wiring of handlers | what `Reset` leaves behind | the wiring itself |
| Decoder | a constant table | `Decode` | the run loop | overlapping patterns | asserted for every opcode when the table is built |
| Disassembler, parser, tools, tests | none | pure | none | none | not part of the running system |

The hazards, each with its line and the properties that cover it, are listed in
`PROJECT.json`.

## Modules

    Icu ----> Core ----+--> CoreTheorems ------------+
                       +--> MCCore                   +--> HostLinkTheorems
                       +--> HostLink ----------------+
                               ^    +--> MCHostLink
    Apbp ---+------------------+
            +--> ApbpPolling (implements Mailbox) --+
            +--> ApbpSemaphore ---------------------+--> ApbpDirection --> ApbpTheorems
    RunLoop --+--> MCRunLoop
              +--> LoopTheorems
    Timer --+--> Peripherals --+--> Ticking
    Btdmp --+                  +--> CoreTiming (implements Ticking) --> MCTiming
    CoreTiming, NaturalLemmas --> TimingTheorems
    Memory, Ahbm --> Dma --> Transfer --> MCTransfer
    Transfer, NaturalLemmas --> TransferTheorems
    Registers --+--> Multiplier --> Arithmetic --+--> Algorithms --+
                +--> Addressing -----------------+                 +--> Bus
                +--> StatusWords ----------------------------------+
    Bus --> MemoryOperands --> Routines --> Programs --> MCPrograms
    Programs, NaturalLemmas --> ProgramTheorems

**Icu.** `request`, `enabled`, `vectored_enabled` and the vectors as in `icu.h`.
`Trigger` holds `mutex` from `TriggerEnter` to `TriggerLeave`; `left` is the set of
calls it has still to make, made in the order of its two nested loops (`NextCall`).
The vector registers are three words for each IRQ, written at any time without the mutex,
whether the IRQ is connected or not: `SetVectorLow` is one cell, `SetVectorHigh` the cell
that holds the upper half and the context switch bit.

**Core.** One thread runs `Interpreter::Run`, any number of others call `Trigger`.
`at` says where the loop is: `latch` (four exchanges, one step each), `execute`,
`dispatch`, `switch` (between the two reads of a vectored dispatch) and `tick`.
An instruction is kept only for what it does to the interrupts: nothing (`Plain`),
`eint`/`dint`, writes to mod3 and to the ICU's registers, a software trigger, `rep`,
`reti`/`retic`. Firmware returns from a handler the way it was entered; it writes the ICU's registers in
any order, vectors of connected IRQs included. `rep` is a flag whose count
is abstracted. The context switch swaps the bank of `im`, the only member of the
bank that dispatch reads. A vectored call first reads the three words of the vector, one
step each and in any order (`ReadArgument`), while firmware may write them;
`SignalVectoredInterrupt` is then three steps more (`StoreAddress`, `StorePending`,
`StoreSwitch`). The vectored target is the last
member of `Target`, so that `ip`, `im`, `pending` hold it beside the lines.
`owed`, `intended` (the switch bit of the call whose address a dispatch took), `loose` (the
IRQs whose vector was written since they were connected) and `overlapped` (a vectored call
was under way while a dispatch read its words) are history variables.

**RunLoop.** The rest of the loop's control: program counter, `rep`/`repc`, the
stack of four block repeats, `break`, `bkrepsto`/`bkreprst`, branches, calls, pushed
arguments and `rets`, the branch to itself that sets `idle`, interrupt entry and
return. An iteration is two steps, the instruction and the dispatch. An address holds
one instruction (its expansion word is part of it). The stack in memory is a sequence.
`ip` is latched by `Raise`, what happens before being in Core. `MCRunLoop` assembles
programs from nested statements and computes the work each should do from its
structure, not from its code. Its bodies may end in a call, leave a loop by a branch
after a `break`, and share a subroutine with the handler that interrupts them. Outside
its reach, as the code demands it of firmware: two blocks that end at one address, and
a `rep` or `break` as the last instruction of a block.

**Apbp.** The three channels and the semaphore of one direction; the other direction
is another instance. `Send` stores the word under the channel's mutex and
`CallHandler` comes after, in a step of its own. `SetSemaphore` goes through
`setting` = `handler` and `update`, holding the recursive mutex: `SemaphoreFree` is where
another thread gets it, `InHandler` where the handler does, which runs in the sender's
thread. `ClearSemaphore` and `MaskSemaphore` have no guard of their own; their callers say
which of the two they are.
- **ApbpPolling** adds a sender that waits for `SendDataIsEmpty` and a receiver that
  waits for `RecvDataIsReady`; **Mailbox** is what they rely on, a one-word box.
- **ApbpSemaphore** is the semaphore alone, with the mask. `HandlerClears` and
  `HandlerMasks` are what the host's handler of the direction from the DSP may do in the
  middle of `SetSemaphore`. `overtaken` remembers that it cleared there.
- **ApbpDirection** is both at once: one sender, which is inside one call at a time,
  and one receiver, and resets between two calls.
- **HostLink** joins Apbp with Core the way `teakra.cpp` wires them. The firmware is
  the program the documents ask for; every instruction of it is one turn of Core's
  loop, and three mutexes are in play. Between two calls of `Run` the host may reset:
  `Teakra::Reset` renews the APBP and the processor's registers but leaves the ICU's
  requests and connections and the pending flags, and the firmware boots again among
  what is left.

**Timer, Btdmp, Peripherals, Ticking, CoreTiming.** A timer and a BTDMP are records,
their methods functions from record to record; Peripherals holds sets of them with the
MMIO writes. Ticking says what CoreTiming promises: n cycles are n ticks of everything.
CoreTiming has the code's turns: a busy turn ticks, an idle turn skips, ticks for what
fires, and ticks again. The interrupts, each with its cycle, and the audio samples are
outputs of a step. When the processor latches an interrupt is not: after a skip it looks at
its flags (`interpreter.h:76`) before it ticks again.

**Memory.** The words of the DSP's memory and the interface in front of them:
`Access` is the word, the MMIO cell or the abort that an address means in either page
mode, `FlatAddress` the one the host uses. A word is a pair of bytes.

**Ahbm.** A channel with its queue: `PopRead` and `Write16`/`Write32` are one access
each, with the burst it triggers. A unit is a sequence of bytes, so that what the
code does by shifts with odd addresses and narrow units is which byte goes where.

**Dma.** A channel is a record of its registers. `Start` latches them, and `Tick`
copies one element and steps the counters; `Advance` is the code's cascade of three
dimensions, in counters that wrap at `CounterWidth`.

**Transfer.** Firmware writes only the registers that differ from what it wants, starts,
and is interrupted; in between the host reads and writes external memory through
channel 0, stores words, and resets. `CopiesArray` compares the memories with those
at the start by a formula for the k-th element, not by counters; `Plain` is where
`dma.md` says what should happen: both ends apart, units of the element's width.

**Registers, Multiplier, Arithmetic, Addressing, Algorithms.** Operators from the record
of all registers to the changed record, one for each method or handler of the
interpreter, parameterised by the widths. Accumulators are signed integers where the
code holds their sign-extended bits. Registers has banks, shadows and the context switch
with all it stores, including `crep` and `ccnta`.

**StatusWords, Bus.** A status word is the set of slots it is put together from, each
with what reading and writing the slot does; Bus is the 16-bit path by which every
`mov`, `push` and `pop` goes, with saturation.

**MemoryOperands.** The handlers that take one or two words from memory or put them
there: the pointers that the `ar` and `arp` registers select, the second word
beside the first, long stores in the code's order, exchanges, the moves between program
and data memory, and the instructions that use both multipliers. Program memory lies below
data memory in one array, as in `shared_memory.h`: page 2 of it is data memory.

**Routines, Programs.** A routine is a sequence of instructions, executed one at a
time by `Execute`; the step is one handler. Programs has the routines that firmware
uses the instructions for, from any values in the given sets, and what they must have
computed by the end, stated by integer arithmetic.

## Runs

| Run | Question | Bounds |
|---|---|---|
| Core | With the host and the peripherals raising one IRQ on a line and on the vectored interrupt: is a call ever lost, is a vector read as a whole, and does a dispatch mix two calls although none is under way? | 1 line and the vectored interrupt, 1 IRQ, 2 vectors and the switch bit, nesting 2 |
| CoreVectoredRace | Do address and context switch of a vectored dispatch always belong together? Refuted, a finding. | 2 addresses, no line |
| CoreHost | Host and firmware raise an IRQ on a line and vectored: is every call dispatched in the end? | 1 line, 1 IRQ, nesting 1 |
| RunLoop | Does every program do its work, whatever interrupts it, without an abort or a wrong idle? | some 80 blocks under 3 handlers that save 0 to 2 levels, loops nested up to 4; 5 bodies with calls and branches, 3 subroutines, 2 handlers; 2 interrupts |
| Apbp | Do polled channels implement mailboxes, and does the master signal follow the unmasked bits unless the mask was written since or a handler has cleared, when one direction is used for both, with resets? | 2 channels, 2 words, 2 sends each, 2 bits |
| ApbpMaskSignal | Does the signal follow the mask at once, as `apbp.md` says? Refuted, a finding. | 2 bits |
| ApbpReentry | Is the signal off when there is no bit, as `apbp.md` says, also when the handler clears? Refuted, a finding. | 2 bits |
| HostLink | Is a word or a semaphore bit ever left without an interrupt, a handler or a poll to come, also across resets? Are words taken, bits cleared, host calls finished? | 2 channels, 1 word, 2 bits, 1 IRQ |
| Timing | Do the peripherals raise the same interrupts at the same cycles, and send the same samples, when cycles are skipped as when they are ticked? Do all flags and assertions hold? | counters of 2 halves of 1 bit, queue 4, period 2, turns of up to 5 cycles |
| TimingZeroRestart | Does a timer that restarts from 0 stay silent? Refuted, a finding. | as Timing, queue 2 |
| Transfer | Is the array copied, nothing left in a burst queue, one memory seen by all, and does every transfer end? | banks of 16 words, counters below 16, 80 external bytes, 2 DMA and 2 bridge channels, 2 operations (`MaxOps`) |
| Instructions | Do the programs compute what firmware uses them for? | words and guards of 4 bits, modulos and steps of 3, values around every limit |

Why these are enough. A line and the vectored interrupt show priority and a target that
waits behind another; two values of one half of a vector, and the switch bit, show a call
that mixes the words of two writes;
nesting 2 shows a handler in a handler with and without a bank switch. A pending flag
has two values, so a second raise of one IRQ before the first is latched is the worst
case of many. Two channels show one being drained while the other fills; a third adds
a copy of the second. The stack of loops has its real depth of four, and handlers loop
above a full one. A timer whose counter has four values meets each edge
(0, 1, the wrap, the maximum) within a turn of five cycles, and the proofs in
TimingTheorems hold for every width, queue and turn. The queue of four is twice what one period
takes, so full, half and empty all occur. A transfer leaves to the next one only the
registers and the burst queues, so two operations show what one does to another; the
plans have every combination of zero and larger sizes, gaps between elements,
rows and planes, the largest sizes, both burst directions, and the narrow units at odd
addresses. `Endless`, a doubleword transfer of the largest odd size, never ends in the
code either and is excluded by name. An instruction compares, adds and shifts within a
width and is otherwise uniform in it: at four bits a word still has a sign, two words
a carry between them and an accumulator a guard, while every program can start from
each of its values' limits and their neighbours. Guards of four are the least that
hold a product shifted left by two.

Deadlock is checked in every run but Transfer and Instructions: the former stops after
`MaxOps`, the latter when its program is over. In Apbp the sender stops after
`MaxWords`, and its semaphore goes on.

Configurations give only constants. `Mutant` definitions beside the originals are
plausible bugs of the same code; `PROJECT.json` names, for each property of a run, the
one that breaks it.

## Fairness

- Core, RunLoop: `WF(RunLoop)`, `WF(Run)`. The host keeps calling `Run`, and the loop
  itself never waits but for a mutex. `WF(IcuStep)`: a thread inside `Trigger` has
  only straight-line code before it. No fairness for raising an interrupt.
- `InterruptsTaken` has the premise `[]<>OpenFor(t)`: the firmware is open for the
  target again and again. Without it firmware may mask the interrupt for ever.
- HostLink: strong fairness for the steps that wait for a mutex (`DataHandler`,
  `SemaphoreHandler`, `DspStep`). It says that a thread waiting for a mutex that is
  free infinitely often gets it; the critical sections are short and the standard
  mutexes of the supported platforms do not starve a waiter for ever, though C++ does
  not promise it. No host call has to begin.
- ApbpDirection: `WF(Finish)`, a call of the sender that has begun goes on;
  `SF(FindReady(c))`, `WF(RecvData(c))`, the receiver polls each channel again and again,
  which is what polling is. The sender need not send.
- Transfer: `WF(RunTransfer)`. The write of the start value does not return before its
  loop is over, and nothing in the loop waits.
- CoreTiming and Programs have no liveness and state no fairness.

## Proofs

Eight modules hold theorems; they are checked by tlapm for all values of the
constants under the named assumptions, which TLC evaluates in every run.

**CoreTheorems** (assumptions: `IcuAssumption`, `CoreAssumption`: the threads differ,
the IRQ sets are subsets of `Irq`, nesting depth positive). `Spec => []IInv`, where
`IInv` adds to `TypeOK`, `NoLostInterrupt` and `VectorsWhole`:
- `LoopOK`: with interrupts open there is room for one more frame, without which
  `Len(frames) <= MaxDepth` is not inductive; and the DSP thread is inside `Trigger` only
  during an instruction or a tick, so it never rewrites a vector that it is reading;
- `CallsOK`: calls are outstanding only while the mutex is held, and the words read and the
  stages of `SignalVectoredInterrupt` belong to the next call;
- `StageOK`: after `vinterrupt_pending` is stored, a vectored target that is owed is
  pending or latched. Without it `StoreSwitch`, which drops the call from `left`,
  could lose it;
- `ConnectedOK`: calls to a vector are of connected IRQs, so that a vector which firmware
  writes under a call is one it has not disconnected, which `loose` records.

The step is proved action by action, the pipeline `left -> pending -> ip` being what
each of them passes a target along. Results: `CoreTypeOK`, `CoreNoLostInterrupt`,
`CoreVectorsWhole`. `CoreIntactAlone` is about the other race, that of the three stores
with the two reads of the dispatch: whenever no call is under way the switch bit is that of the
last call, whose address is the one stored, so only a call that overlaps the reads can be
mixed. `CoreVectoredCallIntact` has the hypothesis that the host raises nothing (`HostIrq = {}`),
which is what the refutation in CoreVectoredRace lacks: with one thread that signals, no call
overlaps the reads, because the thread that reads is the one that stores.

**HostLinkTheorems** (assumptions: those of Core and of Apbp, and `LinkAssumption`:
channel 0 exists, the channel the firmware polls is a channel, the APBP's IRQ is an
IRQ, and there is a line 0 to connect it to). The firmware, both APBP handlers and the resets between two calls of `Run`,
over `IInv` of CoreTheorems. `NoStrandedWord` and `NoStrandedBit` are not inductive: they
count any dispatch that is owed as a look to come, but a handler that is dispatched after
its request was acknowledged returns at once. `HandlerWillLook` asks for the request as
well, and `LinkInv` adds where the firmware is while a channel's interrupt is closed
(`ClosedOK`), that the APBP's IRQ stays connected once it was (`IrqConnected`), that handlers do
not nest (`HandlersOK`), and that the master signal, or the local of `SetSemaphore` while it
runs, shows any bit that is set (`SignalOK`). One lemma for each step of the host and
for each instruction of the firmware. Results: `LinkTypes`, `LinkNoStrandedWord`,
`LinkNoStrandedBit`.

**ApbpTheorems** (assumptions: `ApbpAssumption`, `PollingAssumption`: no word is the empty
box). Of the polled channels alone: `PollingFoundStaysTrue` (what one side found about a channel stays
true until it acts) from an invariant with the types, and from it
`PollingImplementsMailbox`: each step is a `Put`, a `Get` or a stutter of `Mailbox`.
Of a whole direction (`DirectionSpec`): `SignalInv` adds to
`SignalExact` what holds inside `SetSemaphore`: the local `new_signal` covers the bits as
they now are, for the handler only clears them, and as long as it has not cleared, the local
is their signal and the old master signal not more than it, so that merging the two, which is
what the code does, is exact. Both invariants together give
`DirectionSignalExact`, `DirectionTypeOK`, `DirectionFoundStaysTrue`, and, a step of the
semaphore being a stutter of `Mailbox`, `DirectionImplementsMailbox`.

**LoopTheorems** (assumption: `ProgramsAssumption`, what the loop takes for granted of a
program's text: it does not run off its code, `rep` repeats an instruction that only works,
no block ends at a `rep` or at the branch to itself). `LoopTypes` and `IdleOnlyWaits` have
the hypothesis `[]PopsMatch`: what `bkreprst` pops is a block that `bkrepsto` saved, what a
return pops is an address of the code. The stack is memory that firmware may write as it
likes, so no proof about the loop can do without it; that well-formed programs meet it, with
interrupts anywhere, is checked as part of `FollowsProgram`. How deep programs nest, and
which of them abort, is not restricted. `LoopInv` adds to the types that the blocks below
`bcn` are blocks of the program, without which a jump back to a block's start may leave the
code, and that an instruction repeats only behind its `rep`, without which a repeated branch
to itself would move on with `idle` set. `ReadyOK` is the part of an iteration before the
instruction (`Fetched`, `Repeated`, `Looped`); then there is one lemma for each instruction.

**NaturalLemmas.** A set of naturals that is not empty has a least element, from the
well-foundedness of `<`, and a set with 0 and every successor is all of them: induction
stated about sets, which a proof uses by forming the set of the numbers a statement holds
for. With it a recursive function whose definition is a `CHOOSE` over functions can be
shown to exist and be unrolled. Also division with remainder by any number, and powers of
two, of which the provers know nothing: that they double, are positive, add their exponents
and grow follows from the library's theorem on the number of subsets of a finite set.

**TimingTheorems** (assumption: `TimingAssumption`, a turn has at least one cycle, and
those of the timers and transmitters: half a counter holds at least two values, queue and
period are not empty). `SkipThenTick` is about one timer: in every mode, as long as `GetMaxSkip` allows it,
skipping n + 1 ticks is skipping n and then a tick that does not fire; `SkipNothing` is the
base. Auto restart from `START_COUNT` 0 is excluded, and is a finding. `TimingInv` says that each timer is a
timer, that the flags of each transmitter agree with its queue, and that its period
counter is below its period. It needs no condition on what firmware writes: `TimingTypes`,
`TimingFlagsAgree` and `TimingMaySkip` (no `ASSERT` of a `Skip` fails) hold of every
behaviour. `SkipThenTickTransmitter` is the step for a transmitter: the skip divides its
ticks into whole periods and a rest, and the last tick either begins a period, and sends,
or does not. `SkippingIsTicking` is the induction over all components at once:
`After(c, n)`, n ticks of `Ticking`, is what skipping n leaves, with no interrupt on the
way. From it `TimingImplementsTicking`: each turn of CoreTiming is a turn of `Ticking`,
with the same interrupts at the same cycles and the same samples. Only this theorem has the
hypothesis `ZeroRestart = FALSE` (no auto restart from 0), which the finding shows to be
necessary.

**TransferTheorems** (assumption: `TransferAssumption`, a plan's registers are numbers,
its sizes below the counters' width, its channels exist). `TransferOneMemory` is arithmetic of
addresses. For the running transfer the invariant `Underway` counts the elements done from
the three counters (`Done`), says that both addresses are those of that element in
`dma.md`'s formula (`AtElement`), and that the length of the queue follows that number modulo
the burst (`OnTrack`). A doubleword transfer whose odd size is the largest is stepped over
by its counter: `NeverEnds`, for which nothing but the parity of the counter is kept.
Results: `TransferTypes`, `TransferOneMemory`, `TransferNoLeftovers`, and
`TransferVisitsElements`, the addressing half of `CopiesArray`, for any sizes and steps.

Its last part, what a transfer copies, has one more assumption (`BackedAssumption`: both
memories reach as far as the elements of every plan: the code indexes the DSP's memory
without a check, and what the host's callbacks do with an address outside their memory is
not the code's). `TransferCopiesArray` is `CopiesArray` for any sizes, steps, burst sizes,
wirings and memories. The invariant `Moved` says of a plain transfer that found the queue
empty and has read k elements: those that have arrived, k less the ones that wait to be
written, are at their destination and no other byte of either memory has changed since the
start (`Progress`); the queue holds the elements that wait to be written, or those that
were read ahead, with the bytes they had at the start (`Holding`); and a burst that is being
collected begins at the address of its first element. `Planned` says that the channel that
runs is the one the plan filled in, which takes the firmware's writes register by register,
and that no step changes how large the memories are. `ApartDistinct` turns the count in
`Apart` into what the steps need: no byte is written twice, and none that is read is
written. `Unread`, that what is to be read is as it was at the start, is why reading ahead and
writing late do no harm; `BurstProgress` is the induction over the units of a burst that
goes out, and `FilledHolding` the read of one that comes in. The three lemmas
`MemoryToMemory`, `BridgeToMemory` and `MemoryToBridge` are the turn of the loop for the
three pairs of spaces. `NeverEnds` needs no case: such a transfer is never done.

**ProgramTheorems** (assumptions: `RegistersAssumption`, a word has an even number
of bits and the guard more than three, so that a shifted product fits; `ValuesAssumption`, the values
the programs start from fit where they are put). The first part is about numbers of a
width: division of numbers of either sign, what `Signed` makes of a number for any width,
and of one that is a modulus off. `DivisionIsExact` is `DividesExactly` for any widths and values. Its invariant `Partial`:
after k steps of `divs` the accumulator is 2^k * rem + q, and the dividend is
da * 2^(W - k) * q + rem with rem below that multiple of da, for a word of W bits. The
quotient stays below 2^k, so its bits never reach the remainder, and no step overflows;
both are why the code may shift quotient and remainder through one register.
`ConditionsDecide` is `Decides`: the sign and zero flags are those of the difference as
wrapped to the accumulator, `DifferenceDecides` shows that they order the operands when it
did not wrap, and that otherwise it wrapped to the other sign, which is the code's
condition for `fv`. For `cmpv` the difference of two words always fits and the borrow is
that of the unsigned words. The invariant of each comparison says that its one instruction
is still to come, or that the registers are what it makes of those at the start.
`RegistersComeBack` is `ContextKept`. A program that only moves registers leads from one
state of the registers to the next (`Leads`), and the invariant says that they are the
state after as many instructions as are done (`Follows`). What is left to show is about
the handlers alone: which registers `cntx`, `banke` and `bankr` keep (`StoreIs`,
`RestoreIs`, `BankeIs`, `SwapArIs`, `SwapArpIs`), and that a handler in between, which may
save the context again, reaches only what has one shadow (`PlainKept`, `NestedKept`).
`SwapIs` follows the moves of `swap` one by one, by induction on their number: no two have
the same target, and each takes the value from before, which is why the code reads into
locals first. Saturating twice is saturating once (`ClipTwice`), so that swapping back gives
the saturated start.

Only model-checked: liveness (`InterruptsTaken`, `Completes`, `WordsTaken`,
`BitsCleared`, `HostReturns`, `TransferEnds`), which the prover does not reach;
`NeverAborts` and `FollowsProgram`, which hold of well-formed programs only, and `MCRunLoop`
builds those by recursion; and the invariants of Routines and Programs other than those
three. Of these some compare with a definition by recursion over bits or
elements, which is induction over data; the others follow programs of many instructions
whose proofs would be as long as the handlers they execute.

## Findings

1. `interpreter.h:152` stores and `Run` reads the vectored interrupt as separate atomics;
   a dispatch can take the address of one call and the context switch of another
   (run CoreVectoredRace). Only when the host thread signals a vectored IRQ, and only while it
   does (`IntactAlone`).
2. `apbp.cpp:116` merges a signal that was computed before the handler ran. The mutex is
   recursive, so a host handler may clear the bits it was called for, and the signal stays set
   with no bit behind it (run ApbpReentry), although `apbp.md:53` computes it from the bits.
   From the CPU to the DSP the handler only raises an IRQ and this cannot happen.
3. `apbp.cpp:132` writes the mask without updating the master signal, although
   `apbp.md:75` says the signal follows at once (run ApbpMaskSignal).
4. `timer.cpp:103`: `Skip(0)` of an auto-restart timer with `START_COUNT` 0 loads 1, and an
   interrupt follows that ticking never produces (run TimingZeroRestart).

Seen while modelling and visible in the lines themselves, without a run:

- `icu.h:38`: a Trigger on the host thread reads the words of a vector while firmware writes
  them, without a lock. If the IRQ is connected meanwhile, the call may get the halves of two
  different addresses. `icu.md` states no order in which to write them; `VectorsWhole` says
  which order is safe: disconnect, write, connect.
- `mmio.cpp:201`: bit 9 of the status register at 0xD8, the CPU side's signal by
  `apbp.md:54`, shows that of the direction to the DSP.
- `apbp.cpp:113`: the handler is called for every `SetSemaphore` that leaves an unmasked bit;
  by `apbp.md:75` it is for a change of the signal from 0 to 1.
- `teakra.cpp:150`: `AHBMRead32` returns its 32-bit value as a `uint16_t`.
- `ahbm.h:31`: the status register, which `ahbm.md` describes as showing whether the burst
  queue is empty, is a constant 0. Firmware that waits for 0 does not wait, and does not
  see leftovers; when there are any is what `NoLeftovers` says.
- `teakra.cpp:187`: `DMAChan0GetSrcHigh` and `DMAChan0GetDstHigh` select DMA channel 0 from the
  host thread, without a lock, and leave it selected.
- `dma.cpp:78`: in doubleword mode a `size0` of 0xFFFF is stepped over, and the transfer
  never ends (`Endless` in MCTransfer).
- `memory_interface.h:40`: in page mode 1 the boundary word is given to X.
  `memory_interface.h:30`: an access of the MMIO window aborts while `z_page` is not 0.
- `register.h:479`: restoring `stt2` with `lp` set ends all block repeats; `register.h:434`:
  `st0` shows `flm` and `fvl` as one bit and four bits of the guard.
- `interpreter.h:3171`: saturation sees the wrapped sum, so a sum that overflows 40 bits is
  clipped to the other side; the overflow flag is set. `register.h:69`: `fvl` keeps an overflow
  of a double sum's first addition although `fv` ends as 0.

## Not modelled, and the plan

- **Decoder.** The table in `decoder.h` is constant. That no opcode matches two patterns is
  an `ASSERT` evaluated for all 65536 opcodes when the table is built at start-up, so
  every execution is an exhaustive check; a model would be a copy of the table.
- **Instructions.** `icr`, `prpage`, the external registers, the moves from `pc` and the
  jump through a table (`movpdw`), and the forms of a handler that differ only in where an
  operand comes from.
- **Facade.** `DMAChan0GetSrcHigh`, `DMAChan0GetDstHigh`; the direction of the AHBM and the enable
  and Y registers of the DMA are cells that nothing acts on. Reset is modelled per component
  (HostLink, Apbp, Transfer), not as one step of all, and between the host's calls: it takes
  no lock, and nothing in the repository calls it within one.
- **For good.** The C bindings (they forward), the disassembler, the parser, the
  command-line tools, the test generators and the programs for the hardware: no state of
  the emulation. The prescaler and watchdog modes of the timers abort in the code.
  `SetTransmitPeriod` has no caller. Weak memory orders: the atomics are sequentially
  consistent in the code. The plain vector registers are modelled as words that are read and
  written one at a time: an aligned 16-bit access does not tear on the supported platforms,
  though in C++ it is a data race.

What is left to do is proof: the remaining invariants of the programs, of which the one
about the stack (`StackKeeps`) needs no arithmetic but that of its pointer.
