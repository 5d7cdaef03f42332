-------------------------------- MODULE Core --------------------------------
(***************************************************************************)
(* The interrupt side of the processor: Interpreter::Run of                *)
(* src/src/interpreter.h with the ICU that signals it.  The host thread    *)
(* raises IRQs while the DSP thread runs its loop: latch the signalled     *)
(* interrupts, execute one instruction, dispatch at most one interrupt,    *)
(* tick the peripherals.                                                   *)
(*                                                                         *)
(* Of an instruction only what it does to the interrupts is kept; firmware *)
(* is any sequence of such instructions that returns from a handler the    *)
(* way the handler was entered (retic after a context switch, reti         *)
(* otherwise).  The vectored interrupt is the last member of Target, so    *)
(* ipv, imv and vinterrupt_pending are its membership in ip, im, pending.  *)
(***************************************************************************)
EXTENDS Icu, Sequences

CONSTANTS
    Cpu, Dsp,           \* the host thread and the thread in Run
    HostIrq,            \* IRQs the host thread raises
    PeripheralIrq,      \* IRQs raised from core_timing.Tick()
    SoftIrq,            \* IRQs an instruction raises: ITx, or a DMA it starts
    Masks,              \* what the firmware writes to im and imv
    Switches,           \* what the firmware writes to ic
    MaxDepth            \* bound: how deep handlers nest

ASSUME CoreAssumption ==
    /\ Cpu \in Thread /\ Dsp \in Thread /\ Cpu # Dsp
    /\ HostIrq \subseteq Irq /\ PeripheralIrq \subseteq Irq
    /\ SoftIrq \subseteq Irq
    /\ Masks \subseteq SUBSET Target
    /\ Switches \subseteq SUBSET Line
    /\ MaxDepth \in Nat \ {0}

VARIABLES
    pending,                    \* interrupt_pending, vinterrupt_pending
    vinterrupt_address,
    vinterrupt_context_switch,
    arguments,                  \* the <<name, value>> words read for the next call
    stage,                      \* how far SignalVectoredInterrupt has got
    context_switch,             \* the second argument of its last call
    at,                         \* where the DSP thread is in its loop
    scan,                       \* the pending flag it exchanges next
    ie, im, ip, ic, rep,        \* registers
    shadow_im,                  \* the other bank of im
    frames,                     \* open handlers, TRUE: entered with a switch
    due,                        \* IRQs the current tick still raises
    owed,                       \* history: targets called, not dispatched since
    intended,                   \* history: the switch of the call whose address
                                \* the dispatch has taken
    loose,                      \* history: IRQs whose vector was written since
                                \* they were connected
    overlapped                  \* history: a vectored call was under way while
                                \* the dispatch read what it stores

signalVars == <<pending, vinterrupt_address, vinterrupt_context_switch, arguments,
                stage, context_switch>>
loopVars   == <<at, scan, ie, im, ip, ic, rep, shadow_im, frames, due>>
historyVars == <<owed, intended, loose, overlapped>>
vars == <<icuVars, signalVars, loopVars, historyVars>>

TypeOK ==
    /\ IcuTypeOK
    /\ pending \subseteq Target
    /\ vinterrupt_address \in Address
    /\ vinterrupt_context_switch \in BOOLEAN
    /\ arguments \subseteq
            ({"low"} \X Low) \cup ({"high"} \X High) \cup ({"switch"} \X BOOLEAN)
    /\ stage \in {"none", "pending", "switch"}
    /\ context_switch \in BOOLEAN
    /\ at \in {"latch", "execute", "dispatch", "switch", "tick"}
    /\ scan \in Target
    /\ ie \in BOOLEAN
    /\ im \subseteq Target
    /\ ip \subseteq Target
    /\ ic \subseteq Line
    /\ rep \in BOOLEAN
    /\ shadow_im \subseteq Target
    /\ frames \in Seq(BOOLEAN)
    /\ Len(frames) <= MaxDepth
    /\ due \subseteq PeripheralIrq
    /\ owed \subseteq Target
    /\ intended \in BOOLEAN
    /\ loose \subseteq VectoredIrq
    /\ overlapped \in BOOLEAN

\* The two vinterrupt words are atomics without an initial value.
Init ==
    /\ IcuInit
    /\ pending = {}
    /\ vinterrupt_address \in Address
    /\ vinterrupt_context_switch \in BOOLEAN
    /\ arguments = {}
    /\ stage = "none"
    /\ context_switch = FALSE
    /\ at = "latch"
    /\ scan = 0
    /\ ie = FALSE
    /\ im = {} /\ ip = {} /\ ic = {}
    /\ rep = FALSE
    /\ shadow_im = {}
    /\ frames = <<>>
    /\ due = {}
    /\ owed = {}
    /\ intended = FALSE
    /\ loose = {}
    /\ overlapped = FALSE

-----------------------------------------------------------------------------
(***************************************************************************)
(* Raising IRQs, in any thread.                                            *)
(***************************************************************************)
Trigger(thread, bits) ==
    /\ TriggerEnter(thread, bits)
    /\ owed' = owed \cup {c[2] : c \in Calls(bits)}
    /\ UNCHANGED <<signalVars, intended, loose, overlapped>>

HostTrigger(bits) ==
    /\ Trigger(Cpu, bits)
    /\ UNCHANGED loopVars

SignalInterrupt ==
    \E c \in left :
        /\ NextCall(c)
        /\ c[2] # Vectored
        /\ pending' = pending \cup {c[2]}
        /\ CallReturns(c)
        /\ UNCHANGED <<vinterrupt_address, vinterrupt_context_switch, arguments, stage,
                       context_switch, loopVars, historyVars>>

(***************************************************************************)
(* The arguments of SignalVectoredInterrupt are three words of the vector  *)
(* registers.  No lock orders their reads against the firmware's writes,   *)
(* and C++ leaves the order of the reads open.                             *)
(***************************************************************************)
ReadArgument(name) ==
    \E c \in left :
        /\ NextCall(c)
        /\ c[2] = Vectored
        /\ stage = "none"
        /\ \A word \in arguments : word[1] # name
        /\ arguments' = arguments \cup {<<name, VectorWord(name, c[1])>>}
        /\ UNCHANGED <<icuVars, pending, vinterrupt_address, vinterrupt_context_switch,
                       stage, context_switch, loopVars, historyVars>>

\* SignalVectoredInterrupt stores three atomics one after the other.
StoreAddress ==
    \E low \in Low, high \in High, switch \in BOOLEAN :
        /\ arguments = {<<"low", low>>, <<"high", high>>, <<"switch", switch>>}
        /\ arguments' = {}
        /\ stage' = "pending"
        /\ vinterrupt_address' = GetVector(low, high)
        /\ context_switch' = switch
        /\ overlapped' = (overlapped \/ at = "switch")
        /\ UNCHANGED <<icuVars, pending, vinterrupt_context_switch, loopVars, owed,
                       intended, loose>>

StorePending ==
    /\ stage = "pending"
    /\ stage' = "switch"
    /\ pending' = pending \cup {Vectored}
    /\ UNCHANGED <<icuVars, vinterrupt_address, vinterrupt_context_switch, arguments,
                   context_switch, loopVars, historyVars>>

StoreSwitchForgets ==
    \E c \in left :
        /\ NextCall(c)
        /\ stage = "switch"
        /\ stage' = "none"
        /\ CallReturns(c)
        /\ UNCHANGED <<pending, vinterrupt_address, vinterrupt_context_switch,
                       arguments, context_switch, loopVars, historyVars>>

StoreSwitch ==
    \E c \in left :
        /\ NextCall(c)
        /\ stage = "switch"
        /\ stage' = "none"
        /\ vinterrupt_context_switch' = context_switch
        /\ CallReturns(c)
        /\ UNCHANGED <<pending, vinterrupt_address, arguments, context_switch,
                       loopVars, historyVars>>

TriggerReturns ==
    /\ \E thread \in Thread : TriggerLeave(thread)
    /\ UNCHANGED <<signalVars, loopVars, historyVars>>

IcuStep ==
    \/ SignalInterrupt
    \/ \E name \in {"low", "high", "switch"} : ReadArgument(name)
    \/ StoreAddress \/ StorePending \/ StoreSwitch
    \/ TriggerReturns

-----------------------------------------------------------------------------
(***************************************************************************)
(* The run loop.  The exchanges of the pending flags are atomic one by one.*)
(***************************************************************************)
LatchedOverwrites == IF scan \in pending THEN ip \cup {scan} ELSE ip \ {scan}
Latched == IF scan \in pending THEN ip \cup {scan} ELSE ip

Latch ==
    /\ at = "latch"
    /\ pending' = pending \ {scan}
    /\ ip' = Latched
    /\ IF scan = Vectored
          THEN at' = "execute" /\ UNCHANGED scan
          ELSE scan' = scan + 1 /\ UNCHANGED at
    /\ UNCHANGED <<icuVars, vinterrupt_address, vinterrupt_context_switch, arguments,
                   stage, context_switch, ie, im, ic, rep, shadow_im, frames,
                   due, historyVars>>

\* ContextStore and ContextRestore: the bank of im swaps on the way in and out.
SwapIf(switched) ==
    /\ im' = IF switched THEN shadow_im ELSE im
    /\ shadow_im' = IF switched THEN im ELSE shadow_im

(***************************************************************************)
(* Instructions.  rep is cleared when the count (abstracted) runs out,     *)
(* before the instruction it repeats is executed for the last time.        *)
(***************************************************************************)
RepCount == rep' \in IF rep THEN BOOLEAN ELSE {FALSE}

Plain == UNCHANGED <<icuVars, signalVars, ie, im, ic, shadow_im, frames, historyVars>>

SetInterruptEnable ==                                   \* eint, dint
    /\ ie' \in BOOLEAN
    /\ ie' => Len(frames) < MaxDepth
    /\ UNCHANGED <<icuVars, signalVars, im, ic, shadow_im, frames, historyVars>>

WriteMod3 ==                                            \* mov to mod3
    /\ ie' \in BOOLEAN
    /\ ie' => Len(frames) < MaxDepth
    /\ im' \in Masks
    /\ ic' \in Switches
    /\ UNCHANGED <<icuVars, signalVars, shadow_im, frames, historyVars>>

Return ==                                               \* reti, retic
    /\ frames # <<>>
    /\ ~rep
    /\ frames' = Tail(frames)
    /\ ie' = TRUE
    /\ SwapIf(Head(frames))
    /\ UNCHANGED <<icuVars, signalVars, ic, historyVars>>

\* MMIO writes to the ICU, in any order: a vector may change while its IRQ is
\* connected and while another thread is inside Trigger.
WriteIcu ==
    /\ \/ /\ \/ \E bits \in SUBSET Irq : Acknowledge(bits)
             \/ \E i \in Line, bits \in SUBSET Irq : SetEnable(i, bits)
          /\ UNCHANGED loose
       \/ \E bits \in SUBSET VectoredIrq :
            SetEnableVectored(bits) /\ loose' = loose \cap bits
       \/ \E irq \in VectoredIrq :
            SetVector(irq) /\ loose' = loose \cup ({irq} \cap vectored_enabled)
    /\ UNCHANGED <<signalVars, ie, im, ic, shadow_im, frames, owed, intended,
                   overlapped>>

SoftTrigger ==
    /\ \E bits \in SUBSET SoftIrq : Trigger(Dsp, bits)
    /\ UNCHANGED <<ie, im, ic, shadow_im, frames>>

Instruction ==
    \/ Plain \/ SetInterruptEnable \/ WriteMod3 \/ Return \/ WriteIcu \/ SoftTrigger

Execute ==
    /\ at = "execute"
    /\ at' = "dispatch"
    /\ RepCount
    /\ Instruction
    /\ UNCHANGED <<scan, ip, due>>

\* The rep instruction itself: no dispatch until its count has run out.
Repeat ==
    /\ at = "execute"
    /\ ~rep
    /\ at' = "dispatch"
    /\ rep' = TRUE
    /\ UNCHANGED <<icuVars, signalVars, scan, ie, im, ip, ic, shadow_im, frames, due, historyVars>>

(***************************************************************************)
(* Dispatch.  A Trigger made by the instruction has returned by then.      *)
(***************************************************************************)
AtDispatch == at = "dispatch" /\ mutex # Dsp

Ready == IF ie /\ ~rep THEN im \cap ip ELSE {}

Enter(switched) ==
    /\ frames' = <<switched>> \o frames
    /\ SwapIf(switched)

LeaveInterruptsOpen == UNCHANGED ie
DisableInterrupts == ie' = FALSE

\* core_timing.Tick() follows: any of the peripherals may fire in it.
BeginTick ==
    /\ at' = "tick"
    /\ due' \in SUBSET PeripheralIrq

NoDispatch ==
    /\ AtDispatch
    /\ Ready = {}
    /\ BeginTick
    /\ UNCHANGED <<icuVars, signalVars, scan, ie, im, ip, ic, rep, shadow_im,
                   frames, historyVars>>

Dispatch(t) ==
    /\ AtDispatch
    /\ t \in Ready \cap Line
    /\ \A u \in Ready : t <= u
    /\ ip' = ip \ {t}
    /\ DisableInterrupts
    /\ Enter(t \in ic)
    /\ owed' = owed \ {t}
    /\ BeginTick
    /\ UNCHANGED <<icuVars, signalVars, scan, ic, rep, intended, loose,
                   overlapped>>

\* The vectored dispatch reads two atomics: first the address ...
DispatchVectored ==
    /\ AtDispatch
    /\ Ready = {Vectored}
    /\ ip' = ip \ {Vectored}
    /\ DisableInterrupts
    /\ owed' = owed \ {Vectored}
    /\ intended' = context_switch
    /\ overlapped' = (stage # "none")
    /\ at' = "switch"
    /\ UNCHANGED <<icuVars, signalVars, scan, im, ic, rep, shadow_im, frames, due,
                   loose>>

\* ... then whether to switch contexts.
SwitchContext ==
    /\ at = "switch"
    /\ Enter(vinterrupt_context_switch)
    /\ intended' = FALSE
    /\ overlapped' = FALSE
    /\ BeginTick
    /\ UNCHANGED <<icuVars, signalVars, scan, ie, ip, ic, rep, owed, loose>>

PeripheralFires ==
    /\ at = "tick"
    /\ \E irq \in due :
        /\ Trigger(Dsp, {irq})
        /\ due' = due \ {irq}
    /\ UNCHANGED <<at, scan, ie, im, ip, ic, rep, shadow_im, frames>>

EndTickLateScan ==
    /\ at = "tick"
    /\ mutex # Dsp
    /\ due = {}
    /\ at' = "latch"
    /\ scan' = 1
    /\ UNCHANGED <<icuVars, signalVars, ie, im, ip, ic, rep, shadow_im, frames, due, historyVars>>

EndTick ==
    /\ at = "tick"
    /\ mutex # Dsp
    /\ due = {}
    /\ at' = "latch"
    /\ scan' = 0
    /\ UNCHANGED <<icuVars, signalVars, ie, im, ip, ic, rep, shadow_im, frames, due, historyVars>>

RunLoop ==
    \/ Latch \/ Execute \/ Repeat
    \/ NoDispatch \/ (\E t \in Line : Dispatch(t)) \/ DispatchVectored \/ SwitchContext
    \/ PeripheralFires \/ EndTick

Next ==
    \/ \E irq \in HostIrq : HostTrigger({irq})
    \/ IcuStep
    \/ RunLoop

(***************************************************************************)
(* Fairness: the host keeps calling Run, so the loop keeps stepping, and a *)
(* thread inside Trigger gets to finish it.  Nobody has to raise an IRQ.   *)
(***************************************************************************)
Spec == Init /\ [][Next]_vars /\ WF_vars(RunLoop) /\ WF_vars(IcuStep)

-----------------------------------------------------------------------------
(***************************************************************************)
(* Properties                                                              *)
(***************************************************************************)
Pipeline == {c[2] : c \in left} \cup pending \cup ip

\* No interrupt is lost on the way from Trigger to the dispatch: a target that
\* was called and not dispatched since is still being called, or its pending
\* flag is set, or its ip bit is.  The loop exchanges the flags while other
\* threads set them, and ip may already be set when a flag is latched.
NoLostInterrupt == owed \subseteq Pipeline

\* Trigger takes a vector that its IRQ has as a whole, although it reads the words
\* one by one without a lock, if the firmware disconnects the IRQ before it writes
\* the vector: disconnecting waits for a Trigger in progress.  A Trigger of the
\* DSP thread itself needs no such care.
VectorsWhole ==
    \A c \in left :
        NextCall(c) /\ (c[1] \notin loose \/ mutex = Dsp) =>
            \A word \in arguments : word[2] = VectorWord(word[1], c[1])

\* A vectored interrupt makes the context switch of the very call whose address
\* it goes to.
VectoredCallIntact ==
    [][SwitchContext => vinterrupt_context_switch = intended]_vars

\* It does unless a call of another thread stores its words while the dispatch
\* reads them: a call that has returned, or has not begun to store, cannot be
\* taken in part, however many calls came before it.
IntactAlone ==
    [][SwitchContext /\ ~overlapped => vinterrupt_context_switch = intended]_vars

\* Target t would be dispatched now, were its ip bit set.
OpenFor(t) ==
    /\ at = "dispatch" /\ mutex # Dsp
    /\ ie /\ ~rep
    /\ t \in im
    /\ \A u \in im \cap ip : t <= u

\* A target that was called is dispatched in the end, if the firmware is again
\* and again open for it: the call is delivered, latched and not forgotten.
InterruptsTaken ==
    \A t \in Target : []<>OpenFor(t) => (t \in owed ~> t \notin owed)
=============================================================================
