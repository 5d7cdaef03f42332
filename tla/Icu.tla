-------------------------------- MODULE Icu --------------------------------
(***************************************************************************)
(* The interrupt control unit (src/src/icu.h): it collects IRQs from the   *)
(* host thread and from the DSP's own peripherals, and calls the processor *)
(* for every core interrupt an IRQ is connected to.                        *)
(*                                                                         *)
(* The module has no Next: Trigger runs in whichever thread raises the     *)
(* IRQ, so its steps are conjoined with that thread's position by the      *)
(* modules that compose it (Core, HostLink).                               *)
(***************************************************************************)
EXTENDS Naturals, FiniteSets

CONSTANTS
    Irq,        \* the IRQ numbers in use, out of the code's 0..15
    Lines,      \* how many core interrupts an IRQ connects to: 3 in the code
    Thread,     \* the threads that may be inside the ICU
    Nobody,     \* not a thread: the mutex is free
    VectoredIrq,\* the IRQs the firmware ever connects to the vectored interrupt
    Low, High   \* the values of VADDR_L and VADDR_H

ASSUME IcuAssumption ==
    /\ Irq \subseteq Nat
    /\ VectoredIrq \subseteq Irq
    /\ Lines \in Nat
    /\ Nobody \notin Thread

(***************************************************************************)
(* The core interrupts are numbered as the processor ranks them: the lines *)
(* int0, int1, ... and after them the vectored interrupt.                  *)
(***************************************************************************)
Line     == 0 .. Lines - 1
Vectored == Lines
Target   == 0 .. Lines

VARIABLES
    request,                \* the IRQs raised and not acknowledged
    enabled,                \* enabled[i]: the IRQs connected to line i
    vectored_enabled,       \* the IRQs connected to the vectored interrupt
    vector_low, vector_high,\* the handler of an IRQ in two halves, not locked
    vector_context_switch,  \* its context switch bit, not locked
    mutex,                  \* who holds the ICU's mutex
    left                    \* the <<irq, target>> calls Trigger still makes

vectorVars == <<vector_low, vector_high, vector_context_switch>>
icuVars == <<request, enabled, vectored_enabled, vectorVars, mutex, left>>

IcuTypeOK ==
    /\ request \subseteq Irq
    /\ enabled \in [Line -> SUBSET Irq]
    /\ vectored_enabled \subseteq VectoredIrq
    /\ vector_low \in [VectoredIrq -> Low]
    /\ vector_high \in [VectoredIrq -> High]
    /\ vector_context_switch \in [VectoredIrq -> BOOLEAN]
    /\ mutex \in Thread \cup {Nobody}
    /\ left \subseteq Irq \X Target

(***************************************************************************)
(* The bitsets start out clear.  The vector registers are never            *)
(* initialised, so any value may be found in them; those of an IRQ that is *)
(* never connected to the vectored interrupt are never read.               *)
(***************************************************************************)
IcuInit ==
    /\ request = {}
    /\ enabled = [i \in Line |-> {}]
    /\ vectored_enabled = {}
    /\ vector_low \in [VectoredIrq -> Low]
    /\ vector_high \in [VectoredIrq -> High]
    /\ vector_context_switch \in [VectoredIrq -> BOOLEAN]
    /\ mutex = Nobody
    /\ left = {}

Connected(irq, target) ==
    IF target = Vectored THEN irq \in vectored_enabled ELSE irq \in enabled[target]

Calls(bits) == {c \in bits \X Target : Connected(c[1], c[2])}

\* IRQs in ascending order, and for each of them the lines before the vector.
Before(c, d) == c[1] < d[1] \/ (c[1] = d[1] /\ c[2] < d[2])

NextCall(c) == c \in left /\ \A d \in left : d # c => Before(c, d)

\* The address of a handler, from its two halves, and the words that describe it.
Address == Low \X High
GetVector(low, high) == <<low, high>>

VectorWord(name, irq) ==
    CASE name = "low"    -> vector_low[irq]
      [] name = "high"   -> vector_high[irq]
      [] name = "switch" -> vector_context_switch[irq]

(***************************************************************************)
(* Trigger: the request bits are set and the calls worked out under the    *)
(* mutex, which is held until the last call has returned.  enabled and     *)
(* vectored_enabled cannot change meanwhile: their setters take the mutex. *)
(***************************************************************************)
TriggerEnter(thread, bits) ==
    /\ mutex = Nobody
    /\ mutex' = thread
    /\ request' = request \cup bits
    /\ left' = Calls(bits)
    /\ UNCHANGED <<enabled, vectored_enabled, vectorVars>>

\* A call to the processor has returned.
CallReturns(c) ==
    /\ left' = left \ {c}
    /\ UNCHANGED <<request, enabled, vectored_enabled, vectorVars, mutex>>

TriggerLeaveKeepsMutex(thread) ==
    /\ mutex = thread
    /\ left = {}
    /\ UNCHANGED icuVars

TriggerLeave(thread) ==
    /\ mutex = thread
    /\ left = {}
    /\ mutex' = Nobody
    /\ UNCHANGED <<request, enabled, vectored_enabled, vectorVars, left>>

Acknowledge(bits) ==
    /\ mutex = Nobody
    /\ request' = request \ bits
    /\ UNCHANGED <<enabled, vectored_enabled, vectorVars, mutex, left>>

SetEnable(i, bits) ==
    /\ mutex = Nobody
    /\ enabled' = [enabled EXCEPT ![i] = bits]
    /\ UNCHANGED <<request, vectored_enabled, vectorVars, mutex, left>>

SetEnableVectoredUnlocked(bits) ==
    /\ vectored_enabled' = bits
    /\ UNCHANGED <<request, enabled, vectorVars, mutex, left>>

SetEnableVectored(bits) ==
    /\ mutex = Nobody
    /\ vectored_enabled' = bits
    /\ UNCHANGED <<request, enabled, vectorVars, mutex, left>>

(***************************************************************************)
(* The vector registers are plain MMIO cells: no mutex, and no regard to   *)
(* whether the IRQ is connected.  The high half shares its cell with the   *)
(* context switch bit; the cell sets the two one after the other, which    *)
(* shows a reader that fetches each word by itself, in any order, nothing  *)
(* that setting them in one step does not.                                 *)
(***************************************************************************)
SetVectorHigh(irq, high, switch) ==
    /\ vector_high' = [vector_high EXCEPT ![irq] = high]
    /\ vector_context_switch' = [vector_context_switch EXCEPT ![irq] = switch]
    /\ UNCHANGED <<request, enabled, vectored_enabled, vector_low, mutex, left>>

SetVectorLow(irq, low) ==
    /\ vector_low' = [vector_low EXCEPT ![irq] = low]
    /\ UNCHANGED <<request, enabled, vectored_enabled, vector_high,
                   vector_context_switch, mutex, left>>

SetVector(irq) ==
    \/ \E low \in Low : SetVectorLow(irq, low)
    \/ \E high \in High, switch \in BOOLEAN : SetVectorHigh(irq, high, switch)
=============================================================================
