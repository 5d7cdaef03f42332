---------------------------- MODULE ApbpSemaphore ----------------------------
(***************************************************************************)
(* The semaphore of one APBP direction by itself: a sender that sets bits, *)
(* a receiver that clears and masks them, and the master signal S that the *)
(* receiver reads in the status register.                                  *)
(*                                                                         *)
(* From the CPU to the DSP the handler only raises an IRQ, and the         *)
(* receiver is the other thread.  From the DSP to the CPU the handler is   *)
(* the host's own and runs in the sender's thread: it may clear and mask   *)
(* through the recursive mutex, in the middle of SetSemaphore.             *)
(***************************************************************************)
EXTENDS Apbp

VARIABLES
    stale,      \* history: the mask was written since S was computed
    overtaken   \* history: the handler has cleared inside SetSemaphore, and
                \* nobody outside it since

semVars == <<apbpVars, stale, overtaken>>

SemInit == ApbpInit /\ stale = FALSE /\ overtaken = FALSE

SetBits ==
    /\ \E bits \in SUBSET Bit : SetSemaphore(bits)
    /\ UNCHANGED <<stale, overtaken>>

Finish ==
    /\ HandlerReturns \/ UpdateSignal
    /\ UNCHANGED <<stale, overtaken>>

ClearBits ==
    /\ SemaphoreFree
    /\ \E bits \in SUBSET Bit : ClearSemaphore(bits)
    /\ stale' = FALSE
    /\ overtaken' = FALSE

WriteMask ==
    /\ SemaphoreFree
    /\ \E bits \in SUBSET Bit : MaskSemaphore(bits)
    /\ stale' = TRUE
    /\ UNCHANGED overtaken

HandlerClears ==
    /\ InHandler
    /\ \E bits \in SUBSET Bit : ClearSemaphore(bits)
    /\ stale' = FALSE
    /\ overtaken' = TRUE

HandlerMasks ==
    /\ InHandler
    /\ \E bits \in SUBSET Bit : MaskSemaphore(bits)
    /\ stale' = TRUE
    /\ UNCHANGED overtaken

SemNext == SetBits \/ Finish \/ ClearBits \/ WriteMask \/ HandlerClears \/ HandlerMasks

ForgetHistory == stale' = FALSE /\ overtaken' = FALSE

SemSpec ==
    SemInit /\ [][SemNext \/ (Reset /\ ForgetHistory)]_semVars /\ WF_semVars(Finish)

-----------------------------------------------------------------------------
\* S as the documentation computes it: GET_SEMAPHORE & ~MASK_SEMAPHORE non-zero.
S == Signal(semaphore, semaphore_mask)

\* Between operations the master signal is never silent about an unmasked bit, as
\* long as the mask was not written after the last clear; and it signals nothing
\* else, unless a handler has cleared bits while SetSemaphore held the signal it
\* computed before: setting merges, clearing recomputes, in any order and nesting.
SignalExact ==
    setting = "idle" /\ ~stale =>
        /\ S => semaphore_master_signal
        /\ semaphore_master_signal => S \/ overtaken

\* What apbp.md says of the mask: a change of it shows in S immediately.  Read
\* while no handler has cleared in between, so that only the mask is in question.
SignalFollowsMask ==
    setting = "idle" /\ ~overtaken => semaphore_master_signal = S

\* What apbp.md says S is: without a bit in the semaphore, masked or not, it is 0.
SignalHasBits == setting = "idle" /\ semaphore_master_signal => semaphore # {}
=============================================================================
