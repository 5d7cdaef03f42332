---------------------------- MODULE ApbpDirection ----------------------------
(***************************************************************************)
(* A whole APBP direction: the same sender polls data channels and sets    *)
(* semaphore bits, the same receiver reads words, clears and masks.  The   *)
(* sender is inside one call at a time, so a semaphore handler that takes  *)
(* its time holds back the next word, and a data handler the next bit.     *)
(* Between two calls everything may be reset.                              *)
(***************************************************************************)
EXTENDS ApbpPolling, ApbpSemaphore

directionVars == <<pollingVars, stale, overtaken>>

DirectionInit == PollingInit /\ SemInit

DirectionNext ==
    \/ PollingNext /\ UNCHANGED <<stale, overtaken>>
    \/ SemNext /\ UNCHANGED <<sending, receiving, sent, received>>
    \/ PollingReset /\ ForgetHistory

\* The receiver polls every channel again and again, and a call of the sender
\* that has begun goes on; the sender need not send.
DirectionSpec ==
    /\ DirectionInit /\ [][DirectionNext]_directionVars
    /\ WF_directionVars(Finish /\ UNCHANGED <<sending, receiving, sent, received>>)
    /\ \A c \in Channel :
        /\ SF_directionVars(FindReady(c) /\ UNCHANGED <<stale, overtaken>>)
        /\ WF_directionVars(RecvData(c) /\ UNCHANGED <<stale, overtaken>>)
=============================================================================
