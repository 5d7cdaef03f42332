-------------------------------- MODULE Apbp --------------------------------
(***************************************************************************)
(* One direction of the APBP (src/src/apbp.cpp): three data channels and a *)
(* semaphore from a sender thread to a receiver thread.  Every operation   *)
(* is one critical section, except the two that call a handler: Send calls *)
(* it after its critical section, SetSemaphore in the middle of it.        *)
(*                                                                         *)
(* The semaphore mutex is held across steps only by the sender inside      *)
(* SetSemaphore, so it needs no variable: it is free when setting is idle. *)
(* It is recursive: the handler that SetSemaphore calls may clear and mask *)
(* as well as another thread that has waited for the mutex, so those two   *)
(* operations have no guard here; their callers say which of them they are.*)
(***************************************************************************)
EXTENDS Naturals, FiniteSets

CONSTANTS
    Channel,        \* the data channels, 0..2 in the code
    Word,           \* the words sent
    Zero,           \* the value of data after Reset
    Bit             \* the semaphore bits in use

ASSUME ApbpAssumption == Zero \in Word

VARIABLES
    ready, data, disable_interrupt,                     \* per channel
    semaphore, semaphore_mask, semaphore_master_signal,
    notify,         \* the channel whose Send still has to call its handler
    setting,        \* where the sender is in SetSemaphore
    new_signal      \* its local variable

channelVars   == <<ready, data, disable_interrupt, notify>>
semaphoreVars == <<semaphore, semaphore_mask, semaphore_master_signal, setting,
                   new_signal>>
apbpVars == <<channelVars, semaphoreVars>>

ApbpTypeOK ==
    /\ ready \in [Channel -> BOOLEAN]
    /\ data \in [Channel -> Word]
    /\ disable_interrupt \in [Channel -> BOOLEAN]
    /\ semaphore \subseteq Bit
    /\ semaphore_mask \subseteq Bit
    /\ semaphore_master_signal \in BOOLEAN
    /\ notify \subseteq Channel
    /\ setting \in {"idle", "handler", "update"}
    /\ new_signal \in BOOLEAN

ApbpInit ==
    /\ ready = [c \in Channel |-> FALSE]
    /\ data = [c \in Channel |-> Zero]
    /\ disable_interrupt = [c \in Channel |-> FALSE]
    /\ semaphore = {}
    /\ semaphore_mask = {}
    /\ semaphore_master_signal = FALSE
    /\ notify = {}
    /\ setting = "idle"
    /\ new_signal = FALSE

SenderIdle == notify = {} /\ setting = "idle"

-----------------------------------------------------------------------------
(***************************************************************************)
(* Data channels.  disable_interrupt is written without the channel's lock.*)
(***************************************************************************)
SendSwapped(c, word) ==
    /\ SenderIdle
    /\ ready' = [ready EXCEPT ![c] = TRUE]
    /\ data' = [data EXCEPT ![c] = c]
    /\ notify' = IF disable_interrupt[c] THEN {} ELSE {c}
    /\ UNCHANGED <<disable_interrupt, semaphoreVars>>

Send(c, word) ==
    /\ SenderIdle
    /\ ready' = [ready EXCEPT ![c] = TRUE]
    /\ data' = [data EXCEPT ![c] = word]
    /\ notify' = IF disable_interrupt[c] THEN {} ELSE {c}
    /\ UNCHANGED <<disable_interrupt, semaphoreVars>>

CallHandler(c) ==
    /\ c \in notify
    /\ notify' = notify \ {c}
    /\ UNCHANGED <<ready, data, disable_interrupt, semaphoreVars>>

IsReadyByWord(c) == data[c] # Zero
IsReady(c) == ready[c]

RecvKeepsReady(c) == c \in Channel /\ UNCHANGED apbpVars

Recv(c) ==
    /\ ready' = [ready EXCEPT ![c] = FALSE]
    /\ UNCHANGED <<data, disable_interrupt, notify, semaphoreVars>>

SetDisableInterrupt(c, v) ==
    /\ disable_interrupt' = [disable_interrupt EXCEPT ![c] = v]
    /\ UNCHANGED <<ready, data, notify, semaphoreVars>>

-----------------------------------------------------------------------------
(***************************************************************************)
(* Semaphore                                                               *)
(***************************************************************************)
Signal(bits, mask) == bits \ mask # {}

\* Lock, set the bits, decide whether to call the handler.
SetSemaphore(bits) ==
    /\ SenderIdle
    /\ semaphore' = semaphore \cup bits
    /\ new_signal' = Signal(semaphore', semaphore_mask)
    /\ setting' = IF new_signal' THEN "handler" ELSE "update"
    /\ UNCHANGED <<semaphore_mask, semaphore_master_signal, channelVars>>

\* The handler has returned.
HandlerReturns ==
    /\ setting = "handler"
    /\ setting' = "update"
    /\ UNCHANGED <<semaphore, semaphore_mask, semaphore_master_signal, new_signal,
                   channelVars>>

UpdateSignalOverwrites ==
    /\ setting = "update"
    /\ semaphore_master_signal' = FALSE
    /\ setting' = "idle"
    /\ new_signal' = FALSE
    /\ UNCHANGED <<semaphore, semaphore_mask, channelVars>>

\* Update the signal from the local variable and unlock.
UpdateSignal ==
    /\ setting = "update"
    /\ semaphore_master_signal' = (semaphore_master_signal \/ new_signal)
    /\ setting' = "idle"
    /\ new_signal' = FALSE          \* a local: gone
    /\ UNCHANGED <<semaphore, semaphore_mask, channelVars>>

\* Who may use the semaphore: a thread that waits for the mutex, or the handler.
SemaphoreUnlocked == TRUE
SemaphoreFree == setting = "idle"
InHandler == setting = "handler"

ClearSemaphore(bits) ==
    /\ semaphore' = semaphore \ bits
    /\ semaphore_master_signal' = Signal(semaphore', semaphore_mask)
    /\ UNCHANGED <<semaphore_mask, setting, new_signal, channelVars>>

MaskSemaphore(bits) ==
    /\ semaphore_mask' = bits
    /\ UNCHANGED <<semaphore, semaphore_master_signal, setting, new_signal,
                   channelVars>>

\* Takes no lock, and leaves disable_interrupt as it was.
Reset ==
    /\ SenderIdle
    /\ ready' = [c \in Channel |-> FALSE]
    /\ data' = [c \in Channel |-> Zero]
    /\ semaphore' = {}
    /\ semaphore_mask' = {}
    /\ semaphore_master_signal' = FALSE
    /\ UNCHANGED <<disable_interrupt, notify, setting, new_signal>>
=============================================================================
