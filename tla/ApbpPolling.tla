----------------------------- MODULE ApbpPolling -----------------------------
(***************************************************************************)
(* A data channel used by polling, as teakra.h has its users do: the       *)
(* sender looks at SendDataIsEmpty before SendData, the receiver looks at  *)
(* RecvDataIsReady before RecvData.  Looking and acting are two critical   *)
(* sections, with the other thread free to run in between.                 *)
(***************************************************************************)
EXTENDS Apbp, Sequences

CONSTANTS
    Nothing,        \* not a channel
    Empty,          \* not a word
    MaxWords        \* bound: how many words are sent on a channel

ASSUME PollingAssumption ==
    /\ Nothing \notin Channel
    /\ Empty \notin Word
    /\ MaxWords \in Nat

VARIABLES
    sending,        \* the channel the sender found empty, or Nothing
    receiving,      \* the channel the receiver found ready, or Nothing
    sent, received  \* history: the words of each channel, in order

pollingVars == <<apbpVars, sending, receiving, sent, received>>

PollingTypeOK ==
    /\ ApbpTypeOK
    /\ sending \in Channel \cup {Nothing}
    /\ receiving \in Channel \cup {Nothing}
    /\ sent \in [Channel -> Seq(Word)]
    /\ received \in [Channel -> Seq(Word)]

PollingInit ==
    /\ ApbpInit
    /\ sending = Nothing
    /\ receiving = Nothing
    /\ sent = [c \in Channel |-> <<>>]
    /\ received = [c \in Channel |-> <<>>]

\* SendDataIsEmpty, and the SendData that follows it.
FindEmpty(c) ==
    /\ sending = Nothing
    /\ SenderIdle
    /\ Len(sent[c]) < MaxWords
    /\ ~IsReady(c)
    /\ sending' = c
    /\ UNCHANGED <<apbpVars, receiving, sent, received>>

SendData(c, word) ==
    /\ sending = c
    /\ Send(c, word)
    /\ sending' = Nothing
    /\ sent' = [sent EXCEPT ![c] = Append(@, word)]
    /\ UNCHANGED <<receiving, received>>

Notify ==
    /\ \E c \in Channel : CallHandler(c)
    /\ UNCHANGED <<sending, receiving, sent, received>>

\* RecvDataIsReady, and the RecvData that follows it.
FindReady(c) ==
    /\ receiving = Nothing
    /\ IsReady(c)
    /\ receiving' = c
    /\ UNCHANGED <<apbpVars, sending, sent, received>>

RecvData(c) ==
    /\ receiving = c
    /\ Recv(c)
    /\ received' = [received EXCEPT ![c] = Append(@, data[c])]
    /\ receiving' = Nothing
    /\ UNCHANGED <<sending, sent>>

\* The receiver turns the channel's interrupt off and on at any time.
SetInterrupt ==
    /\ \E c \in Channel, v \in BOOLEAN : SetDisableInterrupt(c, v)
    /\ UNCHANGED <<sending, receiving, sent, received>>

ReceiverStep(c) == FindReady(c) \/ RecvData(c)

PollingNext ==
    \/ \E c \in Channel :
        \/ FindEmpty(c)
        \/ \E word \in Word : SendData(c, word)
        \/ ReceiverStep(c)
    \/ Notify
    \/ SetInterrupt

\* With a reset both sides start over.
StartOver ==
    /\ sending' = Nothing
    /\ receiving' = Nothing
    /\ sent' = [c \in Channel |-> <<>>]
    /\ received' = [c \in Channel |-> <<>>]

PollingReset == Reset /\ StartOver

(***************************************************************************)
(* The receiver polls every channel again and again; the sender need not   *)
(* send.  Strong fairness, for the receiver looks at one channel at a time.*)
(***************************************************************************)
PollingSafety == PollingInit /\ [][PollingNext \/ PollingReset]_pollingVars
PollingSpec ==
    PollingSafety /\ \A c \in Channel :
        SF_pollingVars(FindReady(c)) /\ WF_pollingVars(RecvData(c))

-----------------------------------------------------------------------------
M == INSTANCE Mailbox WITH box <- [c \in Channel |-> IF ready[c] THEN data[c] ELSE Empty]

\* Used by polling, a channel is a one-place mailbox: words arrive once each, in
\* order and unchanged, and every word is received, unless a reset drops it.
ImplementsMailbox == M!MailboxSpec

\* What one side found out is still so when it acts on it: a channel found empty
\* stays empty until the sender writes it, one found ready stays ready.
FoundStaysTrue ==
    /\ sending # Nothing => ~ready[sending]
    /\ receiving # Nothing => ready[receiving]
=============================================================================
