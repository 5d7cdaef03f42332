------------------------------- MODULE Mailbox -------------------------------
(***************************************************************************)
(* What a data channel of the APBP promises to a sender that waits for     *)
(* SendDataIsEmpty and a receiver that waits for RecvDataIsReady: a box    *)
(* for one word, filled when it is empty and emptied when it is full.  A   *)
(* reset empties every box and starts the count of words over.             *)
(***************************************************************************)
EXTENDS Sequences

CONSTANTS Channel, Word, Empty

VARIABLES box, sent, received

mailboxVars == <<box, sent, received>>

MailboxInit ==
    /\ box = [c \in Channel |-> Empty]
    /\ sent = [c \in Channel |-> <<>>]
    /\ received = [c \in Channel |-> <<>>]

Put(c, word) ==
    /\ box[c] = Empty
    /\ box' = [box EXCEPT ![c] = word]
    /\ sent' = [sent EXCEPT ![c] = Append(@, word)]
    /\ UNCHANGED received

Get(c) ==
    /\ box[c] # Empty
    /\ box' = [box EXCEPT ![c] = Empty]
    /\ received' = [received EXCEPT ![c] = Append(@, box[c])]
    /\ UNCHANGED sent

EmptyAll ==
    /\ box' = [c \in Channel |-> Empty]
    /\ sent' = [c \in Channel |-> <<>>]
    /\ received' = [c \in Channel |-> <<>>]

MailboxNext ==
    \/ \E c \in Channel : Get(c) \/ \E word \in Word : Put(c, word)
    \/ EmptyAll

MailboxSafety == MailboxInit /\ [][MailboxNext]_mailboxVars

\* A full box is emptied.
MailboxSpec == MailboxSafety /\ \A c \in Channel : WF_mailboxVars(Get(c))
=============================================================================
