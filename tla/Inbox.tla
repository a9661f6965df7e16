------------------------------- MODULE Inbox -------------------------------
(***************************************************************************)
(* What webhook ingest promises about a WhatsApp message, whatever the     *)
(* providers redeliver: it is stored at most once and handed to the        *)
(* inbound workers at most once, after it was stored.                      *)
(***************************************************************************)
EXTENDS Integers

CONSTANT Message

VARIABLES stored,  \* how many rows each message has
          queued   \* how many inbound jobs were added for it

inboxVars == <<stored, queued>>

Init ==
    /\ stored = [m \in Message |-> 0]
    /\ queued = [m \in Message |-> 0]

Store(m) ==
    /\ stored[m] = 0
    /\ stored' = [stored EXCEPT ![m] = 1]
    /\ UNCHANGED queued

Queue(m) ==
    /\ stored[m] = 1
    /\ queued[m] = 0
    /\ queued' = [queued EXCEPT ![m] = 1]
    /\ UNCHANGED stored

Next == \E m \in Message : Store(m) \/ Queue(m)

Spec == Init /\ [][Next]_inboxVars
=============================================================================
