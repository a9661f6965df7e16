------------------------------ MODULE Receipts ------------------------------
(***************************************************************************)
(* Delivery receipts: Meta reports the progress of a sent message by       *)
(* webhook, and the row that has the message's id is marked                *)
(* (whatsapp/meta-cloud.provider.ts, webhook/webhook.service.ts,           *)
(* queue/processors.service.ts).                                           *)
(*                                                                         *)
(* The row learns the id only after Meta has accepted the message, a retry *)
(* sends another copy under another id, and receipts come in any order and *)
(* more than once.  A body's receipts are applied one by one, each by a    *)
(* query of its own, as if they had come in bodies of their own.           *)
(***************************************************************************)
EXTENDS Integers, Sequences

CONSTANTS Message,     \* outbound Message rows
          MaxCopies,   \* bound: copies Meta accepts
          MaxRepeats   \* bound: receipts Meta posts again

ASSUME ReceiptsAssumption == MaxCopies \in Nat /\ MaxRepeats \in Nat

VARIABLES
    copies,       \* messages Meta has accepted: copy (its wamid) -> row
    progress,     \* copy -> the last status Meta has given it
    sending,      \* row -> the copy whose id the worker has yet to store, or 0
    waMessageId,  \* row -> its copy, or 0
    isRead,       \* row -> marked
    receipts,     \* receipts on their way: copy and status
    repeats,      \* receipts posted again
    missed        \* history: copies whose delivery marked no row, or was followed
                  \* by an older receipt

receiptVars ==
    <<copies, progress, sending, waMessageId, isRead, receipts, repeats, missed>>

ReceiptsInit ==
    /\ copies = <<>> /\ progress = <<>>
    /\ sending = [m \in Message |-> 0] /\ waMessageId = [m \in Message |-> 0]
    /\ isRead = [m \in Message |-> FALSE]
    /\ receipts = {} /\ repeats = 0 /\ missed = {}

-----------------------------------------------------------------------------
(* The worker. *)

\* sendText is answered with an id; a retry does not look for an earlier one.
AcceptCopy(m) ==
    /\ sending[m] = 0 /\ Len(copies) < MaxCopies
    /\ copies' = Append(copies, m) /\ progress' = Append(progress, "accepted")
    /\ sending' = [sending EXCEPT ![m] = Len(copies) + 1]
    /\ UNCHANGED <<waMessageId, isRead, receipts, repeats, missed>>

StoreId(m) ==
    /\ sending[m] # 0
    /\ waMessageId' = [waMessageId EXCEPT ![m] = sending[m]]
    /\ sending' = [sending EXCEPT ![m] = 0]
    /\ UNCHANGED <<copies, progress, isRead, receipts, repeats, missed>>

\* The answer or the update is lost, or the process dies: the id is not stored.
IdLost(m) ==
    /\ sending[m] # 0
    /\ sending' = [sending EXCEPT ![m] = 0]
    /\ UNCHANGED <<copies, progress, waMessageId, isRead, receipts, repeats, missed>>

-----------------------------------------------------------------------------
(* Meta. *)

Following ==
    [accepted |-> {"sent"}, sent |-> {"delivered", "failed"}, delivered |-> {"read"},
     read |-> {}, failed |-> {}]

MetaReports(c, s) ==
    /\ s \in Following[progress[c]]
    /\ progress' = [progress EXCEPT ![c] = s]
    /\ receipts' = receipts \cup {[id |-> c, status |-> s]}
    /\ UNCHANGED <<copies, sending, waMessageId, isRead, repeats, missed>>

-----------------------------------------------------------------------------
(* WebhookController.handle. *)

\* A body comes, and comes again if Meta does not hear that it was handled.
Arrives(receipt) ==
    /\ receipt \in receipts
    /\ \/ receipts' = receipts \ {receipt} /\ UNCHANGED repeats
       \/ repeats < MaxRepeats /\ repeats' = repeats + 1 /\ UNCHANGED receipts
    /\ UNCHANGED <<copies, progress, sending, waMessageId>>

\* As if any receipt but a failure marked the row.
MarksUnlessFailed(status) == status # "failed"

MarksRead(status) == status \in {"read", "delivered"}

Target(receipt) == {m \in Message : waMessageId[m] = receipt.id}

\* parseWebhook and updateMany: the rows with this id, if any, are marked.
ApplyReceipt(receipt) ==
    LET marks == MarksRead(receipt.status) IN
    /\ Arrives(receipt)
    /\ isRead' = [m \in Message |-> IF m \in Target(receipt) THEN marks ELSE isRead[m]]
    /\ missed' = IF \/ marks /\ Target(receipt) = {}
                    \/ ~marks /\ \E m \in Target(receipt) : isRead[m]
                 THEN missed \cup {receipt.id} ELSE missed

\* The query's error is swallowed.
ReceiptFails(receipt) ==
    /\ Arrives(receipt)
    /\ missed' = IF MarksRead(receipt.status) THEN missed \cup {receipt.id} ELSE missed
    /\ UNCHANGED isRead

ReceiptsNext ==
    \/ \E m \in Message : AcceptCopy(m) \/ StoreId(m) \/ IdLost(m)
    \/ \E c \in DOMAIN copies, s \in {"sent", "delivered", "read", "failed"} : MetaReports(c, s)
    \/ \E receipt \in receipts : ApplyReceipt(receipt) \/ ReceiptFails(receipt)

ReceiptsSpec == ReceiptsInit /\ [][ReceiptsNext]_receiptVars

-----------------------------------------------------------------------------

Reported(c) == progress[c] \in {"delivered", "read"}
Coming(c) == \E receipt \in receipts : receipt.id = c

(* A row is marked only if Meta has delivered a copy of that very message; *)
(* and when Meta has delivered the copy whose id the row has, the row is   *)
(* marked, or a receipt is still to come, or the one of its delivery came  *)
(* before the row had the id, failed, or was followed by an older one      *)
(* (handleParsedEvents, parseWebhook, the update after sendOutbound).      *)
ReceiptsApplied ==
    \A m \in Message :
        /\ isRead[m] => \E c \in DOMAIN copies : copies[c] = m /\ Reported(c)
        /\ waMessageId[m] # 0 /\ Reported(waMessageId[m]) /\ ~isRead[m] =>
               Coming(waMessageId[m]) \/ waMessageId[m] \in missed
=============================================================================
