------------------------------- MODULE Ingest -------------------------------
(***************************************************************************)
(* Webhook ingest: WebhookService.handleParsedEvents and ingestInbound     *)
(* (webhook/webhook.service.ts) for one WhatsApp number, with the agents   *)
(* who resolve and assign conversations meanwhile                          *)
(* (conversation/conversation.service.ts) and the campaign worker, which   *)
(* opens conversations of its own (queue/processors.service.ts).           *)
(*                                                                         *)
(* A request is one webhook delivery.  Its messages are ingested one after *)
(* the other, every query of one message is an action, and requests        *)
(* interleave between any two of them.  Any query may throw; what a        *)
(* message throws is logged and swallowed, so the provider sees a success. *)
(* Providers deliver at least once, in any grouping and order.             *)
(***************************************************************************)
EXTENDS Integers, Sequences, FiniteSets

CONSTANTS Request,        \* deliveries that may be handled at the same time
          Msg,            \* inbound WhatsApp messages
          Anonymous,      \* those that carry no WhatsApp id
          Ignored,        \* those to an unknown number, or without a sender
          Phone,          \* senders
          NoPhone,        \* the contact of a slot that opens nothing
          Imported,       \* senders with a contact row from the start
          Campaigner,     \* the slots of the campaign worker
          From,           \* Msg -> Phone
          Batch,          \* the sequences of messages a delivery may carry
          MaxDeliveries,  \* bound: deliveries by the provider
          MaxConvs,       \* bound: conversation rows
          MaxReopens      \* bound: resolved conversations that are reopened

ASSUME IngestAssumption ==
    /\ IsFiniteSet(Request)
    /\ IsFiniteSet(Campaigner)
    /\ Anonymous \subseteq Msg /\ Ignored \subseteq Msg
    /\ Imported \subseteq Phone /\ NoPhone \notin Phone
    /\ From \in [Msg -> Phone]
    /\ Batch \subseteq Seq(Msg) \ {<<>>}
    /\ MaxDeliveries \in Nat /\ MaxConvs \in Nat /\ MaxReopens \in Nat

VARIABLES
    contacts,    \* phones with a contact row
    convs,       \* conversation rows in the order of their creation
    stored,      \* rows of each message
    queued,      \* inbound jobs added for each message (jobId msg-<row id>)
    step,        \* where each request is
    todo,        \* the messages it has not finished
    found,       \* the conversation it works with; 0 when it found none
    opening,     \* the contact each campaign slot is to open one for
    failed,      \* history: messages an attempt of which failed before its row
    lost,        \* history: messages whose attempt failed after their row
    deliveries, reopened

rowVars  == <<contacts, convs, stored, queued>>
reqVars  == <<step, todo, found>>
histVars == <<failed, lost, deliveries, reopened>>
vars     == <<rowVars, reqVars, histVars, opening>>

Conversation == [phone : Phone, resolved : BOOLEAN]

Step == {"idle", "updates", "find", "contact", "conversation", "create",
         "store", "touch", "enqueue"}

TypeOK ==
    /\ contacts \subseteq Phone
    /\ convs \in Seq(Conversation)
    /\ stored \in [Msg -> Nat]
    /\ queued \in [Msg -> Nat]
    /\ step \in [Request -> Step]
    /\ todo \in [Request -> Seq(Msg)]
    /\ \A r \in Request : step[r] # "idle" => todo[r] # <<>>
    /\ found \in [Request -> 0 .. Len(convs)]
    /\ opening \in [Campaigner -> Phone \cup {NoPhone}]
    /\ failed \subseteq Msg /\ lost \subseteq Msg
    /\ deliveries \in Nat
    /\ reopened \in [Phone -> Nat]

Init ==
    /\ contacts = Imported
    /\ convs = <<>>
    /\ stored = [m \in Msg |-> 0]
    /\ queued = [m \in Msg |-> 0]
    /\ step = [r \in Request |-> "idle"]
    /\ todo = [r \in Request |-> <<>>]
    /\ found = [r \in Request |-> 0]
    /\ opening = [k \in Campaigner |-> NoPhone]
    /\ failed = {} /\ lost = {}
    /\ deliveries = 0
    /\ reopened = [p \in Phone |-> 0]

Goto(r, s) == step' = [step EXCEPT ![r] = s]

Current(r) == Head(todo[r])
Sender(r)  == From[Current(r)]

Of(p)   == {c \in DOMAIN convs : convs[c].phone = p}
Open(p) == {c \in Of(p) : ~convs[c].resolved}

\* The loop goes on with the next message of the delivery, or answers it.
NextMessage(r) ==
    /\ todo' = [todo EXCEPT ![r] = Tail(@)]
    /\ Goto(r, IF Len(todo[r]) = 1 THEN "idle" ELSE "find")
    /\ found' = [found EXCEPT ![r] = 0]

AbortBatch(r) ==
    /\ todo' = [todo EXCEPT ![r] = <<>>]
    /\ Goto(r, "idle")
    /\ found' = [found EXCEPT ![r] = 0]

\* A message throws: handleParsedEvents logs it and goes on.
SwallowEndsBatch(r) ==
    /\ AbortBatch(r)
    /\ failed' = failed \cup {Current(r)}
    /\ UNCHANGED <<rowVars, lost, deliveries, reopened>>

Swallow(r) ==
    /\ NextMessage(r)
    /\ failed' = failed \cup {Current(r)}
    /\ UNCHANGED <<rowVars, lost, deliveries, reopened>>

-----------------------------------------------------------------------------
(* One delivery. *)

Deliver(r, batch) ==
    /\ step[r] = "idle"
    /\ deliveries < MaxDeliveries
    /\ deliveries' = deliveries + 1
    /\ todo' = [todo EXCEPT ![r] = batch]
    /\ Goto(r, "updates")
    /\ UNCHANGED <<rowVars, found, opening, failed, lost, reopened>>

\* Connection and quality updates come first and are not guarded: when one of
\* their queries throws, the whole delivery fails.
ApplyUpdates(r) ==
    /\ step[r] = "updates"
    /\ \/ Goto(r, "find") /\ UNCHANGED <<todo, found, failed>>
       \/ /\ AbortBatch(r)
          /\ failed' = failed \cup {todo[r][i] : i \in DOMAIN todo[r]}
    /\ UNCHANGED <<rowVars, lost, deliveries, reopened>>

\* findAccount, the duplicate check of a message that has an id, and the
\* check for a sender.
Skips(m) == m \in Ignored \/ (m \notin Anonymous /\ stored[m] > 0)

FindDuplicate(r) ==
    /\ step[r] = "find"
    /\ \/ /\ Skips(Current(r))
          /\ NextMessage(r)
          /\ UNCHANGED <<rowVars, histVars>>
       \/ /\ ~Skips(Current(r))
          /\ Goto(r, "contact")
          /\ UNCHANGED <<rowVars, todo, found, histVars>>
       \/ Swallow(r)

UpsertContact(r) ==
    /\ step[r] = "contact"
    /\ \/ /\ contacts' = contacts \cup {Sender(r)}
          /\ Goto(r, "conversation")
          /\ UNCHANGED <<convs, stored, queued, todo, found, histVars>>
       \/ Swallow(r)

FindUnassigned(r) ==
    /\ step[r] = "conversation"
    /\ \/ /\ Goto(r, "create")
          /\ UNCHANGED <<rowVars, todo, found, histVars>>
       \/ \E c \in Open(Sender(r)) :
              /\ found' = [found EXCEPT ![r] = c]
              /\ Goto(r, "store")
              /\ UNCHANGED <<rowVars, todo, histVars>>
       \/ Swallow(r)

\* findFirst: the newest conversation of the sender that is not resolved.
FindConversation(r) ==
    /\ step[r] = "conversation"
    /\ \/ /\ Open(Sender(r)) = {}
          /\ Goto(r, "create")
          /\ UNCHANGED <<rowVars, todo, found, histVars>>
       \/ \E c \in Open(Sender(r)) :
              /\ \A d \in Open(Sender(r)) : d <= c
              /\ found' = [found EXCEPT ![r] = c]
              /\ Goto(r, "store")
              /\ UNCHANGED <<rowVars, todo, histVars>>
       \/ Swallow(r)

\* Nothing in the schema keeps a second open conversation out.
CreateConversation(r) ==
    /\ step[r] = "create"
    /\ \/ /\ Len(convs) < MaxConvs
          /\ convs' = Append(convs, [phone |-> Sender(r), resolved |-> FALSE])
          /\ found' = [found EXCEPT ![r] = Len(convs) + 1]
          /\ Goto(r, "store")
          /\ UNCHANGED <<contacts, stored, queued, todo, histVars>>
       \/ Swallow(r)

CreateMessageTwice(r) ==
    /\ step[r] = "store"
    /\ \/ /\ stored' = [stored EXCEPT ![Current(r)] = @ + 1]
          /\ Goto(r, "touch")
          /\ UNCHANGED <<contacts, convs, queued, todo, found, histVars>>
       \/ Swallow(r)

\* waMessageId is unique: the second row of a message throws.  A message
\* without an id is stored with null, which the constraint does not compare.
CreateMessage(r) ==
    /\ step[r] = "store"
    /\ \/ /\ Current(r) \in Anonymous \/ stored[Current(r)] = 0
          /\ stored' = [stored EXCEPT ![Current(r)] = @ + 1]
          /\ Goto(r, "touch")
          /\ UNCHANGED <<contacts, convs, queued, todo, found, histVars>>
       \/ Swallow(r)

\* lastMessageAt of the conversation, which nothing here reads; what its update
\* throws loses the job of a stored message.
TouchConversation(r) ==
    /\ step[r] = "touch"
    /\ \/ /\ Goto(r, "enqueue")
          /\ UNCHANGED <<rowVars, todo, found, histVars>>
       \/ /\ NextMessage(r)
          /\ lost' = lost \cup {Current(r)}
          /\ UNCHANGED <<rowVars, failed, deliveries, reopened>>

EnqueueSkipped(r) ==
    /\ step[r] = "enqueue"
    /\ NextMessage(r)
    /\ UNCHANGED <<rowVars, histVars>>

\* The socket event and the inbound job; Redis may wait, but does not throw.
Enqueue(r) ==
    /\ step[r] = "enqueue"
    /\ queued' = [queued EXCEPT ![Current(r)] = @ + 1]
    /\ NextMessage(r)
    /\ UNCHANGED <<contacts, convs, stored, histVars>>

Handle(r) ==
    /\ \/ ApplyUpdates(r) \/ FindDuplicate(r) \/ UpsertContact(r)
       \/ FindConversation(r) \/ CreateConversation(r) \/ CreateMessage(r)
       \/ TouchConversation(r) \/ Enqueue(r)
    /\ UNCHANGED opening

-----------------------------------------------------------------------------
(* Around the deliveries. *)

Resolve(c) ==
    /\ convs' = [convs EXCEPT ![c].resolved = TRUE]
    /\ UNCHANGED <<contacts, stored, queued, reqVars, histVars, opening>>

\* assign, of an agent or a flow, sets ASSIGNED or OPEN: a resolved
\* conversation is open again.
Assign(c) ==
    LET p == convs[c].phone
    IN  /\ convs[c].resolved
        /\ reopened[p] < MaxReopens
        /\ reopened' = [reopened EXCEPT ![p] = @ + 1]
        /\ convs' = [convs EXCEPT ![c].resolved = FALSE]
        /\ UNCHANGED <<contacts, stored, queued, reqVars, opening,
                       failed, lost, deliveries>>

\* After a send the campaign worker looks for any conversation of the contact,
\* resolved ones too, and opens one only when there is none.  What it stores
\* there is no inbound message; what it throws ends its attempt.
FindForCampaign(k, p) ==
    /\ opening[k] = NoPhone
    /\ p \in contacts
    /\ Of(p) = {}
    /\ opening' = [opening EXCEPT ![k] = p]
    /\ UNCHANGED <<rowVars, reqVars, histVars>>

CreateForCampaign(k) ==
    /\ opening[k] # NoPhone
    /\ opening' = [opening EXCEPT ![k] = NoPhone]
    /\ \/ /\ Len(convs) < MaxConvs
          /\ convs' = Append(convs, [phone |-> opening[k], resolved |-> FALSE])
       \/ UNCHANGED convs
    /\ UNCHANGED <<contacts, stored, queued, reqVars, histVars>>

\* What is still unstored when the process dies.
Unstored(r) ==
    IF step[r] \in {"touch", "enqueue"}
    THEN {todo[r][i] : i \in 2 .. Len(todo[r])}
    ELSE {todo[r][i] : i \in DOMAIN todo[r]}

Holds(r, m) == step[r] \in {"touch", "enqueue"} /\ Current(r) = m

Crash ==
    /\ step' = [r \in Request |-> "idle"]
    /\ todo' = [r \in Request |-> <<>>]
    /\ found' = [r \in Request |-> 0]
    /\ opening' = [k \in Campaigner |-> NoPhone]
    /\ failed' = failed \cup UNION {Unstored(r) : r \in Request}
    /\ lost' = lost \cup {m \in Msg : \E r \in Request : Holds(r, m)}
    /\ UNCHANGED <<rowVars, deliveries, reopened>>

Next ==
    \/ \E r \in Request : Handle(r) \/ \E batch \in Batch : Deliver(r, batch)
    \/ \E c \in DOMAIN convs : Resolve(c) \/ Assign(c)
    \/ \E k \in Campaigner :
           CreateForCampaign(k) \/ \E p \in Phone : FindForCampaign(k, p)
    \/ Crash

Spec == Init /\ [][Next]_vars

\* Node finishes what it awaits; nobody is obliged to deliver or resolve.
FairSpec == Spec /\ \A r \in Request : WF_vars(Handle(r))

-----------------------------------------------------------------------------
(* Properties. *)

Identified == Msg \ Anonymous

Abstract == INSTANCE Inbox WITH
    Message <- Identified,
    stored  <- [m \in Identified |-> stored[m]],
    queued  <- [m \in Identified |-> queued[m]]

\* "Idempotency on waMessageId": however often and concurrently a message is
\* delivered, it is stored once and queued once.
ImplementsInbox == Abstract!Spec

\* A stored message is on its way to the inbound workers or has been handed to
\* them, unless a fault hit between its row and its job.
NothingForgotten ==
    \A m \in Identified :
        stored[m] > queued[m] => m \in lost \/ \E r \in Request : Holds(r, m)

\* Deliveries and campaign jobs find, then create, and nothing in the schema
\* keeps a second open conversation of a sender out.  Together they open at
\* most one for each of them that is at it at the same time, first or not;
\* every other open one is a resolved one that was assigned again.
OpenConversationsBounded ==
    \A p \in Phone :
        Cardinality(Open(p))
            <= Cardinality(Request) + Cardinality(Campaigner) + reopened[p]

\* A message that fails or is ignored does not take the rest of its delivery
\* with it: every other one gets a row or an attempt of its own that failed.
EveryMessageTried ==
    \A m \in Msg \ Ignored :
        (\E r \in Request : \E i \in DOMAIN todo[r] : todo[r][i] = m)
            ~> (stored[m] > 0 \/ m \in failed)
=============================================================================
