------------------------------ MODULE Campaign ------------------------------
(***************************************************************************)
(* One broadcast campaign: CampaignService (campaign/campaign.service.ts)  *)
(* and the campaign worker of queue/processors.service.ts, with the        *)
(* requests that start and pause it while it runs.                         *)
(*                                                                         *)
(* A job's id is camp-<campaign>-<contact>, so jobs are identified with    *)
(* contacts: starting the campaign again adds nothing for a contact whose  *)
(* job the queue still has.  The queue keeps the last KeepCompleted        *)
(* completed jobs (removeOnComplete); a contact whose job has been removed *)
(* is contacted again.                                                     *)
(*                                                                         *)
(* sendOutbound is what Guardrail says of it: the provider takes the       *)
(* message or does not, and the code gets an answer or an error.  The      *)
(* campaign's counters are left out: only the dashboard reads them.        *)
(***************************************************************************)
EXTENDS Integers, FiniteSets

CONSTANTS Contact,
          Starter,        \* requests to start it that may run together
          Slots,          \* the worker's concurrency
          KeepCompleted,  \* defaultJobOpts.removeOnComplete
          MaxAttempts, MaxStalls,
          MaxStarts,      \* bound: starts of the campaign
          MaxCrashes      \* bound: deaths of the process

ASSUME CampaignAssumption ==
    /\ IsFiniteSet(Contact)
    /\ Slots \in Nat /\ KeepCompleted \in Nat
    /\ MaxAttempts \in Nat \ {0} /\ MaxStalls \in Nat
    /\ MaxStarts \in Nat /\ MaxCrashes \in Nat

VARIABLES
    jobState, attempts, stalls,
    status,      \* campaign.status
    excluded,    \* contacts opted out or blocked
    starting,    \* where each start request is
    chosen,      \* the recipients it has not added yet
    step,        \* where the handler of each contact's job is
    copies,      \* history: messages the provider took for a contact's job
    faults,      \* history: faults after which its message is sent again
    leak,        \* history: messages taken since the campaign was paused
    unwanted,    \* history: messages taken since the contact was excluded
    starts, crashes

jobVars   == <<jobState, attempts, stalls>>
startVars == <<starting, chosen>>
histVars  == <<copies, faults, leak, unwanted>>
vars == <<jobVars, status, excluded, startVars, step, histVars, starts, crashes>>

J == INSTANCE JobQueue WITH Job <- Contact, Concurrency <- Slots

Step == {"idle", "campaign", "contact", "account", "send", "count",
         "conversation", "record", "done"}

TypeOK ==
    /\ J!TypeOK
    /\ status \in {"DRAFT", "SENDING", "PAUSED"}
    /\ excluded \subseteq Contact
    /\ starting \in [Starter -> {"idle", "update", "add"}]
    /\ chosen \in [Starter -> SUBSET Contact]
    /\ step \in [Contact -> Step]
    /\ \A c \in Contact : step[c] # "idle" <=> jobState[c] = "active"
    /\ Cardinality(J!InState("active")) <= Slots
    /\ copies \in [Contact -> Nat] /\ faults \in [Contact -> Nat]
    /\ leak \in Nat /\ unwanted \in [Contact -> Nat]
    /\ starts \in 0 .. MaxStarts /\ crashes \in 0 .. MaxCrashes

Init ==
    /\ J!Init
    /\ status = "DRAFT"
    /\ excluded = {}
    /\ starting = [s \in Starter |-> "idle"]
    /\ chosen = [s \in Starter |-> {}]
    /\ step = [c \in Contact |-> "idle"]
    /\ copies = [c \in Contact |-> 0]
    /\ faults = [c \in Contact |-> 0]
    /\ leak = 0
    /\ unwanted = [c \in Contact |-> 0]
    /\ starts = 0 /\ crashes = 0

-----------------------------------------------------------------------------
(* Requests. *)

\* The recipients are queried with the tags of the request; the status of the
\* campaign is not looked at.
QueryRecipients(s) ==
    /\ starting[s] = "idle"
    /\ starts < MaxStarts
    /\ starts' = starts + 1
    /\ \E r \in SUBSET (Contact \ excluded) : chosen' = [chosen EXCEPT ![s] = r]
    /\ starting' = [starting EXCEPT ![s] = "update"]
    /\ UNCHANGED <<jobVars, status, excluded, step, histVars, crashes>>

SetSending(s) ==
    /\ starting[s] = "update"
    /\ \/ /\ status' = "SENDING"
          /\ leak' = 0
          /\ starting' = [starting EXCEPT ![s] = "add"]
          /\ UNCHANGED chosen
       \/ /\ starting' = [starting EXCEPT ![s] = "idle"]
          /\ chosen' = [chosen EXCEPT ![s] = {}]
          /\ UNCHANGED <<status, leak>>
    /\ UNCHANGED <<jobVars, excluded, step, copies, faults, unwanted, starts,
                   crashes>>

\* One job per recipient; the delay that throttles them only orders them.
AddRecipient(s) ==
    /\ starting[s] = "add"
    /\ \E c \in chosen[s] :
           /\ J!Add(c)
           /\ chosen' = [chosen EXCEPT ![s] = @ \ {c}]
    /\ UNCHANGED <<status, excluded, starting, step, histVars, starts, crashes>>

StartReturns(s) ==
    /\ starting[s] = "add" /\ chosen[s] = {}
    /\ starting' = [starting EXCEPT ![s] = "idle"]
    /\ UNCHANGED <<jobVars, status, excluded, chosen, step, histVars, starts,
                   crashes>>

Pause ==
    /\ status' = "PAUSED"
    /\ UNCHANGED <<jobVars, excluded, startVars, step, histVars, starts, crashes>>

-----------------------------------------------------------------------------
(* The handler of one job. *)

Goto(c, s) == step' = [step EXCEPT ![c] = s]

TakeJob(c) ==
    /\ J!Take(c)
    /\ Goto(c, "campaign")
    /\ UNCHANGED <<status, excluded, startVars, histVars, starts, crashes>>

GiveUpAttempt(c) == J!Fail(c) /\ Goto(c, "idle")

\* A query before the send throws: nothing is out, the attempt is repeated.
Throws(c) ==
    /\ GiveUpAttempt(c)
    /\ UNCHANGED <<status, excluded, startVars, histVars, starts, crashes>>

\* Moves that change nothing but the place of the handler.
Proceed(c, s) ==
    /\ Goto(c, s)
    /\ UNCHANGED <<jobVars, status, excluded, startVars, histVars, starts,
                   crashes>>

CheckStatusSkipped(c) ==
    /\ step[c] = "campaign"
    /\ Proceed(c, "contact") \/ Throws(c)

CheckStatus(c) ==
    /\ step[c] = "campaign"
    /\ \/ status # "SENDING" /\ Proceed(c, "done")
       \/ status = "SENDING" /\ Proceed(c, "contact")
       \/ Throws(c)

CheckContactSkipped(c) ==
    /\ step[c] = "contact"
    /\ Proceed(c, "account") \/ Throws(c)

CheckContact(c) ==
    /\ step[c] = "contact"
    /\ \/ c \in excluded /\ Proceed(c, "done")
       \/ c \notin excluded /\ Proceed(c, "account")
       \/ Throws(c)

\* The first connected account of the client, if it has one.
FindAccount(c) ==
    /\ step[c] = "account"
    /\ Proceed(c, "send") \/ Proceed(c, "done") \/ Throws(c)

\* The provider takes the message.  When the answer is lost, the error is
\* swallowed like a refusal, and the job completes.
ProviderTakes(c) ==
    /\ step[c] = "send"
    /\ copies' = [copies EXCEPT ![c] = @ + 1]
    /\ leak' = IF status = "PAUSED" THEN leak + 1 ELSE leak
    /\ unwanted' = [unwanted EXCEPT ![c] = IF c \in excluded THEN @ + 1 ELSE @]
    /\ Goto(c, "count") \/ Goto(c, "done")
    /\ UNCHANGED <<jobVars, status, excluded, startVars, faults, starts,
                   crashes>>

\* A refusal of the guardrails or an error of the provider: logged, and the
\* job completes without a message.
SendBlocked(c) ==
    /\ step[c] = "send"
    /\ Proceed(c, "done")

CountErrorThrown(c) ==
    /\ step[c] = "count"
    /\ Proceed(c, "conversation") \/ Throws(c)

\* delivered: { increment: 1 }, in the same try as the send: its error ends
\* the job, and no row is written for a message that is out.
CountDelivered(c) ==
    /\ step[c] = "count"
    /\ Proceed(c, "conversation") \/ Proceed(c, "done")

\* The conversation and the message row follow outside that try: an error
\* fails the attempt, and the retry sends the message again.
WriteRow(c, from, to) ==
    /\ step[c] = from
    /\ \/ Goto(c, to) /\ UNCHANGED <<jobVars, faults>>
       \/ GiveUpAttempt(c) /\ faults' = [faults EXCEPT ![c] = @ + 1]
    /\ UNCHANGED <<status, excluded, startVars, copies, leak, unwanted, starts,
                   crashes>>

FindOrCreateConversation(c) == WriteRow(c, "conversation", "record")

CreateMessage(c) == WriteRow(c, "record", "done")

FinishJob(c) ==
    /\ step[c] = "done"
    /\ J!Complete(c)
    /\ Goto(c, "idle")
    /\ UNCHANGED <<status, excluded, startVars, histVars, starts, crashes>>

Handle(c) ==
    \/ CheckStatus(c) \/ CheckContact(c) \/ FindAccount(c)
    \/ ProviderTakes(c) \/ SendBlocked(c) \/ CountDelivered(c)
    \/ FindOrCreateConversation(c) \/ CreateMessage(c) \/ FinishJob(c)

-----------------------------------------------------------------------------
(* Around them. *)

BackoffOver(c) ==
    /\ J!Promote(c)
    /\ UNCHANGED <<status, excluded, startVars, step, histVars, starts, crashes>>

RemoveCompleted(c) ==
    /\ J!Remove(c, KeepCompleted)
    /\ copies' = [copies EXCEPT ![c] = 0]
    /\ faults' = [faults EXCEPT ![c] = 0]
    /\ UNCHANGED <<status, excluded, startVars, step, leak, unwanted, starts,
                   crashes>>

\* Nothing in the repository writes optedOut and isBlocked; they are set in
\* the database.
Exclude(c) ==
    /\ excluded' = excluded \cup {c}
    /\ UNCHANGED <<jobVars, status, startVars, step, histVars, starts, crashes>>

\* Places of the handler at which a message has gone out.
Sent(c) == step[c] \in {"count", "conversation", "record", "done"}

Crash ==
    /\ crashes < MaxCrashes
    /\ crashes' = crashes + 1
    /\ J!Stall(J!InState("active"))
    /\ faults' = [c \in Contact |-> IF Sent(c) THEN faults[c] + 1 ELSE faults[c]]
    /\ step' = [c \in Contact |-> "idle"]
    /\ starting' = [s \in Starter |-> "idle"]
    /\ chosen' = [s \in Starter |-> {}]
    /\ UNCHANGED <<status, excluded, copies, leak, unwanted, starts>>

Next ==
    \/ \E s \in Starter : QueryRecipients(s) \/ SetSending(s)
                          \/ AddRecipient(s) \/ StartReturns(s)
    \/ \E c \in Contact : \/ TakeJob(c) \/ Handle(c) \/ BackoffOver(c)
                          \/ RemoveCompleted(c) \/ Exclude(c)
    \/ Pause \/ Crash

Spec == Init /\ [][Next]_vars

-----------------------------------------------------------------------------
(* Properties. *)

\* However often and concurrently the campaign is started, as long as the
\* queue remembers a contact's job the contact gets one message, and one more
\* for each fault after a send: a failed write of the conversation or message
\* row, or a crash.  Refusals, lost answers and failed counts never send a
\* message twice.
CopiesExplained ==
    \A c \in Contact : copies[c] <= 1 + faults[c]

\* A pause lets through the messages of the jobs in progress and no more: no
\* retry, no delayed job and no stalled job sends while the campaign is paused.
PauseLeakBounded ==
    leak <= Slots

\* A contact that opts out gets at most the message that was on its way.
OptOutRespected ==
    \A c \in Contact : unwanted[c] <= 1
=============================================================================
