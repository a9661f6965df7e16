------------------------------ MODULE Outbound ------------------------------
(***************************************************************************)
(* The outbound worker (queue/processors.service.ts) from the moment a     *)
(* producer stores an OUTBOUND message to the recorded WhatsApp id:        *)
(*                                                                         *)
(*    message row -> BullMQ job -> plan quota -> guardrails -> provider    *)
(*                -> row updated                                           *)
(*                                                                         *)
(* The module composes JobQueue, PlanQuota and Guardrail for one agency    *)
(* and one WhatsApp number.  The worker runs one job at a time (BullMQ's   *)
(* default concurrency); a handler that throws is run again from the top.  *)
(* A job's id is out-<message id>, so jobs are identified with messages.   *)
(***************************************************************************)
EXTENDS Integers, FiniteSets

CONSTANTS Message,      \* outbound messages
          Blank,        \* those whose content is empty
          Slot,         \* the worker's slot
          Number,       \* the WhatsApp account
          Recipient,    \* the contact
          Provider, PerMinute, DailyCap, MaxRate, MaxCrashes,
          Plan, Quota, Unlimited, LastPeriod, MaxUsage,
          MaxAttempts, MaxStalls

ASSUME OutboundAssumption ==
    /\ Message # {} /\ Blank \subseteq Message
    /\ MaxAttempts \in Nat \ {0}
    /\ MaxStalls \in Nat

VARIABLES
    jobState, attempts, stalls,
    plan, month, usage, qpc, context, counted, leaked,
    rate, ttl, daily, paused, warm, pc, call, fresh, held, stale, late, crashes,
    row,      \* each message: "none", "stored" or "sent" (waMessageId written)
    stage,    \* where the worker's handler is
    current,  \* the message it works on
    copies,   \* history: how often the provider took each message
    faults,   \* history: faults after which a message is sent once more
    taken,    \* history: messages the provider took, by the month charged
    refusal   \* history: messages whose last attempt the pause refused

jobVars   == <<jobState, attempts, stalls>>
planVars  == <<plan, month, usage, qpc, context, counted, leaked>>
guardVars == <<rate, ttl, daily, paused, warm, pc, call, fresh, held, stale,
               late, crashes>>
workVars  == <<row, stage, current, copies, faults, taken, refusal>>
vars      == <<jobVars, planVars, guardVars, workVars>>

J == INSTANCE JobQueue WITH Job <- Message, Concurrency <- 1
Q == INSTANCE PlanQuota WITH Worker <- {Slot}
G == INSTANCE Guardrail WITH Caller <- {Slot}, Account <- {Number},
                             Contact <- {Recipient}

Stage == {"idle", "load", "quota", "dispatch", "record", "activity", "finish"}

TypeOK ==
    /\ J!TypeOK /\ Q!TypeOK /\ G!TypeOK
    /\ row \in [Message -> {"none", "stored", "sent"}]
    /\ stage \in Stage
    /\ current \in Message
    /\ copies \in [Message -> Nat]
    /\ faults \in [Message -> Nat]
    /\ taken \in [1 .. LastPeriod -> Nat]
    /\ refusal \in [Message -> {"none", "pause"}]

Init ==
    /\ J!Init /\ Q!Init /\ G!Init
    /\ row = [m \in Message |-> "none"]
    /\ stage = "idle"
    /\ current = CHOOSE m \in Message : TRUE
    /\ copies = [m \in Message |-> 0]
    /\ faults = [m \in Message |-> 0]
    /\ taken = [t \in 1 .. LastPeriod |-> 0]
    /\ refusal = [m \in Message |-> "none"]

-----------------------------------------------------------------------------
(* Producers: MessageService.send, the flows' SEND_MESSAGE node, the AI     *)
(* reply and the payment links all store the row, then add the job.         *)

StoreMessage(m) ==
    /\ row[m] = "none"
    /\ row' = [row EXCEPT ![m] = "stored"]
    /\ UNCHANGED <<jobVars, planVars, guardVars, stage, current, copies, faults,
                   taken, refusal>>

AddJob(m) ==
    /\ row[m] # "none"
    /\ jobState[m] = "absent"
    /\ J!Add(m)
    /\ UNCHANGED <<planVars, guardVars, workVars>>

-----------------------------------------------------------------------------
(* The handler. *)

TakeJob(m) ==
    /\ stage = "idle"
    /\ J!Take(m)
    /\ current' = m
    /\ stage' = "load"
    /\ UNCHANGED <<planVars, guardVars, row, copies, faults, taken, refusal>>

\* The handler threw: the worker is free and the queue decides about a retry.
GiveUpAttempt(why) ==
    /\ J!Fail(current)
    /\ refusal' = [refusal EXCEPT ![current] = why]
    /\ stage' = "idle"
    /\ UNCHANGED current

\* findUnique of the message with its account and contact.  The query may
\* throw, and a message without content throws.
LoadMessage ==
    /\ stage = "load"
    /\ \/ /\ current \notin Blank
          /\ G!Load(Slot, Number, Recipient, FALSE)
          /\ stage' = "quota"
          /\ UNCHANGED <<jobVars, current, refusal>>
       \/ /\ GiveUpAttempt("none")
          /\ UNCHANGED guardVars
    /\ UNCHANGED <<planVars, row, copies, faults, taken>>

\* assertCanSendMessage, step by step.
CheckQuota ==
    /\ stage = "quota"
    /\ Q!QuotaAdvance(Slot)
    /\ UNCHANGED <<jobVars, guardVars, workVars>>

QuotaErrorIgnored ==
    /\ stage = "quota"
    /\ qpc[Slot] \in {"admitted", "failed"}
    /\ stage' = "dispatch"
    /\ UNCHANGED <<jobVars, planVars, guardVars, row, current, copies, faults,
                   taken, refusal>>

QuotaAdmits ==
    /\ stage = "quota"
    /\ qpc[Slot] = "admitted"
    /\ stage' = "dispatch"
    /\ UNCHANGED <<jobVars, planVars, guardVars, row, current, copies, faults,
                   taken, refusal>>

\* The ForbiddenException is not swallowed; the row read before is dropped.
QuotaThrows ==
    /\ stage = "quota"
    /\ qpc[Slot] \in {"refused", "failed"}
    /\ GiveUpAttempt("none")
    /\ Q!Proceed(Slot)
    /\ pc' = [pc EXCEPT ![Slot] = "idle"]
    /\ call' = [call EXCEPT ![Slot] = G!NoCall]
    /\ UNCHANGED <<rate, ttl, daily, paused, warm, fresh, held, stale, late,
                   crashes, row, copies, faults, taken>>

\* sendOutbound: preflight, provider, refund.
Dispatch ==
    /\ stage = "dispatch"
    /\ \/ G!Preflight(Slot) \/ G!ConsumeRate(Slot) \/ G!Expire(Slot)
       \/ G!CheckDaily(Slot) \/ G!IncrementDaily(Slot)
       \/ G!ProviderRejects(Slot) \/ G!RefundRead(Slot) \/ G!RefundDecr(Slot)
    /\ UNCHANGED <<jobVars, planVars, workVars>>

\* The provider takes the message; when the answer is lost the code sees an
\* error, and the retry sends a second copy.
ProviderTakes ==
    /\ stage = "dispatch"
    /\ G!ProviderAccepts(Slot)
    /\ copies' = [copies EXCEPT ![current] = @ + 1]
    /\ faults' = [faults EXCEPT ![current] =
                      IF pc'[Slot] = "sent" THEN @ ELSE @ + 1]
    /\ taken' = [taken EXCEPT ![context[Slot].period] = @ + 1]
    /\ UNCHANGED <<jobVars, planVars, row, stage, current, refusal>>

DispatchReturns ==
    /\ stage = "dispatch"
    /\ pc[Slot] = "sent"
    /\ G!Return(Slot)
    /\ Q!Proceed(Slot)
    /\ stage' = "record"
    /\ UNCHANGED <<jobVars, row, current, copies, faults, taken, refusal>>

DispatchThrows ==
    /\ stage = "dispatch"
    /\ pc[Slot] \in {"refused", "failed"}
    /\ G!Return(Slot)
    /\ Q!Proceed(Slot)
    /\ GiveUpAttempt(IF call[Slot].paused THEN "pause" ELSE "none")
    /\ UNCHANGED <<row, copies, faults, taken>>

\* message.update writes waMessageId; if it throws, the attempt has failed
\* although the message is out.
RecordSent ==
    /\ stage = "record"
    /\ \/ /\ row' = [row EXCEPT ![current] = "sent"]
          /\ stage' = "activity"
          /\ UNCHANGED <<jobVars, current, faults, refusal>>
       \/ /\ faults' = [faults EXCEPT ![current] = @ + 1]
          /\ GiveUpAttempt("none")
          /\ UNCHANGED row
    /\ UNCHANGED <<planVars, guardVars, copies, taken>>

ActivityErrorThrown ==
    /\ stage = "activity"
    /\ \/ stage' = "finish" /\ UNCHANGED <<jobVars, current, refusal>>
       \/ GiveUpAttempt("none")
    /\ UNCHANGED <<planVars, guardVars, row, copies, faults, taken>>

\* activity.create, whose failure is swallowed, then the socket event.
LogActivity ==
    /\ stage = "activity"
    /\ stage' = "finish"
    /\ UNCHANGED <<jobVars, planVars, guardVars, row, current, copies, faults,
                   taken, refusal>>

FinishJob ==
    /\ stage = "finish"
    /\ J!Complete(current)
    /\ stage' = "idle"
    /\ UNCHANGED <<planVars, guardVars, row, current, copies, faults, taken,
                   refusal>>

-----------------------------------------------------------------------------
(* Around the handler. *)

BackoffOver(m) ==
    /\ J!Promote(m)
    /\ UNCHANGED <<planVars, guardVars, workVars>>

\* The process dies.  Its job is found stalled; what was sent and not yet
\* completed is sent again.
Crash ==
    /\ G!Crash
    /\ Q!QuotaCrash
    /\ J!Stall({m \in Message : jobState[m] = "active"})
    /\ faults' = [m \in Message |->
                     IF /\ jobState[m] = "active"
                        /\ \/ stage \in {"record", "activity", "finish"}
                           \/ stage = "dispatch" /\ pc[Slot] = "sent"
                     THEN faults[m] + 1 ELSE faults[m]]
    /\ stage' = "idle"
    /\ UNCHANGED <<row, current, copies, taken, refusal>>

Environment ==
    /\ \/ G!WindowExpires(Number) \/ G!NewDay
       \/ \E v \in BOOLEAN : G!SetOutboundPaused(Number, v)
       \/ G!ContactWarms(Recipient) \/ G!ContactCools(Recipient)
    /\ UNCHANGED <<jobVars, planVars, workVars>>

MonthEnds ==
    /\ Q!NextMonth
    /\ UNCHANGED <<jobVars, guardVars, workVars>>

Handler ==
    \/ LoadMessage \/ CheckQuota \/ QuotaAdmits \/ QuotaThrows
    \/ Dispatch \/ ProviderTakes \/ DispatchReturns \/ DispatchThrows
    \/ RecordSent \/ LogActivity \/ FinishJob

Next ==
    \/ \E m \in Message : \/ StoreMessage(m) \/ AddJob(m)
                          \/ TakeJob(m) \/ BackoffOver(m)
    \/ Handler
    \/ Crash \/ Environment \/ MonthEnds

Spec == Init /\ [][Next]_vars

\* Node finishes what it awaits, backoffs end, and BullMQ hands waiting jobs
\* out in order, so none is passed over for ever.
FairSpec ==
    /\ Spec
    /\ WF_vars(Handler)
    /\ \A m \in Message : WF_vars(BackoffOver(m)) /\ SF_vars(TakeJob(m))
    /\ WF_vars(Environment /\ G!WindowExpires(Number))

-----------------------------------------------------------------------------
(* Properties. *)

\* Every copy of a message beyond the first is explained by a fault that hit
\* after the provider had taken the previous one: a lost answer, a failed
\* update of the row, or a crash.  Refusals, quota errors, refunds and failed
\* activity rows never duplicate a message.
CopiesExplained ==
    \A m \in Message : copies[m] <= 1 + faults[m]

\* No message leaves without a quota unit of the month it was checked in.
TakenWithinCounted ==
    \A t \in 1 .. LastPeriod :
        Unlimited = {} => taken[t] <= counted[t]

\* Every queued message is settled: its job completes or lands in the failed
\* set, where an operator sees it.
EveryJobSettles ==
    \A m \in Message :
        jobState[m] = "waiting" ~> jobState[m] \in {"completed", "failed"}

\* "Manual pause toggle. When true, all outbound is queued but not sent."
PausedStaysQueued ==
    \A m \in Message :
        refusal[m] = "pause" /\ paused[Number] => jobState[m] # "failed"
=============================================================================
