--------------------------- MODULE OutboundProofs ---------------------------
(***************************************************************************)
(* Theorems about Outbound, for any messages, plans, limits and bounds.    *)
(* The steps of the quota and of the guardrails matter only for where they *)
(* leave the slot: what they count is in ServiceProofs and                 *)
(* GuardrailProofs.                                                        *)
(***************************************************************************)
EXTENDS Outbound, TLAPS

Months == 1 .. LastPeriod

\* Handler and queue agree on the job in progress; a slot is inside
\* sendOutbound only between the quota and its answer.
WorkInv ==
    /\ jobState \in [Message -> J!JobState]
    /\ stage \in Stage /\ current \in Message
    /\ \A m \in Message : jobState[m] = "active" <=> m = current /\ stage # "idle"
    /\ pc \in [{Slot} -> G!Step] /\ call \in [{Slot} -> G!Call]
    /\ qpc \in [{Slot} -> Q!QuotaStep]
    /\ stage # "dispatch" => pc[Slot] \in {"idle", "preflight"}
    /\ stage = "dispatch" => qpc[Slot] = "admitted"

\* In this attempt the provider has taken the message and said so.
Out == \/ stage \in {"record", "activity", "finish"}
       \/ stage = "dispatch" /\ pc[Slot] = "sent"

\* A job that may still run and is not out in this attempt has no more copies
\* than faults.
CopiesInv ==
    /\ copies \in [Message -> Nat] /\ faults \in [Message -> Nat]
    /\ \A m \in Message :
           /\ copies[m] <= 1 + faults[m]
           /\ jobState[m] \notin {"completed", "failed"} /\ ~(m = current /\ Out)
                  => copies[m] <= faults[m]

\* The slot has been admitted and the provider has not been called for it.
Spent == {"refund", "decr", "sent", "refused", "failed"}
Unspent(t) == qpc[Slot] = "admitted" /\ pc[Slot] \notin Spent /\ context[Slot].period = t

\* An admission that has not been spent is counted and not yet taken.
UnitsInv ==
    /\ taken \in [Months -> Nat] /\ counted \in [Months -> Nat]
    /\ Unlimited = {} => \A t \in Months :
           taken[t] <= counted[t] /\ (Unspent(t) => taken[t] + 1 <= counted[t])

OutInv == WorkInv /\ CopiesInv /\ UnitsInv

\* The number's switch is on or off, so a call can carry it.
SwitchInv == paused \in [{Number} -> BOOLEAN]

LEMMA SwitchKept == SwitchInv /\ [Next]_vars => SwitchInv'
  <1> SUFFICES ASSUME SwitchInv, [Next]_vars
               PROVE  SwitchInv'
    OBVIOUS
  <1> USE DEF guardVars
  <1>1. paused' = paused \/ \E v \in BOOLEAN : paused' = [paused EXCEPT ![Number] = v]
    <2>1. CASE UNCHANGED vars
      BY <2>1 DEF vars
    <2>2. CASE Environment
      BY <2>2 DEF Environment, G!WindowExpires, G!NewDay, G!SetOutboundPaused,
                  G!ContactWarms, G!ContactCools
    <2>3. CASE Crash \/ MonthEnds
      BY <2>3 DEF Crash, MonthEnds, G!Crash
    <2>4. CASE \E m \in Message : StoreMessage(m) \/ AddJob(m) \/ TakeJob(m) \/ BackoffOver(m)
      BY <2>4 DEF StoreMessage, AddJob, TakeJob, BackoffOver
    <2>5. CASE LoadMessage \/ CheckQuota \/ QuotaAdmits \/ QuotaThrows
      BY <2>5 DEF LoadMessage, CheckQuota, QuotaAdmits, QuotaThrows, G!Load
    <2>6. CASE Dispatch
      BY <2>6 DEF Dispatch, G!Preflight, G!ConsumeRate, G!Expire, G!CheckDaily,
                  G!IncrementDaily, G!ProviderRejects, G!RefundRead, G!RefundDecr
    <2>7. CASE ProviderTakes \/ DispatchReturns \/ DispatchThrows
      BY <2>7 DEF ProviderTakes, DispatchReturns, DispatchThrows, G!ProviderAccepts, G!Return
    <2>8. CASE RecordSent \/ LogActivity \/ FinishJob
      BY <2>8 DEF RecordSent, LogActivity, FinishJob
    <2>9. QED
      BY <2>1, <2>2, <2>3, <2>4, <2>5, <2>6, <2>7, <2>8 DEF Next, Handler
  <1>2. QED
    BY <1>1 DEF SwitchInv

\* One more in one place, if there is such a place.
LEMMA OneMore ==
  ASSUME NEW S, NEW f \in [S -> Nat], NEW p
  PROVE  LET g == [f EXCEPT ![p] = @ + 1] IN
         g \in [S -> Nat] /\ \A s \in S : g[s] = IF s = p THEN f[s] + 1 ELSE f[s]
  <1>1. CASE p \in S
    BY <1>1
  <1>2. CASE p \notin S
    BY <1>2
  <1>3. QED
    BY <1>1, <1>2

LEMMA OutInit == Init => OutInv
  <1> SUFFICES ASSUME Init
               PROVE  OutInv
    OBVIOUS
  <1>1. current \in Message
    BY OutboundAssumption DEF Init
  <1>2. WorkInv
    <2>1. G!NoCall \in G!Call
      BY DEF G!NoCall, G!Call
    <2>2. QED
      BY <1>1, <2>1 DEF Init, J!Init, Q!Init, G!Init, WorkInv, Stage, J!JobState, G!Step,
                        Q!QuotaStep
  <1>3. CopiesInv
    BY DEF Init, CopiesInv
  <1>4. UnitsInv
    BY DEF Init, Q!Init, Q!Period, UnitsInv, Months, Unspent
  <1>5. QED
    BY <1>2, <1>3, <1>4 DEF OutInv

\* The books of the month are kept by whatever neither takes nor admits.
LEMMA UnitsKept ==
  ASSUME OutInv, UNCHANGED <<taken, counted>>,
         \A t \in Months : Unlimited = {} /\ Unspent(t)' => Unspent(t)
  PROVE  UnitsInv'
  BY DEF OutInv, UnitsInv

\* What happens around the handler.

LEMMA QuietKeeps ==
  ASSUME OutInv, UNCHANGED <<jobState, stage, current, pc, call, qpc, context,
                             copies, faults, taken, counted>>
  PROVE  OutInv'
  <1>1. WorkInv' /\ CopiesInv'
    BY DEF OutInv, WorkInv, CopiesInv, Out
  <1>2. UnitsInv'
    BY UnitsKept DEF Unspent
  <1>3. QED
    BY <1>1, <1>2 DEF OutInv

\* A job that is not in progress gets another state, but is not settled.
LEMMA QueueKeeps ==
  ASSUME OutInv, NEW m \in Message, AddJob(m) \/ BackoffOver(m)
  PROVE  OutInv'
  <1>1. /\ jobState[m] \in {"absent", "delayed"}
        /\ jobState' = [jobState EXCEPT ![m] = "waiting"]
        /\ UNCHANGED <<planVars, guardVars, workVars>>
    BY DEF AddJob, BackoffOver, J!Add, J!Promote, J!Move
  <1> USE DEF planVars, guardVars, workVars
  <1>2. WorkInv'
    BY <1>1 DEF OutInv, WorkInv, J!JobState
  <1>3. CopiesInv'
    BY <1>1 DEF OutInv, WorkInv, CopiesInv, Out
  <1>4. UnitsInv'
    BY <1>1, UnitsKept DEF Unspent
  <1>5. QED
    BY <1>2, <1>3, <1>4 DEF OutInv

LEMMA TakeKeeps ==
  ASSUME OutInv, NEW m \in Message, TakeJob(m)
  PROVE  OutInv'
  <1>1. /\ jobState[m] = "waiting" /\ jobState' = [jobState EXCEPT ![m] = "active"]
        /\ stage = "idle" /\ stage' = "load" /\ current' = m
        /\ UNCHANGED <<planVars, guardVars, copies, faults, taken>>
    BY DEF TakeJob, J!Take, J!Move
  <1> USE DEF planVars, guardVars
  <1>2. WorkInv'
    BY <1>1 DEF OutInv, WorkInv, J!JobState, Stage
  <1>3. CopiesInv'
    BY <1>1 DEF OutInv, WorkInv, CopiesInv, Out
  <1>4. UnitsInv'
    BY <1>1, UnitsKept DEF Unspent
  <1>5. QED
    BY <1>2, <1>3, <1>4 DEF OutInv

LEMMA CrashKeeps ==
  ASSUME OutInv, Crash
  PROVE  OutInv'
  <1>0. /\ jobState \in [Message -> J!JobState] /\ copies \in [Message -> Nat]
        /\ faults \in [Message -> Nat] /\ stage \in Stage
        /\ \A m \in Message : jobState[m] = "active" <=> m = current /\ stage # "idle"
    BY DEF OutInv, WorkInv, CopiesInv
  <1>1. /\ stage' = "idle" /\ pc' = [s \in {Slot} |-> "idle"]
        /\ call' = [s \in {Slot} |-> G!NoCall] /\ qpc' = [s \in {Slot} |-> "idle"]
        /\ UNCHANGED <<current, copies, taken, counted>>
    BY DEF Crash, G!Crash, Q!QuotaCrash
  <1>2. /\ jobState' \in [Message -> J!JobState]
        /\ \A m \in Message :
               /\ jobState'[m] # "active"
               /\ jobState'[m] # jobState[m] => jobState[m] = "active"
    BY <1>0 DEF Crash, J!Stall, J!JobState
  <1>3. /\ faults' \in [Message -> Nat]
        /\ \A m \in Message :
               faults'[m] = IF m = current /\ Out THEN faults[m] + 1 ELSE faults[m]
    BY <1>0 DEF Crash, Out
  <1>4. WorkInv'
    <2>1. G!NoCall \in G!Call
      BY DEF G!NoCall, G!Call
    <2>2. QED
      BY <1>1, <1>2, <2>1 DEF OutInv, WorkInv, Stage, G!Step, Q!QuotaStep
  <1>5. CopiesInv'
    BY <1>0, <1>1, <1>2, <1>3 DEF OutInv, CopiesInv, Out
  <1>6. UnitsInv'
    BY <1>1, UnitsKept DEF Unspent
  <1>7. QED
    BY <1>4, <1>5, <1>6 DEF OutInv

\* The handler.

\* It goes on without a word from the provider.
LEMMA AdvanceKeeps ==
  ASSUME OutInv, stage # "idle", stage' \in Stage \ {"idle"}, Out' <=> Out,
         UNCHANGED <<jobState, current, copies, faults>>,
         pc' \in [{Slot} -> G!Step], call' \in [{Slot} -> G!Call],
         qpc' \in [{Slot} -> Q!QuotaStep],
         stage' # "dispatch" => pc'[Slot] \in {"idle", "preflight"},
         stage' = "dispatch" => qpc'[Slot] = "admitted",
         UnitsInv'
  PROVE  OutInv'
  <1>1. WorkInv'
    BY DEF OutInv, WorkInv
  <1>2. CopiesInv'
    BY DEF OutInv, CopiesInv
  <1>3. QED
    BY <1>1, <1>2 DEF OutInv

\* An attempt is given up, out or not, with a fault for a message that is.
LEMMA GiveUpKeeps ==
  ASSUME OutInv, stage # "idle", NEW why, GiveUpAttempt(why), copies' = copies,
         faults' = IF Out THEN [faults EXCEPT ![current] = @ + 1] ELSE faults,
         pc' \in [{Slot} -> G!Step], call' \in [{Slot} -> G!Call],
         qpc' \in [{Slot} -> Q!QuotaStep], pc'[Slot] \in {"idle", "preflight"},
         UnitsInv'
  PROVE  OutInv'
  <1>1. /\ jobState' \in [Message -> J!JobState] /\ current \in Message
        /\ \A m \in Message : /\ jobState'[m] # "active"
                              /\ m # current => jobState'[m] = jobState[m]
        /\ stage' = "idle" /\ current' = current
        /\ jobState[current] = "active"
    BY DEF OutInv, WorkInv, GiveUpAttempt, J!Fail, J!Move, J!JobState
  <1>2. WorkInv'
    BY <1>1 DEF OutInv, WorkInv, Stage
  <1>3. CopiesInv'
    BY <1>1 DEF OutInv, CopiesInv, Out
  <1>4. QED
    BY <1>2, <1>3 DEF OutInv

LEMMA LoadKeeps ==
  ASSUME OutInv, SwitchInv, LoadMessage
  PROVE  OutInv'
  <1>0. stage = "load" /\ ~Out /\ UNCHANGED <<planVars, copies, faults, taken>>
    BY DEF LoadMessage, Out
  <1> USE DEF planVars
  <1>1. CASE G!Load(Slot, Number, Recipient, FALSE) /\ stage' = "quota"
             /\ UNCHANGED <<jobVars, current, refusal>>
    <2>2. pc' = [pc EXCEPT ![Slot] = "preflight"] /\ pc[Slot] = "idle"
      BY <1>1 DEF G!Load, G!Goto
    <2>3. UnitsInv'
      BY <1>0, <2>2, UnitsKept DEF Unspent, Spent, OutInv, WorkInv
    <2>4. call' \in [{Slot} -> G!Call]
      BY <1>1 DEF G!Load, G!Call, OutInv, WorkInv, SwitchInv
    <2>5. QED
      BY <1>0, <1>1, <2>2, <2>3, <2>4, AdvanceKeeps
         DEF OutInv, WorkInv, Out, Stage, G!Step, jobVars
  <1>2. CASE GiveUpAttempt("none") /\ UNCHANGED guardVars
    <2>1. UnitsInv'
      BY <1>0, <1>2, UnitsKept DEF Unspent, guardVars
    <2>2. QED
      BY <1>0, <1>2, <2>1, GiveUpKeeps DEF OutInv, WorkInv, guardVars
  <1>3. QED
    BY <1>1, <1>2 DEF LoadMessage

LEMMA QuotaKeeps ==
  ASSUME OutInv, CheckQuota
  PROVE  OutInv'
  <1>0. stage = "quota" /\ UNCHANGED <<jobVars, guardVars, workVars>>
    BY DEF CheckQuota
  <1> USE DEF jobVars, guardVars, workVars
  <1>1. /\ qpc' \in [{Slot} -> Q!QuotaStep]
        /\ counted' \in [Months -> Nat]
        /\ \A t \in Months : counted[t] <= counted'[t]
        /\ \A t \in Months : Unlimited = {} /\ Unspent(t)' => taken[t] + 1 <= counted'[t]
    <2>0. /\ qpc \in [{Slot} -> Q!QuotaStep] /\ counted \in [Months -> Nat]
          /\ taken \in [Months -> Nat]
          /\ Unlimited = {} => \A t \in Months : taken[t] <= counted[t]
      BY DEF OutInv, WorkInv, UnitsInv
    <2>1. CASE Q!GetContext(Slot)
      <3>1. counted' = counted /\ (Unlimited = {} => qpc'[Slot] # "admitted")
        BY <2>0, <2>1 DEF Q!GetContext, Q!QGoto
      <3>2. qpc' \in [{Slot} -> Q!QuotaStep]
        BY <2>0, <2>1 DEF Q!GetContext, Q!QGoto, Q!QuotaStep
      <3>3. QED
        BY <2>0, <3>1, <3>2 DEF Unspent
    <2>2. CASE Q!Upsert(Slot)
      <3> DEFINE t == context[Slot].period
      <3>1. /\ context' = context
            /\ \/ qpc' = [qpc EXCEPT ![Slot] = "compensate"] /\ counted' = counted
               \/ /\ qpc' = [qpc EXCEPT ![Slot] = "admitted"]
                  /\ counted' = [counted EXCEPT ![t] = @ + 1]
        BY <2>2 DEF Q!Upsert, Q!QGoto
      <3>2. CASE qpc' = [qpc EXCEPT ![Slot] = "compensate"] /\ counted' = counted
        BY <2>0, <3>2 DEF Unspent, Q!QuotaStep
      <3>3. CASE /\ qpc' = [qpc EXCEPT ![Slot] = "admitted"]
                 /\ counted' = [counted EXCEPT ![t] = @ + 1]
        <4>1. /\ counted' \in [Months -> Nat]
              /\ \A k \in Months : counted'[k] = IF k = t THEN counted[k] + 1 ELSE counted[k]
          BY <2>0, <3>3, OneMore
        <4>2. qpc' \in [{Slot} -> Q!QuotaStep]
          BY <2>0, <3>3 DEF Q!QuotaStep
        <4>3. \A k \in Months : Unspent(k)' => k = t
          BY <3>1 DEF Unspent
        <4>4. QED
          BY <2>0, <4>1, <4>2, <4>3
      <3>4. QED
        BY <3>1, <3>2, <3>3
    <2>3. CASE Q!UpsertThrows(Slot) \/ Q!Compensate(Slot)
      <3>1. counted' = counted /\ \E s \in {"failed", "refused"} : qpc' = [qpc EXCEPT ![Slot] = s]
        BY <2>3 DEF Q!UpsertThrows, Q!Compensate, Q!QGoto
      <3>2. QED
        BY <2>0, <3>1 DEF Unspent, Q!QuotaStep
    <2>4. QED
      BY <2>1, <2>2, <2>3 DEF CheckQuota, Q!QuotaAdvance
  <1>2. UnitsInv'
    BY <1>0, <1>1 DEF OutInv, UnitsInv
  <1>3. QED
    BY <1>0, <1>1, <1>2, AdvanceKeeps DEF OutInv, WorkInv, Out, Stage

LEMMA QuotaEndKeeps ==
  ASSUME OutInv, QuotaAdmits \/ QuotaThrows
  PROVE  OutInv'
  <1>0. stage = "quota" /\ ~Out /\ pc[Slot] \in {"idle", "preflight"}
    BY DEF QuotaAdmits, QuotaThrows, OutInv, WorkInv, Out
  <1>1. CASE QuotaAdmits
    <2>1. /\ qpc[Slot] = "admitted" /\ stage' = "dispatch"
          /\ UNCHANGED <<jobVars, planVars, guardVars, current, copies, faults, taken>>
      BY <1>1 DEF QuotaAdmits
    <2>2. UnitsInv'
      BY <2>1, UnitsKept DEF Unspent, planVars, guardVars
    <2>3. QED
      BY <1>0, <2>1, <2>2, AdvanceKeeps
         DEF OutInv, WorkInv, Out, Stage, jobVars, planVars, guardVars
  <1>2. CASE QuotaThrows
    <2>1. /\ GiveUpAttempt("none") /\ qpc' = [qpc EXCEPT ![Slot] = "idle"]
          /\ pc' = [pc EXCEPT ![Slot] = "idle"] /\ call' = [call EXCEPT ![Slot] = G!NoCall]
          /\ UNCHANGED <<copies, faults, taken, counted>>
      BY <1>2 DEF QuotaThrows, Q!Proceed, Q!QGoto
    <2>2. UnitsInv'
      BY <2>1, UnitsKept DEF Unspent, OutInv, WorkInv
    <2>3. G!NoCall \in G!Call
      BY DEF G!NoCall, G!Call
    <2>4. QED
      BY <1>0, <2>1, <2>2, <2>3, GiveUpKeeps DEF OutInv, WorkInv, G!Step, Q!QuotaStep
  <1>3. QED
    BY <1>1, <1>2

\* Inside sendOutbound, only the provider's answer makes a message sent, and
\* nothing makes a spent admission good again.
LEMMA DispatchMoves ==
  ASSUME OutInv, Dispatch
  PROVE  /\ pc' \in [{Slot} -> G!Step] /\ call' \in [{Slot} -> G!Call]
         /\ pc[Slot] # "sent" /\ pc'[Slot] # "sent"
         /\ pc[Slot] \in Spent => pc'[Slot] \in Spent
  <1>0. pc \in [{Slot} -> G!Step] /\ call \in [{Slot} -> G!Call]
    BY DEF OutInv, WorkInv
  <1>1. /\ call[Slot].verdict \in {"refused", "failed"}
        /\ \A v \in {"refused", "failed"} : [call EXCEPT ![Slot].verdict = v] \in [{Slot} -> G!Call]
    BY <1>0 DEF G!Call
  <1>2. \E s \in G!Step :
            /\ pc' = [pc EXCEPT ![Slot] = s] /\ s # "sent" /\ pc[Slot] # "sent"
            /\ pc[Slot] \in Spent => s \in Spent
    <2>1. CASE G!Preflight(Slot)
      BY <2>1 DEF G!Preflight, G!Goto, G!Step, Spent
    <2>2. CASE G!ConsumeRate(Slot)
      BY <2>2 DEF G!ConsumeRate, G!Goto, G!Step, Spent
    <2>3. CASE G!Expire(Slot) \/ G!IncrementDaily(Slot)
      BY <2>3 DEF G!Expire, G!IncrementDaily, G!Goto, G!Step, Spent
    <2>4. CASE G!CheckDaily(Slot) \/ G!ProviderRejects(Slot)
      BY <2>4 DEF G!CheckDaily, G!ProviderRejects, G!Goto, G!Step, Spent
    <2>5. CASE G!RefundRead(Slot) \/ G!RefundDecr(Slot)
      BY <1>1, <2>5 DEF G!RefundRead, G!RefundDecr, G!Goto, G!Step, Spent
    <2>6. QED
      BY <2>1, <2>2, <2>3, <2>4, <2>5 DEF Dispatch
  <1>3. \/ call' = call
        \/ \E v \in {"refused", "failed"} : call' = [call EXCEPT ![Slot].verdict = v]
    BY DEF Dispatch, G!Preflight, G!ConsumeRate, G!Expire, G!IncrementDaily, G!CheckDaily,
           G!ProviderRejects, G!RefundRead, G!RefundDecr
  <1>4. QED
    BY <1>0, <1>1, <1>2, <1>3

LEMMA DispatchKeeps ==
  ASSUME OutInv, Dispatch
  PROVE  OutInv'
  <1>0. stage = "dispatch" /\ UNCHANGED <<jobVars, planVars, workVars>>
    BY DEF Dispatch
  <1> USE DEF jobVars, planVars, workVars
  <1>1. UnitsInv'
    BY <1>0, DispatchMoves, UnitsKept DEF Unspent
  <1>2. QED
    BY <1>0, <1>1, DispatchMoves, AdvanceKeeps DEF OutInv, WorkInv, Out, Stage

\* The one step in which the provider takes a message: it spends the
\* admission, and is a fault unless it is known to have happened.
LEMMA ProviderKeeps ==
  ASSUME OutInv, ProviderTakes
  PROVE  OutInv'
  <1>0. /\ stage = "dispatch" /\ pc[Slot] = "send" /\ qpc[Slot] = "admitted"
        /\ copies' = [copies EXCEPT ![current] = @ + 1]
        /\ faults' = [faults EXCEPT ![current] = IF pc'[Slot] = "sent" THEN @ ELSE @ + 1]
        /\ taken' = [taken EXCEPT ![context[Slot].period] = @ + 1]
        /\ UNCHANGED <<jobVars, planVars, stage, current>>
        /\ pc \in [{Slot} -> G!Step] /\ call \in [{Slot} -> G!Call]
    BY DEF ProviderTakes, G!ProviderAccepts, OutInv, WorkInv
  <1> USE DEF jobVars, planVars
  <1>1. /\ pc' \in [{Slot} -> G!Step] /\ call' \in [{Slot} -> G!Call]
        /\ pc'[Slot] \in {"sent", "refund"}
    BY <1>0 DEF ProviderTakes, G!ProviderAccepts, G!Goto, G!Step, G!Call
  <1>2. WorkInv'
    BY <1>0, <1>1 DEF OutInv, WorkInv
  <1>3. CopiesInv'
    <2>1. copies[current] <= faults[current] /\ current \in Message
      BY <1>0 DEF OutInv, WorkInv, CopiesInv, Out
    <2>2. QED
      BY <1>0, <1>1, <2>1 DEF OutInv, CopiesInv, Out
  <1>4. UnitsInv'
    <2>1. /\ taken \in [Months -> Nat] /\ counted \in [Months -> Nat]
          /\ Unlimited = {} => \A t \in Months :
                 taken[t] <= counted[t]
                 /\ (context[Slot].period = t => taken[t] + 1 <= counted[t])
      BY <1>0 DEF OutInv, UnitsInv, Unspent, Spent
    <2>2. \A t : ~Unspent(t)'
      BY <1>1 DEF Unspent, Spent
    <2>3. /\ taken' \in [Months -> Nat]
          /\ \A t \in Months : taken'[t] = IF t = context[Slot].period THEN taken[t] + 1
                                                                     ELSE taken[t]
      BY <1>0, <2>1, OneMore
    <2>4. \A t \in Months : Unlimited = {} => taken'[t] <= counted[t]
      BY <2>1, <2>3
    <2>5. QED
      BY <1>0, <2>1, <2>2, <2>3, <2>4 DEF UnitsInv
  <1>5. QED
    BY <1>2, <1>3, <1>4 DEF OutInv

LEMMA ReturnKeeps ==
  ASSUME OutInv, DispatchReturns \/ DispatchThrows
  PROVE  OutInv'
  <1>0. /\ stage = "dispatch"
        /\ pc' = [pc EXCEPT ![Slot] = "idle"] /\ call' = [call EXCEPT ![Slot] = G!NoCall]
        /\ qpc' = [qpc EXCEPT ![Slot] = "idle"]
        /\ UNCHANGED <<copies, faults, taken, counted>>
    BY DEF DispatchReturns, DispatchThrows, G!Return, G!Goto, Q!Proceed, Q!QGoto
  <1>1. /\ pc' \in [{Slot} -> G!Step] /\ pc'[Slot] = "idle"
        /\ qpc' \in [{Slot} -> Q!QuotaStep] /\ qpc'[Slot] = "idle"
        /\ call' \in [{Slot} -> G!Call]
    <2>1. G!NoCall \in G!Call
      BY DEF G!NoCall, G!Call
    <2>2. QED
      BY <1>0, <2>1 DEF OutInv, WorkInv, G!Step, Q!QuotaStep
  <1>2. UnitsInv'
    BY <1>0, <1>1, UnitsKept DEF Unspent
  <1>3. CASE DispatchReturns
    <2>1. pc[Slot] = "sent" /\ stage' = "record" /\ UNCHANGED <<jobState, current>>
      BY <1>3 DEF DispatchReturns, jobVars
    <2>2. QED
      BY <1>0, <1>1, <1>2, <2>1, AdvanceKeeps DEF Out, Stage
  <1>4. CASE DispatchThrows
    <2>1. PICK why : GiveUpAttempt(why)
      BY <1>4 DEF DispatchThrows
    <2>2. ~Out
      BY <1>0, <1>4 DEF DispatchThrows, Out
    <2>3. QED
      BY <1>0, <1>1, <1>2, <2>1, <2>2, GiveUpKeeps
  <1>5. QED
    BY <1>3, <1>4

LEMMA RecordKeeps ==
  ASSUME OutInv, RecordSent \/ LogActivity
  PROVE  OutInv'
  <1>0. /\ stage \in {"record", "activity"} /\ Out
        /\ UNCHANGED <<planVars, guardVars, copies, taken>>
    BY DEF RecordSent, LogActivity, Out
  <1> USE DEF planVars, guardVars
  <1>1. UnitsInv'
    BY <1>0, UnitsKept DEF Unspent
  <1>2. CASE GiveUpAttempt("none") /\ faults' = [faults EXCEPT ![current] = @ + 1]
    BY <1>0, <1>1, <1>2, GiveUpKeeps DEF OutInv, WorkInv
  <1>3. CASE stage' \in {"activity", "finish"} /\ UNCHANGED <<jobVars, current, faults>>
    BY <1>0, <1>1, <1>3, AdvanceKeeps DEF OutInv, WorkInv, Out, Stage, jobVars
  <1>4. QED
    BY <1>2, <1>3 DEF RecordSent, LogActivity

LEMMA FinishKeeps ==
  ASSUME OutInv, FinishJob
  PROVE  OutInv'
  <1>0. /\ stage = "finish" /\ stage' = "idle"
        /\ jobState' = [jobState EXCEPT ![current] = "completed"]
        /\ UNCHANGED <<planVars, guardVars, current, copies, faults, taken>>
    BY DEF FinishJob, J!Complete, J!Move
  <1> USE DEF planVars, guardVars
  <1>1. WorkInv'
    BY <1>0 DEF OutInv, WorkInv, J!JobState, Stage
  <1>2. CopiesInv'
    BY <1>0 DEF OutInv, WorkInv, CopiesInv, Out
  <1>3. UnitsInv'
    BY <1>0, UnitsKept DEF Unspent
  <1>4. QED
    BY <1>1, <1>2, <1>3 DEF OutInv

LEMMA AroundKeeps ==
  ASSUME OutInv, Environment \/ MonthEnds \/ (\E m \in Message : StoreMessage(m))
  PROVE  OutInv'
  <1> USE DEF jobVars, planVars, guardVars, workVars
  <1>1. CASE Environment
    <2>1. UNCHANGED <<pc, call>>
      BY <1>1 DEF Environment, G!WindowExpires, G!NewDay, G!SetOutboundPaused, G!ContactWarms,
                  G!ContactCools
    <2>2. QED
      BY <1>1, <2>1, QuietKeeps DEF Environment
  <1>2. CASE MonthEnds
    BY <1>2, QuietKeeps DEF MonthEnds, Q!NextMonth
  <1>3. ASSUME NEW m \in Message, StoreMessage(m)
        PROVE  OutInv'
    BY <1>3, QuietKeeps DEF StoreMessage
  <1>4. QED
    BY <1>1, <1>2, <1>3

LEMMA OutStep == OutInv /\ SwitchInv /\ [Next]_vars => OutInv'
  <1>1. ASSUME OutInv, UNCHANGED vars
        PROVE  OutInv'
    BY <1>1, QuietKeeps DEF vars, jobVars, planVars, guardVars, workVars
  <1>2. ASSUME OutInv, SwitchInv, Handler
        PROVE  OutInv'
    BY <1>2, LoadKeeps, QuotaKeeps, QuotaEndKeeps, DispatchKeeps, ProviderKeeps, ReturnKeeps,
       RecordKeeps, FinishKeeps DEF Handler
  <1>3. ASSUME OutInv, SwitchInv, Next
        PROVE  OutInv'
    BY <1>2, <1>3, QueueKeeps, TakeKeeps, CrashKeeps, AroundKeeps, Zenon DEF Next
  <1>4. QED
    BY <1>1, <1>3

LEMMA OutAlways == Spec => []OutInv
  <1>1. Init => SwitchInv
    BY DEF Init, G!Init, SwitchInv
  <1>2. QED
    BY <1>1, OutInit, OutStep, SwitchKept, PTL DEF Spec

\* Retries send a message again only after a fault: a lost answer, a failed
\* update of the row, or a crash (the outbound worker).
THEOREM CopiesAreExplained == Spec => []CopiesExplained
  <1>1. OutInv => CopiesExplained
    BY DEF OutInv, CopiesInv, CopiesExplained
  <1>2. QED
    BY <1>1, OutAlways, PTL

\* Whatever fails, is retried or crosses a month's end, the provider takes no
\* more messages than were admitted (assertCanSendMessage before sendOutbound).
THEOREM TakenIsCounted == Spec => []TakenWithinCounted
  <1>1. OutInv => TakenWithinCounted
    BY DEF OutInv, UnitsInv, TakenWithinCounted, Months
  <1>2. QED
    BY <1>1, OutAlways, PTL
=============================================================================
