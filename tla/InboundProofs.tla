--------------------------- MODULE InboundProofs ---------------------------
(***************************************************************************)
(* Proofs about Inbound, for any messages, flows and bounds.  What a walk  *)
(* through a flow does is not needed: SelectSeq is recursive, and no       *)
(* property below depends on the flows.                                    *)
(***************************************************************************)
EXTENDS Inbound, TLAPS

\* The handler and the queue agree on the job in progress.
WorkInv ==
    /\ jobState \in [Message -> J!JobState]
    /\ step \in Step
    /\ current \in Message \cup {NoMessage}
    /\ step # "idle" => current \in Message
    /\ \A m \in Message : jobState[m] = "active" <=> m = current /\ step # "idle"
    /\ replies \in [Message -> Nat] /\ faults \in [Message -> Nat]
    /\ late \in Nat /\ aiEnabled \in BOOLEAN /\ notice \in BOOLEAN

\* A job that has not answered in this attempt and may still run has no more
\* answers than faults.
RepliesInv ==
    \A m \in Message :
        /\ replies[m] <= 1 + faults[m]
        /\ jobState[m] \notin {"completed", "failed"} /\ ~(m = current /\ Answered)
               => replies[m] <= faults[m]

\* Past the switch, on the way to an answer.
Answering == \/ step \in {"history", "handoff", "retrieve", "complete"}
             \/ step = "store" /\ ~notice

\* Nothing has leaked while an answer is in the making: whoever passes the
\* switch does so after the count was reset.
SwitchInv ==
    /\ late \in {0, 1}
    /\ aiEnabled \/ Answering => late = 0

IInv == WorkInv /\ RepliesInv /\ SwitchInv /\ HandOffAnnounced

LEMMA InitInv == Init => IInv
<1> SUFFICES ASSUME Init PROVE IInv
    OBVIOUS
<1>1. WorkInv
    BY DEF Init, J!Init, WorkInv, Step, J!JobState
<1>2. RepliesInv
    BY DEF Init, RepliesInv
<1>3. SwitchInv /\ HandOffAnnounced
    BY DEF Init, SwitchInv, Answering, HandOffAnnounced
<1>4. QED
    BY <1>1, <1>2, <1>3 DEF IInv

\* Steps of the handler that only move it on.
LEMMA GotoInv ==
    ASSUME IInv, step # "idle", NEW s \in Step \ {"idle"}, Goto(s),
           Answered' <=> Answered,
           Answering' => Answering \/ aiEnabled,
           ~(step = "store" /\ notice)
    PROVE  IInv'
<1> USE DEF Goto, jobVars, convVars, histVars
<1>1. WorkInv'
    BY DEF IInv, WorkInv
<1>2. RepliesInv'
    BY DEF IInv, RepliesInv
<1>3. SwitchInv' /\ HandOffAnnounced'
    BY DEF IInv, SwitchInv, HandOffAnnounced
<1>4. QED
    BY <1>1, <1>2, <1>3 DEF IInv

\* An attempt that is given up and whose answer, if any, is a recorded fault.
LEMMA GiveUpInv ==
    ASSUME IInv, step # "idle", GiveUpAttempt,
           UNCHANGED <<aiEnabled, replies, late, handed, told>>,
           faults' = IF Answered THEN [faults EXCEPT ![current] = @ + 1] ELSE faults,
           dropped' = IF step = "store" /\ notice THEN dropped \cup {current} ELSE dropped
    PROVE  IInv'
<1> USE DEF GiveUpAttempt, J!Fail, J!Move
<1>a. current \in Message
    BY DEF IInv, WorkInv
<1>1. WorkInv'
    <2>1. \A m \in Message : jobState'[m] # "active"
        BY <1>a DEF IInv, WorkInv
    <2>2. jobState' \in [Message -> J!JobState]
        BY <1>a DEF IInv, WorkInv, J!JobState
    <2>3. faults' \in [Message -> Nat]
        BY <1>a DEF IInv, WorkInv
    <2>4. QED
        BY <2>1, <2>2, <2>3 DEF IInv, WorkInv, Step
<1>2. RepliesInv'
    BY <1>a DEF IInv, WorkInv, RepliesInv, Answered
<1>3. SwitchInv' /\ HandOffAnnounced'
    BY DEF IInv, SwitchInv, HandOffAnnounced, Answering
<1>4. QED
    BY <1>1, <1>2, <1>3 DEF IInv

LEMMA ThrowsInv ==
    ASSUME IInv, step # "idle", Throws, ~Answered, ~(step = "store" /\ notice)
    PROVE  IInv'
    BY GiveUpInv DEF Throws, convVars, histVars

LEMMA NoReplyInv ==
    ASSUME IInv, step \notin {"idle", "done", "touch", "queue", "finish"},
           ~(step = "store" /\ notice), NoReply
    PROVE  IInv'
<1>1. Goto("done") /\ ~Answered' /\ ~Answered /\ ~Answering'
    BY DEF NoReply, Goto, Answered, Answering
<1>2. QED
    BY <1>1, GotoInv DEF Step

\* Moves of the handler that change nothing the invariant speaks of but its
\* place, none of them into the making of an answer.
LEMMA EarlyInv ==
    ASSUME IInv, step \notin {"idle", "store", "touch", "queue", "finish"},
           step' \in {"transcribe", "inbound", "walkInbound", "keyword",
                      "walkKeyword", "switch"},
           UNCHANGED <<jobState, aiEnabled, current, notice, histVars>>
    PROVE  IInv'
<1> USE DEF histVars
<1>1. WorkInv'
    BY DEF IInv, WorkInv, Step
<1>2. RepliesInv'
    BY DEF IInv, RepliesInv, Answered
<1>3. SwitchInv' /\ HandOffAnnounced'
    BY DEF IInv, SwitchInv, HandOffAnnounced, Answering
<1>4. QED
    BY <1>1, <1>2, <1>3 DEF IInv

LEMMA FlowsInv ==
    ASSUME IInv,
           \/ LoadMessage \/ Transcribe \/ RunInboundFlows \/ RunKeywordFlows
           \/ EnterFlow \/ ExecNode \/ LeaveFlow \/ FlowsOver
    PROVE  IInv'
<1> USE DEF Answered, jobVars, convVars, histVars, workVars
<1>1. CASE LoadMessage
    BY <1>1, EarlyInv, ThrowsInv DEF LoadMessage
<1>2. CASE Transcribe
    BY <1>2, EarlyInv DEF Transcribe
<1>3. CASE RunInboundFlows
    BY <1>3, EarlyInv, ThrowsInv DEF RunInboundFlows, Goto
<1>4. CASE RunKeywordFlows
    BY <1>4, EarlyInv, ThrowsInv DEF RunKeywordFlows, Goto
<1>5. CASE EnterFlow
    BY <1>5, EarlyInv DEF EnterFlow, Goto
<1>6. CASE ExecNode
    BY <1>6, EarlyInv DEF ExecNode
<1>7. CASE LeaveFlow
    BY <1>7, EarlyInv DEF LeaveFlow, Goto
<1>8. CASE FlowsOver
    BY <1>8, EarlyInv DEF FlowsOver, Goto
<1>9. QED
    BY <1>1, <1>2, <1>3, <1>4, <1>5, <1>6, <1>7, <1>8

LEMMA RespondInv ==
    ASSUME IInv, CheckSwitch \/ ReadHistory \/ HandOff \/ Retrieve \/ Complete
    PROVE  IInv'
<1>1. CASE CheckSwitch
    <2>1. step = "switch" /\ ~Answered
        BY <1>1 DEF CheckSwitch, Answered
    <2>2. CASE aiEnabled /\ Goto("history")
        BY <2>1, <2>2, GotoInv DEF Goto, Answered, Answering, Step
    <2>3. QED
        BY <1>1, <2>1, <2>2, NoReplyInv, ThrowsInv DEF CheckSwitch
<1>2. CASE ReadHistory
    <2>1. step = "history" /\ ~Answered
        BY <1>2 DEF ReadHistory, Answered
    <2>2. CASE NoReply \/ Throws
        BY <2>1, <2>2, NoReplyInv, ThrowsInv
    <2>3. CASE /\ step' \in {"handoff", "retrieve"}
               /\ UNCHANGED <<jobVars, walkVars, convVars, current, heard, notice,
                              histVars, crashes>>
        <3>1. WorkInv'
            BY <2>1, <2>3 DEF IInv, WorkInv, Step, jobVars, convVars, histVars
        <3>2. RepliesInv'
            BY <2>1, <2>3 DEF IInv, RepliesInv, Answered, jobVars, histVars
        <3>3. SwitchInv' /\ HandOffAnnounced'
            BY <2>1, <2>3 DEF IInv, SwitchInv, HandOffAnnounced, Answering, convVars,
                              histVars
        <3>4. QED
            BY <3>1, <3>2, <3>3 DEF IInv
    <2>4. QED
        BY <1>2, <2>2, <2>3 DEF ReadHistory
<1>3. CASE HandOff
    <2>1. step = "handoff" /\ ~Answered
        BY <1>3 DEF HandOff, Answered
    <2>2. CASE Throws
        BY <2>1, <2>2, ThrowsInv
    <2>3. CASE /\ aiEnabled' = FALSE /\ notice' = TRUE /\ step' = "store"
               /\ handed' = handed \cup {current}
               /\ told' = told \ {current} /\ dropped' = dropped \ {current}
               /\ UNCHANGED <<jobVars, current, replies, faults, late>>
        <3>1. WorkInv'
            BY <2>1, <2>3 DEF IInv, WorkInv, Step, jobVars
        <3>2. RepliesInv'
            BY <2>1, <2>3 DEF IInv, RepliesInv, Answered, jobVars
        <3>3. SwitchInv' /\ HandOffAnnounced'
            BY <2>1, <2>3 DEF IInv, SwitchInv, HandOffAnnounced, Answering
        <3>4. QED
            BY <3>1, <3>2, <3>3 DEF IInv
    <2>4. QED
        BY <1>3, <2>2, <2>3 DEF HandOff
<1>4. CASE Retrieve
    <2>1. step = "retrieve" /\ ~Answered /\ Answering
        BY <1>4 DEF Retrieve, Answered, Answering
    <2>2. CASE Goto("complete")
        BY <2>1, <2>2, GotoInv DEF Goto, Answered, Step
    <2>3. QED
        BY <1>4, <2>1, <2>2, ThrowsInv DEF Retrieve
<1>5. CASE Complete
    <2>1. step = "complete" /\ ~Answered /\ Answering
        BY <1>5 DEF Complete, Completion, Answered, Answering
    <2>2. CASE Goto("store")
        BY <2>1, <2>2, GotoInv DEF Goto, Answered, Step
    <2>3. QED
        BY <1>5, <2>1, <2>2, NoReplyInv DEF Complete, Completion
<1>6. QED
    BY <1>1, <1>2, <1>3, <1>4, <1>5

LEMMA ReplyInv ==
    ASSUME IInv, StoreReply \/ TouchConversation \/ QueueReply \/ FinishJob
    PROVE  IInv'
<1>1. CASE StoreReply
    <2>1. step = "store" /\ ~Answered /\ current \in Message
        BY <1>1 DEF StoreReply, Answered, IInv, WorkInv
    <2>2. CASE ReplyFails
        BY <2>1, <2>2, GiveUpInv DEF ReplyFails, convVars
    <2>3. CASE WriteReply
        <3>1. step' = "touch" /\ Answered'
            BY <2>3 DEF WriteReply, Answered
        <3>2. replies[current] <= faults[current]
            BY <2>1 DEF IInv, RepliesInv, WorkInv
        <3>3. late' \in {0, 1}
            BY <2>1, <2>3 DEF WriteReply, IInv, SwitchInv, Answering
        <3>4. aiEnabled => late' = 0
            BY <2>3 DEF WriteReply, IInv, SwitchInv
        <3>5. WorkInv'
            BY <2>1, <2>3, <3>1, <3>3 DEF WriteReply, IInv, WorkInv, Step, jobVars
        <3>6. RepliesInv'
            BY <2>1, <2>3, <3>1, <3>2 DEF WriteReply, IInv, WorkInv, RepliesInv, Answered, jobVars
        <3>7. SwitchInv'
            BY <2>3, <3>1, <3>3, <3>4 DEF WriteReply, SwitchInv, Answering
        <3>8. HandOffAnnounced'
            BY <2>1, <2>3 DEF WriteReply, IInv, HandOffAnnounced
        <3>9. QED
            BY <3>5, <3>6, <3>7, <3>8 DEF IInv
    <2>4. QED
        BY <1>1, <2>2, <2>3 DEF StoreReply
<1>2. CASE TouchConversation
    <2>1. step = "touch" /\ Answered
        BY <1>2 DEF TouchConversation, Answered
    <2>2. CASE Goto("queue")
        BY <2>1, <2>2, GotoInv DEF Goto, Answered, Answering, Step
    <2>3. CASE /\ GiveUpAttempt
               /\ faults' = [faults EXCEPT ![current] = @ + 1]
               /\ UNCHANGED <<convVars, replies, late, handed, told, dropped, crashes>>
        BY <2>1, <2>3, GiveUpInv DEF convVars
    <2>4. QED
        BY <1>2, <2>2, <2>3 DEF TouchConversation
<1>3. CASE QueueReply
    <2>1. step = "queue" /\ Answered /\ Goto("finish")
        BY <1>3 DEF QueueReply, Answered
    <2>2. QED
        BY <2>1, GotoInv DEF Goto, Answered, Answering, Step
<1>4. CASE FinishJob
    <2>1. step \in {"finish", "done"} /\ current \in Message
        BY <1>4 DEF FinishJob, IInv, WorkInv
    <2>2. jobState' = [jobState EXCEPT ![current] = "completed"]
        BY <1>4 DEF FinishJob, J!Complete, J!Move
    <2>3. WorkInv'
        <3>1. \A m \in Message : jobState'[m] # "active"
            BY <2>1, <2>2 DEF IInv, WorkInv
        <3>2. jobState' \in [Message -> J!JobState]
            BY <2>1, <2>2 DEF IInv, WorkInv, J!JobState
        <3>3. QED
            BY <1>4, <3>1, <3>2 DEF FinishJob, IInv, WorkInv, Step, convVars, histVars
    <2>4. RepliesInv'
        BY <1>4, <2>1, <2>2 DEF FinishJob, IInv, WorkInv, RepliesInv, histVars
    <2>5. SwitchInv' /\ HandOffAnnounced'
        BY <1>4, <2>1 DEF FinishJob, IInv, SwitchInv, HandOffAnnounced, Answering,
                         convVars, histVars
    <2>6. QED
        BY <2>3, <2>4, <2>5 DEF IInv
<1>5. QED
    BY <1>1, <1>2, <1>3, <1>4

-----------------------------------------------------------------------------
(* What happens around the handler. *)

LEMMA AroundInv ==
    ASSUME IInv, NEW m \in Message, Arrive(m) \/ TakeJob(m) \/ BackoffOver(m)
    PROVE  IInv'
<1>a. /\ jobState \in [Message -> J!JobState]
      /\ current \in Message \cup {NoMessage}
      /\ \A k \in Message : jobState[k] = "active" <=> k = current /\ step # "idle"
    BY DEF IInv, WorkInv
<1>1. CASE TakeJob(m)
    <2>1. /\ step = "idle" /\ step' = "load" /\ current' = m
          /\ jobState[m] = "waiting"
          /\ jobState' = [jobState EXCEPT ![m] = "active"]
          /\ UNCHANGED <<convVars, notice, histVars>>
        BY <1>1 DEF TakeJob, J!Take, J!Move
    <2>2. WorkInv'
        BY <1>a, <2>1 DEF IInv, WorkInv, Step, J!JobState, convVars, histVars
    <2>3. RepliesInv'
        BY <1>a, <2>1 DEF IInv, RepliesInv, Answered, histVars
    <2>4. SwitchInv' /\ HandOffAnnounced'
        BY <2>1 DEF IInv, SwitchInv, Answering, HandOffAnnounced, convVars, histVars
    <2>5. QED
        BY <2>2, <2>3, <2>4 DEF IInv
<1>2. CASE Arrive(m) \/ BackoffOver(m)
    <2>1. /\ jobState[m] \in {"absent", "delayed"}
          /\ jobState' = [jobState EXCEPT ![m] = "waiting"]
          /\ UNCHANGED <<aiEnabled, workVars, histVars>>
        BY <1>2, <1>a DEF Arrive, BackoffOver, J!Add, J!Promote, J!Move, convVars
    <2>2. WorkInv'
        <3>1. jobState' \in [Message -> J!JobState]
            BY <1>a, <2>1 DEF J!JobState
        <3>2. \A k \in Message : jobState'[k] = "active" <=> jobState[k] = "active"
            BY <1>a, <2>1
        <3>3. QED
            BY <2>1, <3>1, <3>2 DEF IInv, WorkInv, workVars, histVars
    <2>3. RepliesInv'
        BY <1>a, <2>1 DEF IInv, RepliesInv, Answered, workVars, histVars
    <2>4. SwitchInv' /\ HandOffAnnounced'
        BY <2>1 DEF IInv, SwitchInv, Answering, HandOffAnnounced, workVars, histVars
    <2>5. QED
        BY <2>2, <2>3, <2>4 DEF IInv
<1>3. QED
    BY <1>1, <1>2

LEMMA SetInv ==
    ASSUME IInv, NEW on \in BOOLEAN, SetAIEnabled(on)
    PROVE  IInv'
<1> USE DEF SetAIEnabled, jobVars, workVars
<1>1. WorkInv'
    BY DEF IInv, WorkInv
<1>2. RepliesInv'
    BY DEF IInv, RepliesInv, Answered
<1>3. SwitchInv' /\ HandOffAnnounced'
    BY DEF IInv, SwitchInv, Answering, HandOffAnnounced
<1>4. QED
    BY <1>1, <1>2, <1>3 DEF IInv

LEMMA QuietInv ==
    ASSUME IInv, UNCHANGED <<jobState, aiEnabled, workVars, histVars>>
    PROVE  IInv'
<1> USE DEF workVars, histVars
<1>1. WorkInv'
    BY DEF IInv, WorkInv
<1>2. RepliesInv'
    BY DEF IInv, RepliesInv, Answered
<1>3. SwitchInv' /\ HandOffAnnounced'
    BY DEF IInv, SwitchInv, Answering, HandOffAnnounced
<1>4. QED
    BY <1>1, <1>2, <1>3 DEF IInv

LEMMA CrashInv ==
    ASSUME IInv, Crash
    PROVE  IInv'
<1>a. /\ jobState \in [Message -> J!JobState] /\ faults \in [Message -> Nat]
      /\ replies \in [Message -> Nat] /\ step \in Step
      /\ \A k \in Message : jobState[k] = "active" <=> k = current /\ step # "idle"
    BY DEF IInv, WorkInv
<1>1. /\ step' = "idle" /\ current' = NoMessage /\ notice' = FALSE
      /\ UNCHANGED <<aiEnabled, replies, late, handed, told>>
    BY DEF Crash, convVars
<1>2. /\ jobState' \in [Message -> J!JobState]
      /\ \A k \in Message :
             /\ jobState'[k] # "active"
             /\ jobState'[k] # jobState[k] => jobState[k] = "active"
    BY <1>a DEF Crash, J!Stall, J!JobState
<1>3. faults' \in [Message -> Nat]
    BY <1>a DEF Crash
<1>4. WorkInv'
    BY <1>1, <1>2, <1>3 DEF IInv, WorkInv, Step
<1>5. RepliesInv'
    <2> SUFFICES ASSUME NEW m \in Message
                 PROVE  /\ replies[m] <= 1 + faults'[m]
                        /\ jobState'[m] \notin {"completed", "failed"}
                               => replies[m] <= faults'[m]
        BY <1>1 DEF RepliesInv
    <2>1. CASE m = current /\ Answered
        BY <1>a, <2>1 DEF Crash, IInv, RepliesInv
    <2>2. CASE ~(m = current /\ Answered)
        <3>1. faults'[m] = faults[m]
            BY <1>a, <2>2 DEF Crash
        <3>2. jobState'[m] = jobState[m] \/ jobState[m] = "active"
            BY <1>2
        <3>3. QED
            BY <2>2, <3>1, <3>2 DEF IInv, RepliesInv
    <2>3. QED
        BY <2>1, <2>2
<1>6. SwitchInv' /\ HandOffAnnounced'
    BY <1>1 DEF IInv, SwitchInv, Answering, HandOffAnnounced, Crash
<1>7. QED
    BY <1>4, <1>5, <1>6 DEF IInv

LEMMA NextInv == IInv /\ [Next]_vars => IInv'
<1> SUFFICES ASSUME IInv, [Next]_vars PROVE IInv'
    OBVIOUS
<1>1. CASE Handler
    BY <1>1, FlowsInv, RespondInv, ReplyInv DEF Handler
<1>2. ASSUME NEW m \in Message, Arrive(m) \/ TakeJob(m) \/ BackoffOver(m)
      PROVE  IInv'
    BY <1>2, AroundInv
<1>3. ASSUME NEW on \in BOOLEAN, SetAIEnabled(on)
      PROVE  IInv'
    BY <1>3, SetInv
<1>4. CASE OthersWrite \/ UNCHANGED vars
    BY <1>4, QuietInv DEF OthersWrite, vars, jobVars, convVars
<1>5. CASE Crash
    BY <1>5, CrashInv
<1>6. QED
    BY <1>1, <1>2, <1>3, <1>4, <1>5 DEF Next

\* One answer per inbound message, and one more per fault after an answer, for
\* any number of messages and attempts.
THEOREM OneAnswer == Spec => []RepliesExplained
<1>1. IInv => RepliesExplained
    BY DEF IInv, RepliesInv, RepliesExplained
<1>2. QED
    BY <1>1, InitInv, NextInv, PTL DEF Spec

\* After the AI is switched off at most one answer is still stored.
THEOREM SwitchHolds == Spec => []AiSwitchRespected
<1>1. IInv => AiSwitchRespected
    BY DEF IInv, SwitchInv, AiSwitchRespected
<1>2. QED
    BY <1>1, InitInv, NextInv, PTL DEF Spec

\* Every hand-off stores its notice, unless the attempt failed before it.
THEOREM HandOffTold == Spec => []HandOffAnnounced
<1>1. IInv => HandOffAnnounced
    BY DEF IInv
<1>2. QED
    BY <1>1, InitInv, NextInv, PTL DEF Spec
=============================================================================
