------------------------------ MODULE Inbound ------------------------------
(***************************************************************************)
(* The inbound worker (queue/processors.service.ts) for one conversation,  *)
(* with the flows it runs (FlowExecutor) and the AI agent that answers     *)
(* (AiAgentService.respond in ai/ai-agent.service.ts).                     *)
(*                                                                         *)
(*   job msg-<id> -> load -> transcribe -> INBOUND_MESSAGE flows           *)
(*      -> KEYWORD flows -> AI: switch, history, hand-off or completion    *)
(*      -> reply row -> conversation touched -> outbound job               *)
(*                                                                         *)
(* The worker runs one job at a time, but the contact, the agents of the   *)
(* inbox and other producers write the conversation at any moment.  Only   *)
(* the last Window rows of it are kept: respond reads no others.           *)
(***************************************************************************)
EXTENDS Integers, Sequences, FiniteSets

CONSTANTS Message,     \* inbound messages of the conversation
          Voice,       \* those that are voice notes
          Keyword,     \* those whose text or transcript has a hand-off keyword
          Matching,    \* those whose text or transcript a KEYWORD flow asks for
          NoMessage,
          Window,      \* HISTORY_WINDOW
          Flow, NoFlow, Node, NoNode, Doc, MaxNodes,
          MaxAttempts, MaxStalls,
          MaxCrashes   \* bound: deaths of the process

ASSUME InboundAssumption ==
    /\ IsFiniteSet(Message)
    /\ Voice \subseteq Message /\ Keyword \subseteq Message /\ Matching \subseteq Message
    /\ NoMessage \notin Message
    /\ Window \in Nat \ {0}
    /\ MaxAttempts \in Nat \ {0} /\ MaxStalls \in Nat /\ MaxCrashes \in Nat

VARIABLES
    jobState, attempts, stalls,
    selected, flow, node, steps,
    recent,       \* the last Window rows: an inbound message, or NoMessage
                  \* for an outbound row
    transcribed,  \* messages whose row has a transcription
    aiEnabled,    \* conversation.isAIEnabled
    step,         \* where the handler is
    current,      \* its message
    heard,        \* the row it loaded had its text or transcription
    last,         \* the inbound message respond found last in the history
    notice,       \* the reply is the hand-off notice
    replies,      \* history: AI rows stored for each message's job
    faults,       \* history: faults after which its job answers once more
    late,         \* history: AI answers stored since the switch went off
    handed,       \* history: messages whose job switched the AI off
    told,         \* history: those whose job stored the notice
    dropped,      \* history: those whose job failed before it did
    crashes

jobVars  == <<jobState, attempts, stalls>>
walkVars == <<selected, flow, node, steps>>
convVars == <<recent, transcribed, aiEnabled>>
workVars == <<step, current, heard, last, notice>>
histVars == <<replies, faults, late, handed, told, dropped>>
vars     == <<jobVars, walkVars, convVars, workVars, histVars, crashes>>

J == INSTANCE JobQueue WITH Job <- Message, Concurrency <- 1
F == INSTANCE FlowExecutor

ASSUME FlowAssumption == F!WellFormed

Step == {"idle", "load", "transcribe", "inbound", "walkInbound", "keyword",
         "walkKeyword", "switch", "history", "handoff", "retrieve", "complete",
         "store", "touch", "queue", "finish", "done"}

TypeOK ==
    /\ J!TypeOK /\ F!TypeOK
    /\ recent \in Seq(Message \cup {NoMessage}) /\ Len(recent) <= Window
    /\ transcribed \subseteq Voice
    /\ aiEnabled \in BOOLEAN
    /\ step \in Step
    /\ current \in Message \cup {NoMessage}
    /\ step # "idle" => jobState[current] = "active"
    /\ ~F!PassOver => step \in {"walkInbound", "walkKeyword"}
    /\ heard \in BOOLEAN /\ notice \in BOOLEAN
    /\ last \in Message \cup {NoMessage}
    /\ replies \in [Message -> Nat] /\ faults \in [Message -> Nat]
    /\ late \in Nat
    /\ handed \subseteq Message /\ told \subseteq Message /\ dropped \subseteq Message
    /\ crashes \in 0 .. MaxCrashes

Init ==
    /\ J!Init /\ F!Init
    /\ recent = <<>> /\ transcribed = {} /\ aiEnabled = TRUE
    /\ step = "idle" /\ current = NoMessage
    /\ heard = FALSE /\ last = NoMessage /\ notice = FALSE
    /\ replies = [m \in Message |-> 0]
    /\ faults = [m \in Message |-> 0]
    /\ late = 0
    /\ handed = {} /\ told = {} /\ dropped = {}
    /\ crashes = 0

AddRow(row) ==
    LET rows == Append(recent, row)
    IN  recent' = IF Len(rows) > Window THEN Tail(rows) ELSE rows

-----------------------------------------------------------------------------
(* The handler up to the flows. *)

TakeJob(m) ==
    /\ step = "idle"
    /\ J!Take(m)
    /\ step' = "load"
    /\ current' = m
    /\ UNCHANGED <<walkVars, convVars, heard, last, notice, histVars, crashes>>

\* The handler threw; the queue decides about a retry.
GiveUpAttempt ==
    /\ J!Fail(current)
    /\ step' = "idle" /\ current' = NoMessage
    /\ heard' = FALSE /\ last' = NoMessage /\ notice' = FALSE
    /\ F!Reset

\* A query throws at a place where nothing has been stored yet.
Throws ==
    /\ GiveUpAttempt
    /\ UNCHANGED <<convVars, histVars, crashes>>

Goto(s) ==
    /\ step' = s
    /\ UNCHANGED <<jobVars, convVars, current, heard, last, notice, histVars, crashes>>

\* The row is read here, once: what is transcribed later is not in it.
LoadMessage ==
    /\ step = "load"
    /\ \/ /\ heard' = (current \notin Voice \/ current \in transcribed)
          /\ step' = "transcribe"
          /\ UNCHANGED <<jobVars, walkVars, convVars, current, last, notice,
                         histVars, crashes>>
       \/ Throws

\* Whatever goes wrong is logged and swallowed; so is the activity row.
Transcribe ==
    /\ step = "transcribe"
    /\ \/ current \in Voice /\ transcribed' = transcribed \cup {current}
       \/ UNCHANGED transcribed
    /\ step' = "inbound"
    /\ UNCHANGED <<jobVars, walkVars, recent, aiEnabled, current, heard, last,
                   notice, histVars, crashes>>

RunInboundFlows ==
    /\ step = "inbound"
    /\ \/ F!RunForTrigger("INBOUND_MESSAGE", heard) /\ Goto("walkInbound")
       \/ Throws

RunKeywordFlows ==
    /\ step = "keyword"
    /\ \/ /\ F!RunForTrigger("KEYWORD", heard /\ current \in Matching)
          /\ Goto("walkKeyword")
       \/ Throws

EnterFlow ==
    /\ step \in {"walkInbound", "walkKeyword"}
    /\ \E f \in Flow : F!Enter(f)
    /\ Goto(step)

\* A SEND_MESSAGE node writes a row of the conversation and queues it.
ExecNode ==
    /\ step \in {"walkInbound", "walkKeyword"}
    /\ \E branch \in F!Label : F!Exec(branch)
    /\ IF F!KindAt = "SEND_MESSAGE" THEN AddRow(NoMessage) ELSE UNCHANGED recent
    /\ UNCHANGED <<jobVars, transcribed, aiEnabled, workVars, histVars, crashes>>

LeaveFlow ==
    /\ step \in {"walkInbound", "walkKeyword"}
    /\ F!Leave
    /\ Goto(step)

FlowsOver ==
    /\ F!PassOver
    /\ \/ step = "walkInbound" /\ Goto("keyword")
       \/ step = "walkKeyword" /\ Goto("switch")
    /\ UNCHANGED walkVars

-----------------------------------------------------------------------------
(* AiAgentService.respond. *)

NoReply == Goto("done") /\ UNCHANGED walkVars

CheckSwitchIgnored ==
    /\ step = "switch"
    /\ \/ NoReply
       \/ Goto("history") /\ UNCHANGED walkVars
       \/ Throws

\* No provider configured, the switch of the conversation, no active agent.
CheckSwitch ==
    /\ step = "switch"
    /\ \/ NoReply
       \/ aiEnabled /\ Goto("history") /\ UNCHANGED walkVars
       \/ Throws

InboundRows == SelectSeq(recent, LAMBDA row : row # NoMessage)

\* A message without text: a voice note that was never transcribed.
Empty(m) == m \in Voice \ transcribed

\* The last inbound message of the window, whoever's job this is.
ReadHistory ==
    /\ step = "history"
    /\ \/ InboundRows = <<>> /\ NoReply
       \/ /\ InboundRows # <<>>
          /\ LET m == InboundRows[Len(InboundRows)]
             IN  IF Empty(m) THEN NoReply
                 ELSE /\ last' = m
                      /\ step' = IF m \in Keyword THEN "handoff" ELSE "retrieve"
                      /\ UNCHANGED <<jobVars, walkVars, convVars, current, heard,
                                     notice, histVars, crashes>>
       \/ Throws

\* disableAi, then the notice is the reply.
HandOff ==
    /\ step = "handoff"
    /\ \/ /\ aiEnabled' = FALSE
          /\ notice' = TRUE
          /\ handed' = handed \cup {current}
          /\ told' = told \ {current} /\ dropped' = dropped \ {current}
          /\ step' = "store"
          /\ UNCHANGED <<jobVars, walkVars, recent, transcribed, current, heard,
                         last, replies, faults, late, crashes>>
       \/ Throws

\* Retrieval from the knowledge base is not guarded; the completion is.
Retrieve ==
    /\ step = "retrieve"
    /\ \/ Goto("complete") /\ UNCHANGED walkVars
       \/ Throws

\* complete() of the language model's client returns a text; when it throws, or
\* the text is blank, respond's answer means no reply.
Completion == Goto("store") /\ UNCHANGED walkVars

Complete ==
    /\ step = "complete"
    /\ Completion \/ NoReply

-----------------------------------------------------------------------------
(* The reply. *)

WriteReply ==
    /\ AddRow(NoMessage)
    /\ replies' = [replies EXCEPT ![current] = @ + 1]
    /\ late' = IF aiEnabled \/ notice THEN late ELSE late + 1
    /\ told' = IF notice THEN told \cup {current} ELSE told
    /\ step' = "touch"
    /\ UNCHANGED <<jobVars, walkVars, transcribed, aiEnabled, current, heard, last,
                   notice, faults, handed, dropped, crashes>>

ReplyFails ==
    /\ GiveUpAttempt
    /\ dropped' = IF notice THEN dropped \cup {current} ELSE dropped
    /\ UNCHANGED <<convVars, replies, faults, late, handed, told, crashes>>

StoreIfEnabled ==
    /\ step = "store"
    /\ (~aiEnabled /\ NoReply) \/ (aiEnabled /\ WriteReply) \/ ReplyFails

\* message.create.  Nothing looks at the switch again.
StoreReply ==
    /\ step = "store"
    /\ WriteReply \/ ReplyFails

\* conversation.update: when it throws, the stored reply is never queued and
\* the retry answers again.
TouchConversation ==
    /\ step = "touch"
    /\ \/ Goto("queue") /\ UNCHANGED walkVars
       \/ /\ GiveUpAttempt
          /\ faults' = [faults EXCEPT ![current] = @ + 1]
          /\ UNCHANGED <<convVars, replies, late, handed, told, dropped, crashes>>

QueueErrorThrown ==
    /\ step = "queue"
    /\ \/ Goto("finish") /\ UNCHANGED walkVars
       \/ Throws

\* The socket event and the outbound job; Redis may wait, but does not throw.
QueueReply ==
    /\ step = "queue"
    /\ Goto("finish") /\ UNCHANGED walkVars

FinishJob ==
    /\ step \in {"finish", "done"}
    /\ J!Complete(current)
    /\ step' = "idle" /\ current' = NoMessage
    /\ heard' = FALSE /\ last' = NoMessage /\ notice' = FALSE
    /\ UNCHANGED <<walkVars, convVars, histVars, crashes>>

Handler ==
    \/ LoadMessage \/ Transcribe
    \/ RunInboundFlows \/ RunKeywordFlows \/ EnterFlow \/ ExecNode \/ LeaveFlow
    \/ FlowsOver
    \/ CheckSwitch \/ ReadHistory \/ HandOff \/ Retrieve \/ Complete
    \/ StoreReply \/ TouchConversation \/ QueueReply \/ FinishJob

-----------------------------------------------------------------------------
(* Around the handler. *)

\* Ingest stores the row and adds the job.
Arrive(m) ==
    /\ jobState[m] = "absent"
    /\ J!Add(m)
    /\ AddRow(m)
    /\ UNCHANGED <<walkVars, transcribed, aiEnabled, workVars, histVars, crashes>>

\* Agents, campaigns and payment links write rows of their own.
OthersWrite ==
    /\ AddRow(NoMessage)
    /\ UNCHANGED <<jobVars, walkVars, transcribed, aiEnabled, workVars, histVars,
                   crashes>>

SetAIEnabled(on) ==
    /\ aiEnabled' = on
    /\ late' = IF on THEN 0 ELSE late
    /\ UNCHANGED <<jobVars, walkVars, recent, transcribed, workVars, replies,
                   faults, handed, told, dropped, crashes>>

BackoffOver(m) ==
    /\ J!Promote(m)
    /\ UNCHANGED <<walkVars, convVars, workVars, histVars, crashes>>

\* This attempt has stored its answer and not ended.
Answered == step \in {"touch", "queue", "finish"}

Crash ==
    /\ crashes < MaxCrashes
    /\ crashes' = crashes + 1
    /\ J!Stall({m \in Message : jobState[m] = "active"})
    /\ F!Reset
    /\ step' = "idle" /\ current' = NoMessage
    /\ heard' = FALSE /\ last' = NoMessage /\ notice' = FALSE
    /\ faults' = [m \in Message |-> IF m = current /\ Answered
                                    THEN faults[m] + 1 ELSE faults[m]]
    /\ dropped' = IF step = "store" /\ notice THEN dropped \cup {current} ELSE dropped
    /\ UNCHANGED <<convVars, replies, late, handed, told>>

Next ==
    \/ Handler
    \/ \E m \in Message : Arrive(m) \/ TakeJob(m) \/ BackoffOver(m)
    \/ OthersWrite \/ \E on \in BOOLEAN : SetAIEnabled(on)
    \/ Crash

Spec == Init /\ [][Next]_vars

\* Node finishes what it awaits, backoffs end, and waiting jobs are handed out
\* in order, so none is passed over for ever.
FairSpec ==
    /\ Spec
    /\ WF_vars(Handler)
    /\ \A m \in Message : WF_vars(BackoffOver(m)) /\ SF_vars(TakeJob(m))

-----------------------------------------------------------------------------
(* Properties. *)

\* A message is answered once, and once more for each fault that hit after its
\* answer had been stored: a failed update of the conversation or a crash.
\* No error before the answer, in a flow, or of the completion does that.
RepliesExplained ==
    \A m \in Message : replies[m] <= 1 + faults[m]

\* "Per-conversation AI on/off toggle": after an agent or a hand-off switches
\* the AI off, at most the one answer in the making still reaches the contact.
AiSwitchRespected ==
    late <= 1

\* A contact the AI hands to the team is told so, unless a fault hit between
\* the switch and the notice; the retry then finds the AI off and says nothing.
HandOffAnnounced ==
    \A m \in handed : \/ m \in told \cup dropped
                      \/ (m = current /\ step = "store" /\ notice)

\* Whatever flows an author draws, loops included, every inbound message is
\* settled: its job completes or lands in the failed set.
EveryMessageSettles ==
    \A m \in Message :
        jobState[m] = "waiting" ~> jobState[m] \in {"completed", "failed"}

\* "transcribe voice note via Sarvam (if applicable) -> ... run matching
\* INBOUND_MESSAGE + KEYWORD flows": the flows see the transcription.
FlowsSeeTranscription ==
    step \in {"walkInbound", "walkKeyword"} /\ current \in transcribed => heard
=============================================================================
