--------------------------- MODULE CampaignProofs ---------------------------
(***************************************************************************)
(* Proofs about Campaign, for any contacts, concurrency and bounds.        *)
(***************************************************************************)
EXTENDS Campaign, FiniteSetTheorems, TLAPS

Active == J!InState("active")

\* Past the status check: the handler does not look at the campaign again.
Committed == {c \in Contact : step[c] \in {"contact", "account", "send"}}

LEMMA SubsetCount ==
    ASSUME NEW S, IsFiniteSet(S), NEW T \in SUBSET S
    PROVE  /\ IsFiniteSet(T)
           /\ Cardinality(T) \in Nat
           /\ Cardinality(T) <= Cardinality(S)
    BY FS_Subset, FS_CardinalityType

LEMMA ContactsFinite == IsFiniteSet(Contact)
    BY CampaignAssumption

\* JobQueue counts with the Cardinality of its own instance.
LEMMA SameCount == \A S : J!Cardinality(S) = Cardinality(S)
    BY DEF J!Cardinality, Cardinality

\* A job that may still run has an attempt left.
AttemptLeft ==
    \A c \in Contact : jobState[c] \in {"absent", "waiting", "active", "delayed"}
                           => attempts[c] + 1 <= MaxAttempts

\* What actions of one contact do to the queue.
JobStep(c) == \/ UNCHANGED jobVars
              \/ J!Take(c) \/ J!Fail(c) \/ J!Complete(c) \/ J!Promote(c)
              \/ J!Add(c) \/ J!Remove(c, KeepCompleted)

QueueInv == J!TypeOK /\ AttemptLeft /\ Cardinality(Active) <= Slots

\* The queue's part of the invariant, through any step of one job.
LEMMA QueueStep ==
    ASSUME QueueInv, NEW c \in Contact, JobStep(c)
    PROVE  QueueInv'
<1>a. J!TypeOK /\ AttemptLeft
    BY DEF QueueInv
<1>1. J!TypeOK' /\ AttemptLeft'
    <2>1. CASE UNCHANGED jobVars
        BY <2>1, <1>a DEF jobVars, J!TypeOK, AttemptLeft
    <2>2. CASE J!Take(c) \/ J!Complete(c) \/ J!Promote(c) \/ J!Add(c)
        BY <2>2, <1>a DEF J!TypeOK, J!JobState, J!Take, J!Complete, J!Promote,
                         J!Add, J!Move, AttemptLeft
    <2>3. CASE J!Fail(c)
        <3>1. attempts[c] + 1 \in 0 .. MaxAttempts
            BY <2>3, <1>a, CampaignAssumption DEF J!Fail, J!TypeOK, AttemptLeft
        <3>2. QED
            BY <2>3, <1>a, <3>1, CampaignAssumption
               DEF J!TypeOK, J!JobState, J!Fail, J!Move, AttemptLeft
    <2>4. CASE J!Remove(c, KeepCompleted)
        BY <2>4, <1>a, CampaignAssumption
           DEF J!TypeOK, J!JobState, J!Remove, J!Move, AttemptLeft
    <2>5. QED
        BY <2>1, <2>2, <2>3, <2>4 DEF JobStep
<1>2. IsFiniteSet(Active) /\ Cardinality(Active) \in Nat
    BY SubsetCount, ContactsFinite DEF Active, J!InState
<1>3. CASE J!Take(c)
    <2>1. Active' = Active \cup {c} /\ c \notin Active
        BY <1>3, <1>a DEF Active, J!InState, J!Take, J!Move, J!TypeOK
    <2>2. Cardinality(Active') = Cardinality(Active) + 1
        BY <2>1, <1>2, FS_AddElement
    <2>3. Cardinality(Active) < Slots
        BY <1>3, SameCount DEF J!Take, Active
    <2>4. QED
        BY <1>1, <1>2, <2>2, <2>3, CampaignAssumption DEF QueueInv
<1>4. CASE ~J!Take(c)
    <2>1. Active' \in SUBSET Active
        BY <1>4, <1>a DEF Active, J!InState, JobStep, J!Fail, J!Complete,
                    J!Promote, J!Add, J!Remove, J!Move, J!TypeOK, jobVars
    <2>2. Cardinality(Active') <= Cardinality(Active) /\ Cardinality(Active') \in Nat
        BY <2>1, <1>2, SubsetCount
    <2>3. Cardinality(Active) <= Slots
        BY DEF QueueInv
    <2>4. QED
        BY <1>1, <1>2, <2>2, <2>3, CampaignAssumption DEF QueueInv
<1>5. QED
    BY <1>3, <1>4

\* A crash takes every active job from its handler.
LEMMA QueueCrash ==
    ASSUME QueueInv, J!Stall(J!InState("active"))
    PROVE  /\ QueueInv'
           /\ Active' = {}
           /\ \A c \in Contact : jobState'[c] # jobState[c] =>
                  /\ jobState[c] = "active"
                  /\ jobState'[c] \in {"waiting", "failed"}
<1>1. J!TypeOK' /\ AttemptLeft'
    BY CampaignAssumption DEF QueueInv, J!TypeOK, J!JobState, J!Stall,
                              J!InState, AttemptLeft
<1>2. Active' = {}
    BY DEF Active, J!Stall, J!InState
<1>3. Cardinality(Active') = 0
    BY <1>2, FS_EmptySet
<1>4. QED
    BY <1>1, <1>2, <1>3, CampaignAssumption DEF QueueInv, J!Stall, J!InState

-----------------------------------------------------------------------------
(* Type correctness. *)

\* The variables beside the queue, and how handlers and jobs go together.
RestInv ==
    /\ status \in {"DRAFT", "SENDING", "PAUSED"}
    /\ excluded \subseteq Contact
    /\ starting \in [Starter -> {"idle", "update", "add"}]
    /\ chosen \in [Starter -> SUBSET Contact]
    /\ step \in [Contact -> Step]
    /\ \A c \in Contact : step[c] # "idle" <=> jobState[c] = "active"
    /\ copies \in [Contact -> Nat] /\ faults \in [Contact -> Nat]
    /\ leak \in Nat /\ unwanted \in [Contact -> Nat]
    /\ starts \in 0 .. MaxStarts /\ crashes \in 0 .. MaxCrashes

TInv == QueueInv /\ RestInv

LEMMA TInvTypes == TInv => TypeOK
    BY DEF TInv, QueueInv, RestInv, TypeOK, Active

LEMMA TInvInit == Init => TInv
<1> SUFFICES ASSUME Init PROVE TInv
    OBVIOUS
<1>1. Active = {}
    BY DEF Init, J!Init, Active, J!InState
<1>2. Cardinality(Active) = 0
    BY <1>1, FS_EmptySet
<1>3. QED
    BY <1>2, CampaignAssumption
       DEF Init, J!Init, J!TypeOK, J!JobState, TInv, QueueInv, RestInv,
           AttemptLeft, Step

\* An action that leaves the queue alone and moves one handler from a place
\* that is not idle to another.
LEMMA ProceedTyped ==
    ASSUME TInv, NEW c \in Contact, step[c] # "idle",
           NEW s \in Step \ {"idle"}, Proceed(c, s)
    PROVE  TInv'
<1>1. QueueInv'
    BY QueueStep DEF TInv, Proceed, JobStep
<1>2. QED
    BY <1>1 DEF TInv, RestInv, Proceed, Goto, Step, jobVars, histVars, startVars

\* A handler that gives its attempt up.
LEMMA GiveUpTyped ==
    ASSUME TInv, NEW c \in Contact, GiveUpAttempt(c),
           faults' \in [Contact -> Nat],
           UNCHANGED <<status, excluded, startVars, copies, leak, unwanted,
                       starts, crashes>>
    PROVE  TInv'
<1>1. QueueInv'
    BY QueueStep DEF TInv, GiveUpAttempt, JobStep
<1>2. jobState' = [jobState EXCEPT ![c] = jobState'[c]] /\ jobState'[c] # "active"
    BY DEF TInv, QueueInv, J!TypeOK, GiveUpAttempt, J!Fail, J!Move
<1>3. QED
    BY <1>1, <1>2 DEF TInv, QueueInv, J!TypeOK, RestInv, GiveUpAttempt, Goto, Step,
                  startVars

LEMMA ThrowsTyped ==
    ASSUME TInv, NEW c \in Contact, Throws(c)
    PROVE  TInv'
    BY GiveUpTyped DEF Throws, histVars, TInv, RestInv

LEMMA WriteRowTyped ==
    ASSUME TInv, NEW c \in Contact,
           NEW from \in Step \ {"idle"}, NEW to \in Step \ {"idle"},
           WriteRow(c, from, to)
    PROVE  TInv'
<1>1. CASE Goto(c, to) /\ UNCHANGED <<jobVars, faults>>
    <2>1. step[c] # "idle" /\ Proceed(c, to)
        BY <1>1 DEF WriteRow, Proceed, histVars
    <2>2. QED
        BY <2>1, ProceedTyped
<1>2. CASE GiveUpAttempt(c) /\ faults' = [faults EXCEPT ![c] = @ + 1]
    BY <1>2, GiveUpTyped DEF WriteRow, TInv, RestInv
<1>3. QED
    BY <1>1, <1>2 DEF WriteRow

LEMMA HandleTyped ==
    ASSUME TInv, NEW c \in Contact, Handle(c)
    PROVE  TInv'
<1> USE DEF Step
<1>1. CASE CheckStatus(c)
    BY <1>1, ProceedTyped, ThrowsTyped DEF CheckStatus
<1>2. CASE CheckContact(c)
    BY <1>2, ProceedTyped, ThrowsTyped DEF CheckContact
<1>3. CASE FindAccount(c)
    BY <1>3, ProceedTyped, ThrowsTyped DEF FindAccount
<1>4. CASE SendBlocked(c)
    BY <1>4, ProceedTyped DEF SendBlocked
<1>5. CASE CountDelivered(c)
    BY <1>5, ProceedTyped DEF CountDelivered
<1>6. CASE ProviderTakes(c)
    <2>1. QueueInv'
        BY <1>6, QueueStep DEF TInv, ProviderTakes, JobStep
    <2>2. QED
        BY <1>6, <2>1 DEF TInv, RestInv, ProviderTakes, Goto, jobVars, startVars
<1>7. CASE FindOrCreateConversation(c)
    BY <1>7, WriteRowTyped DEF FindOrCreateConversation
<1>8. CASE CreateMessage(c)
    BY <1>8, WriteRowTyped DEF CreateMessage
<1>9. CASE FinishJob(c)
    <2>1. QueueInv'
        BY <1>9, QueueStep DEF TInv, FinishJob, JobStep
    <2>2. QED
        BY <1>9, <2>1 DEF TInv, QueueInv, J!TypeOK, RestInv, FinishJob, Goto,
                         J!Complete, J!Move, startVars, histVars
<1>10. QED
    BY <1>1, <1>2, <1>3, <1>4, <1>5, <1>6, <1>7, <1>8, <1>9 DEF Handle

LEMMA RequestTyped ==
    ASSUME TInv, NEW s \in Starter,
           QueryRecipients(s) \/ SetSending(s) \/ AddRecipient(s) \/ StartReturns(s)
    PROVE  TInv'
<1>1. CASE QueryRecipients(s)
    <2>1. PICK r \in SUBSET (Contact \ excluded) : chosen' = [chosen EXCEPT ![s] = r]
        BY <1>1 DEF QueryRecipients
    <2>2. starts + 1 \in 0 .. MaxStarts
        BY <1>1, CampaignAssumption DEF QueryRecipients, TInv, RestInv
    <2>3. QED
        BY <1>1, <2>1, <2>2
           DEF QueryRecipients, TInv, QueueInv, RestInv, AttemptLeft, Active,
               J!InState, J!TypeOK, jobVars, histVars
<1>2. CASE SetSending(s)
    BY <1>2 DEF SetSending, TInv, QueueInv, RestInv, AttemptLeft, Active,
                J!InState, J!TypeOK, jobVars
<1>3. CASE AddRecipient(s)
    <2>1. PICK c \in chosen[s] : J!Add(c) /\ chosen' = [chosen EXCEPT ![s] = @ \ {c}]
        BY <1>3 DEF AddRecipient
    <2>2. c \in Contact
        BY <2>1 DEF TInv, RestInv
    <2>3. QueueInv'
        BY <2>1, <2>2, QueueStep DEF TInv, JobStep
    <2>4. QED
        BY <1>3, <2>1, <2>2, <2>3
           DEF AddRecipient, TInv, QueueInv, J!TypeOK, RestInv, J!Add, J!Move,
               histVars
<1>4. CASE StartReturns(s)
    BY <1>4 DEF StartReturns, TInv, QueueInv, RestInv, AttemptLeft, Active,
                J!InState, J!TypeOK, jobVars, histVars
<1>5. QED
    BY <1>1, <1>2, <1>3, <1>4

LEMMA TInvStep == TInv /\ [Next]_vars => TInv'
<1> SUFFICES ASSUME TInv, [Next]_vars PROVE TInv'
    OBVIOUS
<1>1. ASSUME NEW s \in Starter,
             QueryRecipients(s) \/ SetSending(s) \/ AddRecipient(s) \/ StartReturns(s)
      PROVE  TInv'
    BY <1>1, RequestTyped
<1>2. ASSUME NEW c \in Contact, TakeJob(c) \/ BackoffOver(c) \/ RemoveCompleted(c)
      PROVE  TInv'
    <2>1. QueueInv'
        BY <1>2, QueueStep DEF TInv, TakeJob, BackoffOver, RemoveCompleted, JobStep
    <2>2. CASE TakeJob(c)
        BY <2>1, <2>2 DEF TInv, QueueInv, J!TypeOK, RestInv, TakeJob, Goto, Step,
                         J!Take, J!Move, startVars, histVars
    <2>3. CASE BackoffOver(c) \/ RemoveCompleted(c)
        BY <2>1, <2>3 DEF TInv, QueueInv, J!TypeOK, RestInv, BackoffOver,
                         RemoveCompleted, J!Promote, J!Remove, J!Move, startVars,
                         histVars
    <2>4. QED
        BY <1>2, <2>2, <2>3
<1>3. ASSUME NEW c \in Contact, Handle(c)
      PROVE  TInv'
    BY <1>3, HandleTyped
<1>4. CASE Crash
    <2>1. QueueInv' /\ Active' = {}
        BY <1>4, QueueCrash DEF TInv, Crash
    <2>2. \A c \in Contact : jobState'[c] # "active"
        BY <2>1 DEF Active, J!InState
    <2>3. crashes' \in 0 .. MaxCrashes
        BY <1>4, CampaignAssumption DEF Crash, TInv, RestInv
    <2>4. QED
        BY <1>4, <2>1, <2>2, <2>3 DEF TInv, RestInv, Crash, Step
<1>5. ASSUME NEW c \in Contact, Exclude(c)
      PROVE  TInv'
    BY <1>5 DEF Exclude, TInv, QueueInv, RestInv, AttemptLeft, Active, J!InState,
                J!TypeOK, jobVars, startVars, histVars
<1>6. CASE Pause \/ UNCHANGED vars
    BY <1>6 DEF Pause, vars, TInv, QueueInv, RestInv, AttemptLeft, Active,
                J!InState, J!TypeOK, jobVars, startVars, histVars
<1>7. QED
    BY <1>1, <1>2, <1>3, <1>4, <1>5, <1>6 DEF Next

\* Every reachable state of a campaign is well typed: a handler runs exactly
\* when its job is active, and never more of them than the worker has slots.
THEOREM TypeCorrect == Spec => []TypeOK
    BY TInvInit, TInvStep, TInvTypes, PTL DEF Spec

-----------------------------------------------------------------------------
(* One message per job, and one per fault. *)

\* A job whose message has not gone out in this attempt has sent no more than
\* its faults account for.
CopiesInv ==
    \A c \in Contact :
        /\ copies[c] <= 1 + faults[c]
        /\ ~Sent(c) /\ jobState[c] \notin {"completed", "failed"}
               => copies[c] <= faults[c]

\* An action on one contact leaves the others' histories and handlers alone.
Others(c) ==
    \A d \in Contact \ {c} :
        /\ copies'[d] = copies[d] /\ faults'[d] = faults[d]
        /\ step'[d] = step[d] /\ jobState'[d] = jobState[d]

LEMMA CopiesOf ==
    ASSUME CopiesInv, NEW c \in Contact, Others(c),
           copies'[c] <= 1 + faults'[c],
           ~Sent(c)' /\ jobState'[c] \notin {"completed", "failed"}
               => copies'[c] <= faults'[c]
    PROVE  CopiesInv'
    BY DEF CopiesInv, Others, Sent

\* Actions that send nothing and record no fault keep the bound of a contact,
\* as long as they do not turn a message that is out into one that is not.
LEMMA CopiesQuiet ==
    ASSUME CopiesInv, UNCHANGED <<copies, faults>>,
           \A c \in Contact :
               ~Sent(c)' /\ jobState'[c] \notin {"completed", "failed"} =>
                   ~Sent(c) /\ jobState[c] \notin {"completed", "failed"}
    PROVE  CopiesInv'
    BY DEF CopiesInv, Sent

LEMMA CopiesHandle ==
    ASSUME TInv, CopiesInv, NEW c \in Contact, Handle(c)
    PROVE  CopiesInv'
<1>a. /\ step \in [Contact -> Step] /\ jobState \in [Contact -> J!JobState]
      /\ copies \in [Contact -> Nat] /\ faults \in [Contact -> Nat]
      /\ step[c] # "idle" => jobState[c] = "active"
    BY DEF TInv, QueueInv, J!TypeOK, RestInv
<1>1. ASSUME Throws(c), ~Sent(c) PROVE CopiesInv'
    BY <1>1, <1>a, CopiesQuiet
       DEF Throws, GiveUpAttempt, J!Fail, J!Move, Goto, Sent, histVars
<1>2. ASSUME NEW s \in Step, Proceed(c, s), Sent(c) => s \in {"conversation", "record", "done"}
      PROVE  CopiesInv'
    BY <1>2, <1>a, CopiesQuiet DEF Proceed, Goto, Sent, histVars, jobVars
<1>3. CASE CheckStatus(c) \/ CheckContact(c) \/ FindAccount(c) \/ SendBlocked(c)
    BY <1>3, <1>1, <1>2 DEF CheckStatus, CheckContact, FindAccount, SendBlocked,
                            Sent, Step
<1>4. CASE CountDelivered(c)
    BY <1>4, <1>2 DEF CountDelivered, Step
<1>5. CASE ProviderTakes(c)
    <2>1. copies[c] <= faults[c]
        BY <1>5, <1>a DEF ProviderTakes, CopiesInv, Sent
    <2>2. Others(c) /\ Sent(c)'
        BY <1>5, <1>a DEF ProviderTakes, Others, Goto, Sent, jobVars
    <2>3. copies'[c] <= 1 + faults'[c]
        BY <1>5, <1>a, <2>1 DEF ProviderTakes
    <2>4. QED
        BY <2>2, <2>3, CopiesOf
<1>6. ASSUME NEW from, NEW to \in {"record", "done"}, WriteRow(c, from, to),
             from \in {"conversation", "record"}
      PROVE  CopiesInv'
    <2>1. CASE Goto(c, to) /\ UNCHANGED <<jobVars, faults>>
        BY <1>6, <2>1, <1>a, CopiesQuiet DEF WriteRow, Goto, Sent, jobVars
    <2>2. CASE GiveUpAttempt(c) /\ faults' = [faults EXCEPT ![c] = @ + 1]
        <3>1. Others(c)
            BY <1>6, <2>2, <1>a DEF WriteRow, GiveUpAttempt, J!Fail, J!Move, Goto, Others
        <3>2. copies[c] \in Nat /\ faults[c] \in Nat /\ copies[c] <= 1 + faults[c]
            BY <1>a DEF CopiesInv
        <3>3. copies'[c] <= faults'[c] /\ faults'[c] \in Nat /\ copies'[c] \in Nat
            BY <1>6, <2>2, <1>a, <3>2 DEF WriteRow
        <3>4. copies'[c] <= 1 + faults'[c]
            BY <3>3
        <3>5. QED
            BY <3>1, <3>3, <3>4, CopiesOf
    <2>3. QED
        BY <1>6, <2>1, <2>2 DEF WriteRow
<1>7. CASE FindOrCreateConversation(c) \/ CreateMessage(c)
    BY <1>7, <1>6 DEF FindOrCreateConversation, CreateMessage
<1>8. CASE FinishJob(c)
    BY <1>8, <1>a, CopiesQuiet DEF FinishJob, J!Complete, J!Move, Goto, Sent, histVars
<1>9. QED
    BY <1>3, <1>4, <1>5, <1>7, <1>8 DEF Handle

LEMMA CopiesStep == TInv /\ CopiesInv /\ [Next]_vars => CopiesInv'
<1> SUFFICES ASSUME TInv, CopiesInv, [Next]_vars PROVE CopiesInv'
    OBVIOUS
<1>a. /\ step \in [Contact -> Step] /\ jobState \in [Contact -> J!JobState]
      /\ copies \in [Contact -> Nat] /\ faults \in [Contact -> Nat]
      /\ \A c \in Contact : step[c] # "idle" <=> jobState[c] = "active"
      /\ chosen \in [Starter -> SUBSET Contact]
    BY DEF TInv, QueueInv, J!TypeOK, RestInv
<1>1. ASSUME NEW s \in Starter, QueryRecipients(s) \/ SetSending(s) \/ StartReturns(s)
      PROVE  CopiesInv'
    BY <1>1, CopiesQuiet DEF QueryRecipients, SetSending, StartReturns, Sent,
                             jobVars, histVars
<1>2. ASSUME NEW s \in Starter, AddRecipient(s)
      PROVE  CopiesInv'
    <2>1. PICK c \in chosen[s] : J!Add(c)
        BY <1>2 DEF AddRecipient
    <2>2. QED
        BY <1>2, <2>1, <1>a, CopiesQuiet DEF AddRecipient, J!Add, J!Move, Sent, histVars
<1>3. ASSUME NEW c \in Contact, Handle(c)
      PROVE  CopiesInv'
    BY <1>3, CopiesHandle
<1>4. ASSUME NEW c \in Contact, TakeJob(c) \/ BackoffOver(c) \/ Exclude(c)
      PROVE  CopiesInv'
    BY <1>4, <1>a, CopiesQuiet DEF TakeJob, BackoffOver, Exclude, J!Take, J!Promote,
                                   J!Move, Goto, Sent, jobVars, histVars
<1>5. ASSUME NEW c \in Contact, RemoveCompleted(c)
      PROVE  CopiesInv'
    <2>1. copies'[c] = 0 /\ faults'[c] = 0 /\ Others(c)
        BY <1>5, <1>a DEF RemoveCompleted, J!Remove, J!Move, Others
    <2>2. QED
        BY <2>1, CopiesOf
<1>6. CASE Crash
    <2>1. \A c \in Contact : jobState'[c] # jobState[c] => jobState[c] = "active"
        BY <1>6, QueueCrash DEF TInv, Crash
    <2>2. ASSUME NEW c \in Contact
          PROVE  /\ copies'[c] <= 1 + faults'[c]
                 /\ jobState'[c] \notin {"completed", "failed"} => copies'[c] <= faults'[c]
        <3>1. CASE Sent(c)
            BY <1>6, <1>a, <3>1 DEF Crash, CopiesInv
        <3>2. CASE ~Sent(c)
            <4>1. faults'[c] = faults[c] /\ copies'[c] = copies[c]
                BY <1>6, <1>a, <3>2 DEF Crash
            <4>2. jobState'[c] = jobState[c] \/ jobState[c] = "active"
                BY <2>1
            <4>3. QED
                BY <3>2, <4>1, <4>2 DEF CopiesInv
        <3>3. QED
            BY <3>1, <3>2
    <2>3. QED
        BY <2>2 DEF CopiesInv
<1>7. CASE Pause \/ UNCHANGED vars
    BY <1>7, CopiesQuiet DEF Pause, vars, Sent, jobVars, histVars
<1>8. QED
    BY <1>1, <1>2, <1>3, <1>4, <1>5, <1>6, <1>7 DEF Next

LEMMA CopiesInit == Init => CopiesInv
    BY DEF Init, CopiesInv

\* A contact gets one message of a campaign, and one more for each fault after
\* a send, as long as the queue remembers its job.
THEOREM CopiesBounded == Spec => []CopiesExplained
<1>1. CopiesInv => CopiesExplained
    BY DEF CopiesInv, CopiesExplained
<1>2. QED
    BY <1>1, TInvInit, TInvStep, CopiesInit, CopiesStep, PTL DEF Spec

-----------------------------------------------------------------------------
(* What a pause lets through. *)

\* While the campaign is paused, what has leaked and what still can together
\* fit in the worker's slots: no handler passes the status check meanwhile.
PauseInv ==
    /\ status = "PAUSED" => leak + Cardinality(Committed) <= Slots
    /\ status # "PAUSED" => leak = 0

LEMMA CommittedCount ==
    ASSUME TInv
    PROVE  /\ IsFiniteSet(Committed) /\ Cardinality(Committed) \in Nat
           /\ Cardinality(Committed) <= Slots
<1>1. Committed \in SUBSET Active
    BY DEF TInv, RestInv, Committed, Active, J!InState
<1>2. IsFiniteSet(Active) /\ Cardinality(Active) \in Nat
    BY SubsetCount, ContactsFinite DEF Active, J!InState
<1>3. Cardinality(Committed) \in Nat /\ Cardinality(Committed) <= Cardinality(Active)
    BY <1>1, <1>2, SubsetCount
<1>4. QED
    BY <1>1, <1>2, <1>3, SubsetCount, CampaignAssumption DEF TInv, QueueInv

LEMMA PauseQuiet ==
    ASSUME TInv, PauseInv, UNCHANGED <<status, leak>>,
           status = "PAUSED" => Committed' \in SUBSET Committed
    PROVE  PauseInv'
<1>1. CASE status = "PAUSED"
    <2>1. /\ IsFiniteSet(Committed) /\ Cardinality(Committed) \in Nat
          /\ leak \in Nat /\ Slots \in Nat
        BY CommittedCount, CampaignAssumption DEF TInv, RestInv
    <2>2. Cardinality(Committed') \in Nat /\ Cardinality(Committed') <= Cardinality(Committed)
        BY <1>1, <2>1, SubsetCount
    <2>3. QED
        BY <1>1, <2>1, <2>2 DEF PauseInv
<1>2. CASE status # "PAUSED"
    BY <1>2 DEF PauseInv
<1>3. QED
    BY <1>1, <1>2

LEMMA PauseHandle ==
    ASSUME TInv, PauseInv, NEW c \in Contact, Handle(c)
    PROVE  PauseInv'
<1>a. step \in [Contact -> Step]
    BY DEF TInv, RestInv
<1>1. ASSUME Throws(c) PROVE PauseInv'
    BY <1>1, <1>a, PauseQuiet DEF Throws, GiveUpAttempt, Goto, Committed, histVars
<1>2. ASSUME NEW s \in Step, Proceed(c, s),
             s \in {"contact", "account", "send"} => c \in Committed \/ status # "PAUSED"
      PROVE  PauseInv'
    BY <1>2, <1>a, PauseQuiet DEF Proceed, Goto, Committed, histVars
<1>3. CASE CheckStatus(c) \/ CheckContact(c) \/ FindAccount(c) \/ SendBlocked(c)
           \/ CountDelivered(c)
    BY <1>3, <1>1, <1>2 DEF CheckStatus, CheckContact, FindAccount, SendBlocked,
                            CountDelivered, Committed, Step
<1>4. CASE ProviderTakes(c)
    <2>1. Committed' = Committed \ {c} /\ c \in Committed
        BY <1>4, <1>a DEF ProviderTakes, Goto, Committed
    <2>2. /\ IsFiniteSet(Committed) /\ Cardinality(Committed) \in Nat
          /\ leak \in Nat /\ Slots \in Nat
        BY CommittedCount, CampaignAssumption DEF TInv, RestInv
    <2>3. Cardinality(Committed') = Cardinality(Committed) - 1
        BY <2>1, <2>2, FS_RemoveElement
    <2>4. QED
        BY <1>4, <2>2, <2>3 DEF ProviderTakes, PauseInv
<1>5. CASE FindOrCreateConversation(c) \/ CreateMessage(c)
    BY <1>5, <1>a, PauseQuiet DEF FindOrCreateConversation, CreateMessage, WriteRow,
                                  GiveUpAttempt, Goto, Committed
<1>6. CASE FinishJob(c)
    BY <1>6, <1>a, PauseQuiet DEF FinishJob, Goto, Committed, histVars
<1>7. QED
    BY <1>3, <1>4, <1>5, <1>6 DEF Handle

LEMMA PauseStep == TInv /\ PauseInv /\ [Next]_vars => PauseInv'
<1> SUFFICES ASSUME TInv, PauseInv, [Next]_vars PROVE PauseInv'
    OBVIOUS
<1>a. step \in [Contact -> Step]
    BY DEF TInv, RestInv
<1>1. ASSUME NEW s \in Starter, QueryRecipients(s) \/ AddRecipient(s) \/ StartReturns(s)
      PROVE  PauseInv'
    BY <1>1, PauseQuiet DEF QueryRecipients, AddRecipient, StartReturns, Committed,
                            histVars
<1>2. ASSUME NEW s \in Starter, SetSending(s)
      PROVE  PauseInv'
    <2>1. CASE status' = "SENDING" /\ leak' = 0
        BY <2>1 DEF PauseInv
    <2>2. CASE UNCHANGED <<status, leak>>
        BY <1>2, <2>2, PauseQuiet DEF SetSending, Committed
    <2>3. QED
        BY <1>2, <2>1, <2>2 DEF SetSending
<1>3. ASSUME NEW c \in Contact, Handle(c)
      PROVE  PauseInv'
    BY <1>3, PauseHandle
<1>4. ASSUME NEW c \in Contact,
             TakeJob(c) \/ BackoffOver(c) \/ RemoveCompleted(c) \/ Exclude(c)
      PROVE  PauseInv'
    BY <1>4, <1>a, PauseQuiet DEF TakeJob, BackoffOver, RemoveCompleted, Exclude,
                                  Goto, Committed, histVars
<1>5. CASE Pause
    <2>1. Committed' = Committed /\ leak' = leak /\ status' = "PAUSED"
        BY <1>5 DEF Pause, Committed, histVars
    <2>2. leak \in Nat /\ Cardinality(Committed) \in Nat /\ Cardinality(Committed) <= Slots
        BY CommittedCount DEF TInv, RestInv
    <2>3. QED
        BY <2>1, <2>2 DEF PauseInv
<1>6. CASE Crash
    <2>1. Committed' = {}
        BY <1>6 DEF Crash, Committed
    <2>2. QED
        BY <1>6, <2>1, PauseQuiet DEF Crash
<1>7. CASE UNCHANGED vars
    BY <1>7, PauseQuiet DEF vars, Committed, histVars
<1>8. QED
    BY <1>1, <1>2, <1>3, <1>4, <1>5, <1>6, <1>7 DEF Next

LEMMA PauseInit == Init => PauseInv
    BY DEF Init, PauseInv

\* After a pause at most one message per worker slot still goes out, however
\* many jobs wait, are retried or were stalled.
THEOREM PauseLeak == Spec => []PauseLeakBounded
<1>1. TInv /\ PauseInv => PauseLeakBounded
    BY CommittedCount, CampaignAssumption DEF PauseInv, PauseLeakBounded, TInv, RestInv
<1>2. QED
    BY <1>1, TInvInit, TInvStep, PauseInit, PauseStep, PTL DEF Spec

-----------------------------------------------------------------------------
(* Opting out. *)

\* A contact that got a message after opting out is not about to get another:
\* the handler reads the flag again before each attempt, and it stays set.
OptOutInv ==
    \A c \in Contact :
        /\ unwanted[c] \in {0, 1}
        /\ unwanted[c] = 1 => c \in excluded /\ step[c] \notin {"account", "send"}

LEMMA OptOutStep == TInv /\ OptOutInv /\ [Next]_vars => OptOutInv'
<1> SUFFICES ASSUME TInv, OptOutInv, [Next]_vars PROVE OptOutInv'
    OBVIOUS
<1>a. step \in [Contact -> Step] /\ unwanted \in [Contact -> Nat]
    BY DEF TInv, RestInv
<1>1. ASSUME NEW s \in Starter,
             QueryRecipients(s) \/ SetSending(s) \/ AddRecipient(s) \/ StartReturns(s)
      PROVE  OptOutInv'
    BY <1>1 DEF QueryRecipients, SetSending, AddRecipient, StartReturns, OptOutInv,
                histVars
<1>2. ASSUME NEW c \in Contact, NEW s \in Step, Proceed(c, s),
             s \in {"account", "send"} => c \notin excluded \/ step[c] \in {"account", "send"}
      PROVE  OptOutInv'
    BY <1>2, <1>a DEF Proceed, Goto, OptOutInv, histVars
<1>3. ASSUME NEW c \in Contact, GiveUpAttempt(c), UNCHANGED <<excluded, unwanted>>
      PROVE  OptOutInv'
    BY <1>3, <1>a DEF GiveUpAttempt, Goto, OptOutInv
<1>4. ASSUME NEW c \in Contact, Handle(c)
      PROVE  OptOutInv'
    <2>1. CASE CheckStatus(c) \/ CheckContact(c) \/ FindAccount(c) \/ SendBlocked(c)
               \/ CountDelivered(c)
        BY <2>1, <1>2, <1>3 DEF CheckStatus, CheckContact, FindAccount, SendBlocked,
                                CountDelivered, Throws, Step, histVars
    <2>2. CASE ProviderTakes(c)
        <3>1. unwanted[c] = 0
            BY <2>2 DEF ProviderTakes, OptOutInv
        <3>2. QED
            BY <2>2, <3>1, <1>a DEF ProviderTakes, Goto, OptOutInv
    <2>3. CASE FindOrCreateConversation(c) \/ CreateMessage(c)
        BY <2>3, <1>3, <1>a DEF FindOrCreateConversation, CreateMessage, WriteRow,
                                Goto, OptOutInv
    <2>4. CASE FinishJob(c)
        BY <2>4, <1>a DEF FinishJob, Goto, OptOutInv, histVars
    <2>5. QED
        BY <1>4, <2>1, <2>2, <2>3, <2>4 DEF Handle
<1>5. ASSUME NEW c \in Contact,
             TakeJob(c) \/ BackoffOver(c) \/ RemoveCompleted(c) \/ Exclude(c)
      PROVE  OptOutInv'
    BY <1>5, <1>a DEF TakeJob, BackoffOver, RemoveCompleted, Exclude, Goto,
                      OptOutInv, histVars
<1>6. CASE Pause \/ Crash \/ UNCHANGED vars
    BY <1>6 DEF Pause, Crash, vars, OptOutInv, histVars
<1>7. QED
    BY <1>1, <1>4, <1>5, <1>6 DEF Next

LEMMA OptOutInit == Init => OptOutInv
    BY DEF Init, OptOutInv

\* A contact that opts out gets at most the one message that had passed the
\* check already, whatever retries and restarts follow.
THEOREM OptOut == Spec => []OptOutRespected
<1>1. OptOutInv => OptOutRespected
    BY DEF OptOutInv, OptOutRespected
<1>2. QED
    BY <1>1, TInvInit, TInvStep, OptOutInit, OptOutStep, PTL DEF Spec
=============================================================================
