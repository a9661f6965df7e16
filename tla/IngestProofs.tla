---------------------------- MODULE IngestProofs ----------------------------
(***************************************************************************)
(* Theorems about Ingest, for every number of deliveries handled at once,  *)
(* every grouping of the messages and every bound.                         *)
(***************************************************************************)
EXTENDS Ingest, FiniteSetTheorems, SequenceTheorems, TLAPS

\* The end of a message leaves a well-formed request, whatever it was doing.
LEMMA NextMessageType ==
  ASSUME TypeOK, NEW r \in Request, step[r] # "idle",
         NextMessage(r)
  PROVE  /\ step' \in [Request -> Step]
         /\ todo' \in [Request -> Seq(Msg)]
         /\ found' \in [Request -> 0 .. Len(convs)]
         /\ \A q \in Request : step'[q] # "idle" => todo'[q] # <<>>
         /\ \A q \in Request \ {r} : step'[q] = step[q] /\ todo'[q] = todo[q]
         /\ step'[r] \in {"idle", "find"}
  <1>1. todo[r] \in Seq(Msg) /\ todo[r] # <<>>
    BY DEF TypeOK
  <1>2. /\ Len(todo[r]) \in Nat \ {0}
        /\ Tail(todo[r]) \in Seq(Msg)
        /\ Len(Tail(todo[r])) = Len(todo[r]) - 1
    BY <1>1, HeadTailProperties, EmptySeq
  <1>3. Len(todo[r]) # 1 => Tail(todo[r]) # <<>>
    <2>1. Len(<<>>) = 0
      BY EmptySeq
    <2>2. Len(todo[r]) # 1 => Len(Tail(todo[r])) # Len(<<>>)
      BY <1>2, <2>1
    <2>3. QED
      BY <2>2, Zenon
  <1>4. /\ todo' \in [Request -> Seq(Msg)]
        /\ todo'[r] = Tail(todo[r])
        /\ \A q \in Request \ {r} : todo'[q] = todo[q]
    BY <1>2 DEF NextMessage, TypeOK
  <1>5. /\ step' \in [Request -> Step]
        /\ step'[r] = IF Len(todo[r]) = 1 THEN "idle" ELSE "find"
        /\ \A q \in Request \ {r} : step'[q] = step[q]
    BY DEF NextMessage, Goto, TypeOK, Step
  <1>6. found' \in [Request -> 0 .. Len(convs)]
    <2>1. Len(convs) \in Nat
      BY LenProperties DEF TypeOK
    <2>2. QED
      BY <2>1 DEF NextMessage, TypeOK
  <1>7. QED
    BY <1>3, <1>4, <1>5, <1>6 DEF TypeOK

\* The sender of a message in progress is a phone, the message a message.
LEMMA CurrentType ==
  ASSUME TypeOK, NEW r \in Request, step[r] # "idle"
  PROVE  Current(r) \in Msg /\ Sender(r) \in Phone
  <1>1. Current(r) \in Msg
    BY HeadTailProperties DEF TypeOK, Current
  <1>2. QED
    BY <1>1, IngestAssumption DEF Sender

\* A failed message leaves the rows alone and the request well formed.
LEMMA SwallowType ==
  ASSUME TypeOK, NEW r \in Request, step[r] # "idle", Swallow(r),
         UNCHANGED opening
  PROVE  TypeOK'
  BY NextMessageType, CurrentType DEF Swallow, TypeOK, rowVars

\* A new conversation is one row more, and leaves the others.
LEMMA Appended ==
  ASSUME TypeOK, NEW p \in Phone,
         convs' = Append(convs, [phone |-> p, resolved |-> FALSE])
  PROVE  /\ convs' \in Seq(Conversation)
         /\ Len(convs) \in Nat /\ Len(convs') = Len(convs) + 1
         /\ DOMAIN convs = 1 .. Len(convs)
         /\ DOMAIN convs' = 1 .. Len(convs) + 1
         /\ \A d \in DOMAIN convs : convs'[d] = convs[d]
         /\ convs'[Len(convs) + 1].phone = p
  <1>1. [phone |-> p, resolved |-> FALSE] \in Conversation
    BY DEF Conversation
  <1>2. QED
    BY <1>1, AppendProperties, LenProperties DEF TypeOK

\* Every step of a delivery, of the agents and of a campaign keeps every
\* variable typed: the conversation a request works with exists, and a request
\* that runs has a message.
LEMMA TypeStep == TypeOK /\ [Next]_vars => TypeOK'
  <1> SUFFICES ASSUME TypeOK, [Next]_vars
               PROVE  TypeOK'
    OBVIOUS
  <1> USE DEF rowVars, reqVars, histVars
  <1>a. Len(convs) \in Nat
    BY LenProperties DEF TypeOK
  <1>1. ASSUME NEW r \in Request, Handle(r)
        PROVE  TypeOK'
    <2>o. opening' = opening
      BY <1>1 DEF Handle
    <2>0. step[r] # "idle"
      BY <1>1 DEF Handle, ApplyUpdates, FindDuplicate, UpsertContact,
                  FindConversation, CreateConversation, CreateMessage,
                  TouchConversation, Enqueue
    <2> DEFINE m == Current(r)
    <2>a. m \in Msg /\ Sender(r) \in Phone
      BY <2>0, CurrentType
    <2>b. CASE Swallow(r)
      BY <2>o, <2>0, <2>b, SwallowType
    <2>1. CASE ApplyUpdates(r)
      <3>1. CASE Goto(r, "find") /\ UNCHANGED <<todo, found, failed>>
        BY <2>o, <2>1, <3>1, <2>0 DEF ApplyUpdates, Goto, TypeOK, Step
      <3>2. CASE /\ AbortBatch(r)
                 /\ failed' = failed \cup {todo[r][i] : i \in DOMAIN todo[r]}
        <4>1. {todo[r][i] : i \in DOMAIN todo[r]} \subseteq Msg
          BY ElementOfSeq, LenProperties DEF TypeOK
        <4>2. <<>> \in Seq(Msg)
          BY EmptySeq
        <4>3. QED
          BY <2>o, <2>1, <3>2, <4>1, <4>2, <1>a
             DEF ApplyUpdates, AbortBatch, Goto, TypeOK, Step
      <3>3. QED
        BY <2>1, <3>1, <3>2 DEF ApplyUpdates
    <2>2. CASE FindDuplicate(r) /\ ~Swallow(r)
      <3>1. CASE NextMessage(r) /\ UNCHANGED <<rowVars, histVars>>
        BY <2>o, <3>1, <2>0, NextMessageType DEF TypeOK
      <3>2. CASE Goto(r, "contact") /\ UNCHANGED <<rowVars, todo, found, histVars>>
        BY <2>o, <3>2, <2>0 DEF TypeOK, Goto, Step
      <3>3. QED
        BY <2>2, <3>1, <3>2 DEF FindDuplicate
    <2>3. CASE UpsertContact(r) /\ ~Swallow(r)
      BY <2>o, <2>3, <2>a, <2>0 DEF UpsertContact, TypeOK, Goto, Step
    <2>4. CASE FindConversation(r) /\ ~Swallow(r)
      <3>1. CASE Goto(r, "create") /\ UNCHANGED <<rowVars, todo, found, histVars>>
        BY <2>o, <3>1, <2>0 DEF TypeOK, Goto, Step
      <3>2. ASSUME NEW c \in Open(Sender(r)),
                   found' = [found EXCEPT ![r] = c], Goto(r, "store"),
                   UNCHANGED <<rowVars, todo, histVars>>
            PROVE  TypeOK'
        <4>1. c \in 0 .. Len(convs)
          BY <1>a, LenProperties DEF Open, Of, TypeOK
        <4>2. QED
          BY <2>o, <3>2, <2>0, <4>1 DEF TypeOK, Goto, Step
      <3>3. QED
        BY <2>4, <3>1, <3>2 DEF FindConversation
    <2>5. CASE CreateConversation(r) /\ ~Swallow(r)
      <3>2. convs' = Append(convs, [phone |-> Sender(r), resolved |-> FALSE])
        BY <2>5 DEF CreateConversation
      <3>3. convs' \in Seq(Conversation) /\ Len(convs') = Len(convs) + 1
        BY <3>2, <2>a, Appended
      <3>4. 0 .. Len(convs) \subseteq 0 .. Len(convs') /\ Len(convs) + 1 \in 0 .. Len(convs')
        BY <3>3, <1>a
      <3>5. found' \in [Request -> 0 .. Len(convs')]
        BY <2>5, <3>4 DEF CreateConversation, TypeOK
      <3>7. QED
        BY <2>5, <3>3, <3>5, <2>0, <2>o
           DEF CreateConversation, TypeOK, Goto, Step
    <2>6. CASE CreateMessage(r) /\ ~Swallow(r)
      <3>1. stored' = [stored EXCEPT ![m] = @ + 1]
        BY <2>6 DEF CreateMessage
      <3>2. stored' \in [Msg -> Nat]
        BY <3>1, <2>a DEF TypeOK
      <3>3. QED
        BY <2>6, <3>2, <2>0, <2>o DEF CreateMessage, TypeOK, Goto, Step
    <2>7. CASE TouchConversation(r)
      <3>1. CASE /\ NextMessage(r)
                 /\ lost' = lost \cup {m}
                 /\ UNCHANGED <<rowVars, failed, deliveries, reopened>>
        BY <3>1, <2>0, <2>a, <2>o, NextMessageType DEF TypeOK
      <3>2. CASE Goto(r, "enqueue") /\ UNCHANGED <<rowVars, todo, found, histVars>>
        BY <3>2, <2>0, <2>o DEF TypeOK, Goto, Step
      <3>3. QED
        BY <2>7, <3>1, <3>2 DEF TouchConversation
    <2>8. CASE Enqueue(r)
      <3>1. queued' \in [Msg -> Nat]
        BY <2>8, <2>a DEF Enqueue, TypeOK
      <3>2. QED
        BY <2>o, <2>8, <3>1, <2>0, NextMessageType DEF Enqueue, TypeOK
    <2>9. QED
      BY <1>1, <2>b, <2>1, <2>2, <2>3, <2>4, <2>5, <2>6, <2>7, <2>8 DEF Handle
  <1>2. ASSUME NEW r \in Request, NEW batch \in Batch, Deliver(r, batch)
        PROVE  TypeOK'
    <2>1. batch \in Seq(Msg) /\ batch # <<>>
      BY IngestAssumption
    <2>2. QED
      BY <1>2, <2>1 DEF Deliver, TypeOK, Goto, Step
  <1>3. ASSUME NEW c \in DOMAIN convs, NEW v \in BOOLEAN,
               convs' = [convs EXCEPT ![c].resolved = v]
        PROVE  convs' \in Seq(Conversation) /\ Len(convs') = Len(convs)
    <2>1. c \in 1 .. Len(convs)
      BY LenProperties DEF TypeOK
    <2>4. convs[c] \in Conversation
      BY <2>1, ElementOfSeq DEF TypeOK
    <2>2. [convs[c] EXCEPT !.resolved = v] \in Conversation
      BY <2>4 DEF Conversation
    <2>3. QED
      BY <1>3, <2>1, <2>2, ExceptSeq DEF TypeOK
  <1>4. ASSUME NEW c \in DOMAIN convs, Resolve(c)
        PROVE  TypeOK'
    BY <1>3, <1>4 DEF Resolve, TypeOK
  <1>5. ASSUME NEW c \in DOMAIN convs, Assign(c)
        PROVE  TypeOK'
    <2>0. convs[c] \in Conversation
      BY ElementOfSeq, LenProperties DEF TypeOK
    <2>1. reopened' \in [Phone -> Nat]
      BY <1>5, <2>0 DEF Assign, TypeOK, Conversation
    <2>2. QED
      BY <1>3, <1>5, <2>1 DEF Assign, TypeOK
  <1>6. CASE Crash
    <2>1. \A r \in Request : Unstored(r) \subseteq Msg
      BY ElementOfSeq, LenProperties DEF Unstored, TypeOK
    <2>2. failed' \subseteq Msg /\ lost' \subseteq Msg
      BY <1>6, <2>1 DEF Crash, TypeOK
    <2>3. <<>> \in Seq(Msg)
      BY EmptySeq
    <2>4. QED
      BY <1>6, <2>2, <2>3, <1>a DEF Crash, TypeOK, Step
  <1>7. CASE UNCHANGED vars
    BY <1>7 DEF vars, TypeOK
  <1>8. ASSUME NEW k \in Campaigner, NEW p \in Phone, FindForCampaign(k, p)
        PROVE  TypeOK'
    BY <1>8 DEF FindForCampaign, TypeOK
  <1>9. ASSUME NEW k \in Campaigner, CreateForCampaign(k)
        PROVE  TypeOK'
    <2>1. opening[k] \in Phone /\ opening' \in [Campaigner -> Phone \cup {NoPhone}]
      BY <1>9 DEF CreateForCampaign, TypeOK
    <2>2. CASE UNCHANGED convs
      BY <1>9, <2>1, <2>2 DEF CreateForCampaign, TypeOK
    <2>3. CASE ~UNCHANGED convs
      <3>1. convs' = Append(convs, [phone |-> opening[k], resolved |-> FALSE])
        BY <1>9, <2>3 DEF CreateForCampaign
      <3>2. convs' \in Seq(Conversation) /\ Len(convs') = Len(convs) + 1
        BY <2>1, <3>1, Appended
      <3>3. 0 .. Len(convs) \subseteq 0 .. Len(convs')
        BY <3>2, <1>a
      <3>4. found' \in [Request -> 0 .. Len(convs')]
        BY <1>9, <3>3 DEF CreateForCampaign, TypeOK
      <3>5. QED
        BY <1>9, <2>1, <3>2, <3>4 DEF CreateForCampaign, TypeOK
    <2>4. QED
      BY <2>2, <2>3
  <1>10. QED
    BY <1>1, <1>2, <1>4, <1>5, <1>6, <1>7, <1>8, <1>9 DEF Next

\* Nothing is stored and no request runs at the start.
LEMMA TypeInit == Init => TypeOK
  <1>1. <<>> \in Seq(Conversation) /\ <<>> \in Seq(Msg) /\ Len(<<>>) = 0
    BY EmptySeq
  <1>2. QED
    BY <1>1, IngestAssumption DEF Init, TypeOK, Step

\* TypeOK holds in every reachable state of the webhook.
THEOREM TypeCorrect == Spec => []TypeOK
  BY TypeInit, TypeStep, PTL DEF Spec

-----------------------------------------------------------------------------
(* One row and one job for each message with an id. *)

\* A step that leaves the rows and jobs of m alone, and moves no request into
\* the span between m's row and m's job.
Quiet(m) ==
    /\ stored'[m] = stored[m] /\ queued'[m] = queued[m]
    /\ lost \subseteq lost'
    /\ \A r \in Request : /\ Holds(r, m)' => Holds(r, m)
                          /\ Holds(r, m) => Holds(r, m)' \/ m \in lost'

\* Request r stores m, and goes on to its job.
Stores(r, m) ==
    /\ stored[m] = 0 /\ stored'[m] = 1
    /\ queued'[m] = queued[m]
    /\ lost' = lost
    /\ Holds(r, m)'
    /\ \A q \in Request \ {r} : Holds(q, m)' <=> Holds(q, m)

\* Request r adds m's job, and is done with m.
Queues(r, m) ==
    /\ Holds(r, m)
    /\ stored'[m] = stored[m]
    /\ queued'[m] = queued[m] + 1
    /\ lost' = lost
    /\ ~Holds(r, m)'
    /\ \A q \in Request \ {r} : Holds(q, m)' <=> Holds(q, m)

\* A request whose step does not change keeps what it holds.
LEMMA HoldsFrame ==
  ASSUME NEW q, NEW m, step'[q] = step[q], todo'[q] = todo[q]
  PROVE  Holds(q, m)' <=> Holds(q, m)
  BY DEF Holds, Current

\* A request that is over with its message holds none.
LEMMA NextMessageHolds ==
  ASSUME TypeOK, NEW r \in Request, step[r] # "idle", NextMessage(r), NEW m
  PROVE  /\ ~Holds(r, m)'
         /\ \A q \in Request \ {r} : Holds(q, m)' <=> Holds(q, m)
  BY NextMessageType, HoldsFrame DEF Holds

\* What a step does to a message with an id: nothing, its row, or its job.
LEMMA StepKinds ==
  ASSUME TypeOK, [Next]_vars, NEW m \in Identified
  PROVE  \/ Quiet(m)
         \/ \E r \in Request : Stores(r, m) \/ Queues(r, m)
  <1> USE DEF rowVars, reqVars, histVars
  <1>0. m \in Msg /\ m \notin Anonymous
    BY DEF Identified
  <1>a. ASSUME UNCHANGED <<stored, queued, lost>>, NEW r \in Request,
               \A q \in Request \ {r} : step'[q] = step[q] /\ todo'[q] = todo[q],
               ~Holds(r, m)', ~Holds(r, m)
        PROVE  Quiet(m)
    BY <1>a, HoldsFrame DEF Quiet
  <1>1. ASSUME NEW r \in Request, Handle(r)
        PROVE  \/ Quiet(m)
               \/ Stores(r, m) \/ Queues(r, m)
    <2>b. CASE step[r] \notin {"idle", "touch", "enqueue"} /\ Swallow(r)
      <3>1. step[r] # "idle" /\ ~Holds(r, m)
        BY <2>b DEF Holds
      <3>2. UNCHANGED <<stored, queued, lost>> /\ NextMessage(r)
        BY <2>b DEF Swallow
      <3>3. QED
        BY <3>1, <3>2, <1>a, NextMessageType, NextMessageHolds
    <2>c. ASSUME step[r] \notin {"idle", "touch", "enqueue"},
                 NEW s \in Step \ {"touch", "enqueue"}, Goto(r, s),
                 UNCHANGED <<stored, queued, lost, todo>>
          PROVE  Quiet(m)
      <3>1. step'[r] = s /\ \A q \in Request \ {r} : step'[q] = step[q]
        BY <2>c DEF Goto, TypeOK
      <3>2. ~Holds(r, m)' /\ ~Holds(r, m)
        BY <3>1, <2>c DEF Holds
      <3>3. QED
        BY <3>1, <3>2, <2>c, <1>a
    <2>1. CASE ApplyUpdates(r)
      <3>1. CASE Goto(r, "find") /\ UNCHANGED todo
        BY <3>1, <2>1, <2>c DEF ApplyUpdates, Step
      <3>2. CASE AbortBatch(r)
        <4>1. step'[r] = "idle" /\ \A q \in Request \ {r} :
                                       step'[q] = step[q] /\ todo'[q] = todo[q]
          BY <3>2 DEF AbortBatch, Goto, TypeOK
        <4>2. ~Holds(r, m)' /\ ~Holds(r, m)
          BY <4>1, <2>1 DEF Holds, ApplyUpdates
        <4>3. QED
          BY <4>1, <4>2, <2>1, <1>a DEF ApplyUpdates
      <3>3. QED
        BY <2>1, <3>1, <3>2 DEF ApplyUpdates
    <2>2. CASE FindDuplicate(r)
      <3>1. CASE NextMessage(r) /\ UNCHANGED <<rowVars, histVars>>
        <4>1. step[r] # "idle" /\ ~Holds(r, m)
          BY <2>2 DEF Holds, FindDuplicate
        <4>2. QED
          BY <3>1, <4>1, <1>a, NextMessageType, NextMessageHolds
      <3>2. QED
        BY <3>1, <2>2, <2>b, <2>c DEF FindDuplicate, Step
    <2>3. CASE UpsertContact(r)
      BY <2>3, <2>b, <2>c DEF UpsertContact, Step
    <2>4. CASE FindConversation(r)
      BY <2>4, <2>b, <2>c DEF FindConversation, Step
    <2>5. CASE CreateConversation(r)
      BY <2>5, <2>b, <2>c DEF CreateConversation, Step
    <2>6. CASE CreateMessage(r) /\ ~Swallow(r)
      <3>1. /\ step[r] = "store" /\ step'[r] = "touch"
            /\ todo' = todo /\ \A q \in Request \ {r} : step'[q] = step[q]
            /\ UNCHANGED <<queued, lost>>
            /\ stored' = [stored EXCEPT ![Current(r)] = @ + 1]
            /\ Current(r) \in Anonymous \/ stored[Current(r)] = 0
        BY <2>6 DEF CreateMessage, Goto, TypeOK
      <3>2. Current(r)' = Current(r)
        BY <3>1 DEF Current
      <3>3. CASE Current(r) = m
        <4>1. stored[m] = 0 /\ stored'[m] = 1
          BY <3>1, <3>3, <1>0 DEF TypeOK
        <4>2. Holds(r, m)'
          BY <3>1, <3>2, <3>3 DEF Holds
        <4>3. QED
          BY <3>1, <4>1, <4>2, HoldsFrame DEF Stores
      <3>4. CASE Current(r) # m
        <4>1. stored'[m] = stored[m]
          BY <3>1, <3>4, <1>0 DEF TypeOK
        <4>2. ~Holds(r, m)' /\ ~Holds(r, m)
          BY <3>2, <3>4 DEF Holds
        <4>3. QED
          BY <3>1, <4>1, <4>2, HoldsFrame DEF Quiet
      <3>5. QED
        BY <3>3, <3>4
    <2>7. CASE TouchConversation(r)
      <3>1. CASE /\ NextMessage(r)
                 /\ lost' = lost \cup {Current(r)}
                 /\ UNCHANGED rowVars
        <4>1. step[r] # "idle"
          BY <2>7 DEF TouchConversation
        <4>2. /\ ~Holds(r, m)'
              /\ \A q \in Request \ {r} : Holds(q, m)' <=> Holds(q, m)
          BY <3>1, <4>1, NextMessageHolds
        <4>3. Holds(r, m) => m \in lost'
          BY <3>1 DEF Holds
        <4>4. QED
          BY <3>1, <4>2, <4>3 DEF Quiet
      <3>2. CASE Goto(r, "enqueue") /\ UNCHANGED <<rowVars, todo, histVars>>
        <4>1. step[r] = "touch" /\ step'[r] = "enqueue"
              /\ \A q \in Request \ {r} : step'[q] = step[q]
          BY <2>7, <3>2 DEF TouchConversation, Goto, TypeOK
        <4>2. Holds(r, m)' <=> Holds(r, m)
          BY <3>2, <4>1 DEF Holds, Current
        <4>3. QED
          BY <3>2, <4>1, <4>2, HoldsFrame DEF Quiet
      <3>3. QED
        BY <2>7, <3>1, <3>2 DEF TouchConversation
    <2>8. CASE Enqueue(r)
      <3>1. step[r] = "enqueue" /\ step[r] # "idle" /\ NextMessage(r)
            /\ queued' = [queued EXCEPT ![Current(r)] = @ + 1]
            /\ UNCHANGED <<stored, lost>>
        BY <2>8 DEF Enqueue
      <3>2. /\ ~Holds(r, m)'
            /\ \A q \in Request \ {r} : Holds(q, m)' <=> Holds(q, m)
        BY <3>1, NextMessageHolds
      <3>3. CASE Current(r) = m
        <4>1. queued'[m] = queued[m] + 1 /\ Holds(r, m)
          BY <3>1, <3>3, <1>0 DEF TypeOK, Holds
        <4>2. QED
          BY <3>1, <3>2, <4>1 DEF Queues
      <3>4. CASE Current(r) # m
        <4>1. queued'[m] = queued[m] /\ ~Holds(r, m)
          BY <3>1, <3>4, <1>0 DEF TypeOK, Holds
        <4>2. QED
          BY <3>1, <3>2, <4>1 DEF Quiet
      <3>5. QED
        BY <3>3, <3>4
    <2>9. CASE CreateMessage(r) /\ Swallow(r)
      BY <2>9, <2>b DEF CreateMessage
    <2>10. QED
      BY <1>1, <2>1, <2>2, <2>3, <2>4, <2>5, <2>6, <2>7, <2>8, <2>9 DEF Handle
  <1>2. ASSUME NEW r \in Request, NEW batch \in Batch, Deliver(r, batch)
        PROVE  Quiet(m)
    <2>1. /\ step[r] = "idle" /\ step'[r] = "updates"
          /\ \A q \in Request \ {r} : step'[q] = step[q] /\ todo'[q] = todo[q]
          /\ UNCHANGED <<stored, queued, lost>>
      BY <1>2 DEF Deliver, Goto, TypeOK
    <2>2. ~Holds(r, m)' /\ ~Holds(r, m)
      BY <2>1 DEF Holds
    <2>3. QED
      BY <2>1, <2>2, <1>a
  <1>3. ASSUME UNCHANGED <<stored, queued, lost, step, todo>>
        PROVE  Quiet(m)
    BY <1>3, HoldsFrame DEF Quiet
  <1>4. ASSUME NEW c \in DOMAIN convs, Resolve(c) \/ Assign(c)
        PROVE  Quiet(m)
    BY <1>3, <1>4 DEF Resolve, Assign
  <1>5. CASE Crash
    <2>1. \A r \in Request : ~Holds(r, m)'
      BY <1>5 DEF Crash, Holds
    <2>2. /\ UNCHANGED <<stored, queued>> /\ lost \subseteq lost'
          /\ \A r \in Request : Holds(r, m) => m \in lost'
      BY <1>5, <1>0 DEF Crash
    <2>3. QED
      BY <2>1, <2>2 DEF Quiet
  <1>6. CASE UNCHANGED vars
    BY <1>3, <1>6 DEF vars
  <1>7. ASSUME NEW k \in Campaigner,
               CreateForCampaign(k) \/ \E p \in Phone : FindForCampaign(k, p)
        PROVE  Quiet(m)
    BY <1>3, <1>7 DEF CreateForCampaign, FindForCampaign
  <1>8. QED
    BY <1>1, <1>2, <1>4, <1>5, <1>6, <1>7 DEF Next

\* The rows and jobs of a message with an id: at most one of each, the row
\* first, and at most one request between the two.
OncePerMessage ==
    \A m \in Identified :
        /\ queued[m] <= stored[m] /\ stored[m] <= 1
        /\ \A r \in Request : Holds(r, m) =>
               /\ stored[m] = 1 /\ queued[m] = 0
               /\ \A q \in Request : Holds(q, m) => q = r

\* A step keeps the rows and jobs of a message within one, and whoever leaves
\* the span between them without the job leaves the message in lost.
LEMMA OnceStep ==
  TypeOK /\ OncePerMessage /\ NothingForgotten /\ [Next]_vars
      => OncePerMessage' /\ NothingForgotten'
  <1> SUFFICES ASSUME TypeOK, OncePerMessage, NothingForgotten, [Next]_vars,
                      NEW m \in Identified
               PROVE  /\ queued'[m] <= stored'[m] /\ stored'[m] <= 1
                      /\ \A r \in Request : Holds(r, m)' =>
                            /\ stored'[m] = 1 /\ queued'[m] = 0
                            /\ \A q \in Request : Holds(q, m)' => q = r
                      /\ stored'[m] > queued'[m] =>
                            m \in lost' \/ \E r \in Request : Holds(r, m)'
    BY DEF OncePerMessage, NothingForgotten
  <1>1. stored[m] \in Nat /\ queued[m] \in Nat
    BY DEF TypeOK, Identified
  <1>2. /\ queued[m] <= stored[m] /\ stored[m] <= 1
        /\ \A r \in Request : Holds(r, m) =>
               /\ stored[m] = 1 /\ queued[m] = 0
               /\ \A q \in Request : Holds(q, m) => q = r
    BY DEF OncePerMessage
  <1>3. stored[m] > queued[m] => m \in lost \/ \E r \in Request : Holds(r, m)
    BY DEF NothingForgotten
  <1>4. CASE Quiet(m)
    BY <1>1, <1>2, <1>3, <1>4 DEF Quiet
  <1>5. ASSUME NEW r \in Request, Stores(r, m)
        PROVE  /\ stored'[m] = 1 /\ queued'[m] = 0 /\ Holds(r, m)'
               /\ \A q \in Request : Holds(q, m)' => q = r
    BY <1>1, <1>2, <1>5 DEF Stores
  <1>6. ASSUME NEW r \in Request, Queues(r, m)
        PROVE  /\ stored'[m] = 1 /\ queued'[m] = 1
               /\ \A q \in Request : ~Holds(q, m)'
    BY <1>1, <1>2, <1>6 DEF Queues
  <1>7. QED
    BY <1>4, <1>5, <1>6, StepKinds

\* No message is stored without a job on its way, unless a fault hit between
\* the two writes: for every number of concurrent deliveries.
THEOREM StoredMessagesAccounted == Spec => []NothingForgotten
  <1>1. Init => OncePerMessage /\ NothingForgotten
    BY DEF Init, OncePerMessage, NothingForgotten, Holds, Identified
  <1>2. QED
    BY <1>1, TypeInit, TypeStep, OnceStep, PTL DEF Spec

-----------------------------------------------------------------------------
(* Ingest implements Inbox. *)

\* The only writes of rows and jobs: CreateMessage and Enqueue.
LEMMA Writes ==
  ASSUME [Next]_vars
  PROVE  \/ UNCHANGED <<stored, queued>>
         \/ \E r \in Request :
               /\ step[r] = "store"
               /\ Current(r) \in Anonymous \/ stored[Current(r)] = 0
               /\ stored' = [stored EXCEPT ![Current(r)] = @ + 1]
               /\ queued' = queued
         \/ \E r \in Request :
               /\ step[r] = "enqueue"
               /\ stored' = stored
               /\ queued' = [queued EXCEPT ![Current(r)] = @ + 1]
  <1> USE DEF rowVars, reqVars, histVars
  <1>a. ASSUME NEW r \in Request, Swallow(r)
        PROVE  UNCHANGED <<stored, queued>>
    BY <1>a DEF Swallow
  <1>1. ASSUME NEW r \in Request, Handle(r), step[r] \notin {"store", "enqueue"}
        PROVE  UNCHANGED <<stored, queued>>
    BY <1>1, <1>a DEF Handle, ApplyUpdates, FindDuplicate, UpsertContact,
                      FindConversation, CreateConversation, CreateMessage,
                      TouchConversation, Enqueue
  <1>2. ASSUME NEW r \in Request, Handle(r), step[r] \in {"store", "enqueue"}
        PROVE  CreateMessage(r) \/ Enqueue(r)
    BY <1>2 DEF Handle, ApplyUpdates, FindDuplicate, UpsertContact,
                FindConversation, CreateConversation, TouchConversation
  <1>3. ASSUME NEW r \in Request, NEW batch \in Batch, Deliver(r, batch)
        PROVE  UNCHANGED <<stored, queued>>
    BY <1>3 DEF Deliver
  <1>4. ASSUME NEW c \in DOMAIN convs, Resolve(c) \/ Assign(c)
        PROVE  UNCHANGED <<stored, queued>>
    BY <1>4 DEF Resolve, Assign
  <1>5. Crash \/ UNCHANGED vars => UNCHANGED <<stored, queued>>
    BY DEF Crash, vars
  <1>6. ASSUME NEW r \in Request, CreateMessage(r) \/ Enqueue(r)
        PROVE  \/ UNCHANGED <<stored, queued>>
               \/ /\ step[r] = "store"
                  /\ Current(r) \in Anonymous \/ stored[Current(r)] = 0
                  /\ stored' = [stored EXCEPT ![Current(r)] = @ + 1]
                  /\ queued' = queued
               \/ /\ step[r] = "enqueue"
                  /\ stored' = stored
                  /\ queued' = [queued EXCEPT ![Current(r)] = @ + 1]
    BY <1>6, <1>a DEF CreateMessage, Enqueue
  <1>7. ASSUME NEW k \in Campaigner,
               CreateForCampaign(k) \/ \E p \in Phone : FindForCampaign(k, p)
        PROVE  UNCHANGED <<stored, queued>>
    BY <1>7 DEF CreateForCampaign, FindForCampaign
  <1>8. QED
    BY <1>1, <1>2, <1>3, <1>4, <1>5, <1>6, <1>7 DEF Next

\* Every step of the webhook is a step of Inbox on the messages with an id, or
\* changes nothing there.
LEMMA InboxStep ==
  ASSUME TypeOK, OncePerMessage, [Next]_vars
  PROVE  [Abstract!Next]_(Abstract!inboxVars)
  <1> DEFINE rows == [m \in Identified |-> stored[m]]
             jobs == [m \in Identified |-> queued[m]]
  <1>1. CASE UNCHANGED <<stored, queued>>
    BY <1>1 DEF Abstract!inboxVars
  <1>2. ASSUME NEW r \in Request, step[r] = "store",
               Current(r) \in Anonymous \/ stored[Current(r)] = 0,
               stored' = [stored EXCEPT ![Current(r)] = @ + 1],
               queued' = queued
        PROVE  \/ \E m \in Identified : Abstract!Store(m)
               \/ rows' = rows /\ jobs' = jobs
    <2>1. jobs' = jobs
      BY <1>2
    <2>2. CASE Current(r) \in Identified
      <3>1. stored[Current(r)] = 0 /\ Current(r) \in Msg
        BY <1>2, <2>2 DEF Identified
      <3>2. rows' = [rows EXCEPT ![Current(r)] = 1]
        <4>1. \A m \in Identified :
                 stored'[m] = IF m = Current(r) THEN 1 ELSE stored[m]
          BY <1>2, <3>1 DEF TypeOK, Identified
        <4>2. QED
          BY <4>1
      <3>3. QED
        BY <2>1, <2>2, <3>1, <3>2 DEF Abstract!Store
    <2>3. CASE Current(r) \notin Identified
      <3>1. \A m \in Identified : stored'[m] = stored[m]
        BY <1>2, <2>3 DEF TypeOK, Identified
      <3>2. QED
        BY <2>1, <3>1
    <2>4. QED
      BY <2>2, <2>3
  <1>3. ASSUME NEW r \in Request, step[r] = "enqueue",
               stored' = stored,
               queued' = [queued EXCEPT ![Current(r)] = @ + 1]
        PROVE  \/ \E m \in Identified : Abstract!Queue(m)
               \/ rows' = rows /\ jobs' = jobs
    <2>1. rows' = rows
      BY <1>3
    <2>2. CASE Current(r) \in Identified
      <3>1. Holds(r, Current(r))
        BY <1>3 DEF Holds
      <3>2. stored[Current(r)] = 1 /\ queued[Current(r)] = 0
        BY <2>2, <3>1 DEF OncePerMessage
      <3>3. jobs' = [jobs EXCEPT ![Current(r)] = 1]
        <4>1. \A m \in Identified :
                 queued'[m] = IF m = Current(r) THEN 1 ELSE queued[m]
          BY <1>3, <3>2, <2>2 DEF TypeOK, Identified
        <4>2. QED
          BY <4>1
      <3>4. QED
        BY <2>1, <2>2, <3>2, <3>3 DEF Abstract!Queue
    <2>3. CASE Current(r) \notin Identified
      <3>1. \A m \in Identified : queued'[m] = queued[m]
        BY <1>3, <2>3 DEF TypeOK, Identified
      <3>2. QED
        BY <2>1, <3>1
    <2>4. QED
      BY <2>2, <2>3
  <1>4. QED
    BY <1>1, <1>2, <1>3, Writes DEF Abstract!Next, Abstract!inboxVars

\* "Idempotency on waMessageId": whatever is redelivered, regrouped, reordered
\* or handled concurrently, a message with an id gets one row and one job.
THEOREM IngestImplementsInbox == Spec => ImplementsInbox
  <1>1. Init => Abstract!Init
    BY DEF Init, Abstract!Init, Identified
  <1>2. Init => OncePerMessage /\ NothingForgotten
    BY DEF Init, OncePerMessage, NothingForgotten, Holds, Identified
  <1>3. QED
    BY <1>1, <1>2, TypeInit, TypeStep, OnceStep, InboxStep, PTL
       DEF Spec, ImplementsInbox, Abstract!Spec

-----------------------------------------------------------------------------
(* How many open conversations a sender can have. *)

\* The requests and the campaign slots that found nothing and will create one.
Creating(p) == {r \in Request : step[r] = "create" /\ Sender(r) = p}
Opening(p)  == {k \in Campaigner : opening[k] = p}

\* Open conversations and those about to be created, against the requests and
\* slots that can be at it together and the conversations that were reopened.
OpenBound ==
    \A p \in Phone :
        Cardinality(Open(p)) + Cardinality(Creating(p)) + Cardinality(Opening(p))
            <= Cardinality(Request) + Cardinality(Campaigner) + reopened[p]

Finite(p) ==
    /\ IsFiniteSet(Open(p)) /\ Cardinality(Open(p)) \in Nat
    /\ IsFiniteSet(Creating(p)) /\ Cardinality(Creating(p)) \in Nat
    /\ Cardinality(Creating(p)) <= Cardinality(Request)
    /\ Cardinality(Request) \in Nat
    /\ IsFiniteSet(Opening(p)) /\ Cardinality(Opening(p)) \in Nat
    /\ Cardinality(Opening(p)) <= Cardinality(Campaigner)
    /\ Cardinality(Campaigner) \in Nat

AllFinite == \A p : Finite(p)

\* The sets are finite, and those of requests and slots bounded.
LEMMA OpenFinite == TypeOK => AllFinite
  <1> SUFFICES ASSUME TypeOK, NEW p
               PROVE  Finite(p)
    BY DEF AllFinite
  <1>1. Open(p) \subseteq 1 .. Len(convs) /\ Len(convs) \in Nat
    BY LenProperties DEF Open, Of, TypeOK
  <1>2. IsFiniteSet(1 .. Len(convs))
    BY <1>1, FS_Interval
  <1>3. IsFiniteSet(Open(p))
    BY <1>1, <1>2, FS_Subset
  <1>4. Creating(p) \subseteq Request /\ IsFiniteSet(Request)
    BY IngestAssumption DEF Creating
  <1>5. /\ IsFiniteSet(Creating(p))
        /\ Cardinality(Creating(p)) <= Cardinality(Request)
    BY <1>4, FS_Subset
  <1>6. Opening(p) \subseteq Campaigner /\ IsFiniteSet(Campaigner)
    BY IngestAssumption DEF Opening
  <1>7. /\ IsFiniteSet(Opening(p))
        /\ Cardinality(Opening(p)) <= Cardinality(Campaigner)
    BY <1>6, FS_Subset
  <1>8. QED
    BY <1>3, <1>4, <1>5, <1>6, <1>7, FS_CardinalityType DEF Finite

\* A set that gains one element grows by one at most.
LEMMA GrowsByOne ==
  ASSUME NEW S, IsFiniteSet(S), NEW x, NEW T, T \subseteq S \cup {x}
  PROVE  Cardinality(T) <= Cardinality(S) + 1
  <1>1. /\ IsFiniteSet(S \cup {x})
        /\ Cardinality(S \cup {x}) = Cardinality(S)
           \/ Cardinality(S \cup {x}) = Cardinality(S) + 1
    <2>1. CASE x \in S
      <3>1. S \cup {x} = S
        BY <2>1
      <3>2. QED
        BY <3>1
    <2>2. CASE x \notin S
      BY <2>2, FS_AddElement
    <2>3. QED
      BY <2>1, <2>2
  <1>2. IsFiniteSet(T) /\ Cardinality(T) <= Cardinality(S \cup {x})
    BY <1>1, FS_Subset
  <1>3. /\ Cardinality(T) \in Nat /\ Cardinality(S) \in Nat
        /\ Cardinality(S \cup {x}) \in Nat
    BY <1>1, <1>2, FS_CardinalityType
  <1>4. QED
    BY <1>1, <1>2, <1>3

\* A step that opens nothing and sends nobody to create anything.
Calm(p) ==
    /\ Open(p)' \subseteq Open(p) /\ Creating(p)' \subseteq Creating(p)
    /\ Opening(p)' \subseteq Opening(p)
    /\ reopened'[p] = reopened[p]

\* A request that is not creating after its step leaves Creating no larger.
LEMMA CreatingFrame ==
  ASSUME NEW r \in Request, NEW p,
         \A q \in Request \ {r} : step'[q] = step[q] /\ todo'[q] = todo[q],
         step'[r] # "create"
  PROVE  Creating(p)' \subseteq Creating(p)
  BY DEF Creating, Sender, Current

\* The same conversations leave Open as it is.
LEMMA OpenFrame ==
  ASSUME convs' = convs, NEW p
  PROVE  Open(p)' = Open(p)
  BY DEF Open, Of

\* A new conversation adds itself to Open of its sender, and to no other.
LEMMA AppendFrame ==
  ASSUME TypeOK, NEW q \in Phone,
         convs' = Append(convs, [phone |-> q, resolved |-> FALSE]), NEW p
  PROVE  /\ Open(p)' \subseteq Open(p) \cup {Len(convs) + 1}
         /\ q # p => Open(p)' = Open(p)
  BY Appended DEF Open, Of

\* Resolving or reopening c concerns Open of its sender, and only c in it.
LEMMA ResolvedFrame ==
  ASSUME TypeOK, NEW c \in DOMAIN convs, NEW v \in BOOLEAN,
         convs' = [convs EXCEPT ![c].resolved = v], NEW p
  PROVE  /\ Open(p)' \subseteq Open(p) \cup {c}
         /\ v => (convs[c].phone = p => Open(p)' \subseteq Open(p))
         /\ convs[c].phone # p => Open(p)' = Open(p)
  <1>1. \A d \in DOMAIN convs : convs[d] \in Conversation
    BY ElementOfSeq, LenProperties DEF TypeOK
  <1>2. DOMAIN convs' = DOMAIN convs
    BY LenProperties DEF TypeOK
  <1>3. \A d \in DOMAIN convs :
           /\ convs'[d].phone = convs[d].phone
           /\ convs'[d].resolved = IF d = c THEN v ELSE convs[d].resolved
    BY <1>1, LenProperties DEF TypeOK, Conversation
  <1>4. QED
    BY <1>2, <1>3 DEF Open, Of

\* find-then-create: a request or a campaign slot creates only if it saw no open
\* conversation, so at most all that run together do.
LEMMA OpenStep == TypeOK /\ OpenBound /\ [Next]_vars => OpenBound'
  <1> SUFFICES ASSUME TypeOK, OpenBound, [Next]_vars, NEW p \in Phone
               PROVE  Cardinality(Open(p)') + Cardinality(Creating(p)')
                              + Cardinality(Opening(p)')
                          <= Cardinality(Request) + Cardinality(Campaigner)
                              + reopened'[p]
    BY DEF OpenBound
  <1> USE DEF rowVars, reqVars, histVars
  <1>a. TypeOK'
    BY TypeStep
  <1>b. /\ IsFiniteSet(Open(p)) /\ Cardinality(Open(p)) \in Nat
        /\ IsFiniteSet(Creating(p)) /\ Cardinality(Creating(p)) \in Nat
        /\ IsFiniteSet(Opening(p)) /\ Cardinality(Opening(p)) \in Nat
        /\ Cardinality(Request) \in Nat /\ Cardinality(Campaigner) \in Nat
        /\ reopened[p] \in Nat
    BY OpenFinite DEF TypeOK, AllFinite, Finite
  <1>c. /\ IsFiniteSet(Open(p)') /\ Cardinality(Open(p)') \in Nat
        /\ IsFiniteSet(Creating(p)') /\ Cardinality(Creating(p)') \in Nat
        /\ Cardinality(Creating(p)') <= Cardinality(Request)
        /\ IsFiniteSet(Opening(p)') /\ Cardinality(Opening(p)') \in Nat
        /\ Cardinality(Opening(p)') <= Cardinality(Campaigner)
    <2>1. AllFinite'
      BY <1>a, OpenFinite, PTL
    <2>2. QED
      BY <2>1 DEF AllFinite, Finite
  <1>d. Cardinality(Open(p)) + Cardinality(Creating(p)) + Cardinality(Opening(p))
            <= Cardinality(Request) + Cardinality(Campaigner) + reopened[p]
    BY DEF OpenBound
  <1>e. ASSUME opening' = opening
        PROVE  Opening(p)' = Opening(p)
    BY <1>e DEF Opening
  <1>1. CASE Calm(p)
    <2>1. /\ Cardinality(Open(p)') <= Cardinality(Open(p))
          /\ Cardinality(Creating(p)') <= Cardinality(Creating(p))
          /\ Cardinality(Opening(p)') <= Cardinality(Opening(p))
      BY <1>1, <1>b, FS_Subset DEF Calm
    <2>2. QED
      BY <1>1, <1>b, <1>c, <1>d, <2>1 DEF Calm
  <1>2. ASSUME NEW r \in Request, Handle(r)
        PROVE  \/ Calm(p)
               \/ Open(p)' = {} /\ reopened'[p] = reopened[p]
               \/ /\ Cardinality(Open(p)') <= Cardinality(Open(p)) + 1
                  /\ Cardinality(Creating(p)') = Cardinality(Creating(p)) - 1
                  /\ Opening(p)' = Opening(p)
                  /\ reopened'[p] = reopened[p]
    <2>o. Opening(p)' = Opening(p)
      BY <1>2, <1>e DEF Handle
    <2>a. ASSUME step[r] # "idle", NextMessage(r), convs' = convs,
                 reopened' = reopened
          PROVE  Calm(p)
      BY <2>a, <2>o, NextMessageType, CreatingFrame, OpenFrame DEF Calm
    <2>b. CASE step[r] # "idle" /\ Swallow(r)
      BY <2>a, <2>b DEF Swallow
    <2>c. ASSUME NEW s \in Step \ {"create"}, Goto(r, s), todo' = todo,
                 Open(p)' = Open(p), reopened' = reopened
          PROVE  Calm(p)
      <3>1. step'[r] = s /\ \A q \in Request \ {r} : step'[q] = step[q]
        BY <2>c DEF Goto, TypeOK
      <3>2. QED
        BY <3>1, <2>c, <2>o, CreatingFrame DEF Calm
    <2>1. CASE ApplyUpdates(r)
      <3>0. Open(p)' = Open(p) /\ reopened' = reopened
        BY <2>1, OpenFrame DEF ApplyUpdates
      <3>1. CASE Goto(r, "find") /\ todo' = todo
        BY <3>0, <3>1, <2>c DEF Step
      <3>2. CASE AbortBatch(r)
        <4>1. step'[r] = "idle" /\ \A q \in Request \ {r} :
                                       step'[q] = step[q] /\ todo'[q] = todo[q]
          BY <3>2 DEF AbortBatch, Goto, TypeOK
        <4>2. QED
          BY <3>0, <4>1, <2>o, CreatingFrame DEF Calm
      <3>3. QED
        BY <2>1, <3>1, <3>2 DEF ApplyUpdates
    <2>2. CASE FindDuplicate(r)
      BY <2>2, <2>a, <2>b, <2>c, OpenFrame DEF FindDuplicate, Step
    <2>3. CASE UpsertContact(r)
      BY <2>3, <2>b, <2>c, OpenFrame DEF UpsertContact, Step
    <2>4. CASE FindConversation(r) /\ ~Swallow(r)
      <3>1. CASE /\ Open(Sender(r)) = {} /\ Goto(r, "create")
                 /\ UNCHANGED <<convs, todo, reopened>>
        <4>1. CASE Sender(r) = p
          BY <3>1, <4>1, OpenFrame
        <4>2. CASE Sender(r) # p
          <5>1. \A q \in Request \ {r} : step'[q] = step[q]
            BY <3>1 DEF Goto, TypeOK
          <5>2. Creating(p)' \subseteq Creating(p)
            BY <3>1, <4>2, <5>1 DEF Creating, Sender, Current
          <5>3. QED
            BY <3>1, <5>2, <2>o, OpenFrame DEF Calm
        <4>3. QED
          BY <4>1, <4>2
      <3>2. CASE Goto(r, "store") /\ UNCHANGED <<convs, todo, reopened>>
        BY <3>2, <2>c, OpenFrame DEF Step
      <3>3. QED
        BY <2>4, <3>1, <3>2 DEF FindConversation
    <2>5. CASE CreateConversation(r) /\ ~Swallow(r)
      <3>1. /\ step[r] = "create" /\ Goto(r, "store")
            /\ convs' = Append(convs, [phone |-> Sender(r), resolved |-> FALSE])
            /\ UNCHANGED <<todo, reopened>>
        BY <2>5 DEF CreateConversation
      <3>2. /\ step'[r] = "store"
            /\ \A q \in Request \ {r} : step'[q] = step[q]
        BY <3>1 DEF Goto, TypeOK
      <3>3. /\ Open(p)' \subseteq Open(p) \cup {Len(convs) + 1}
            /\ Sender(r) # p => Open(p)' = Open(p)
        BY <3>1, CurrentType, AppendFrame
      <3>4. CASE Sender(r) = p
        <4>1. Cardinality(Open(p)') <= Cardinality(Open(p)) + 1
          BY <3>3, <1>b, GrowsByOne
        <4>2. r \in Creating(p) /\ Creating(p)' = Creating(p) \ {r}
          BY <3>1, <3>2, <3>4 DEF Creating, Sender, Current
        <4>3. Cardinality(Creating(p)') = Cardinality(Creating(p)) - 1
          BY <4>2, <1>b, FS_RemoveElement
        <4>4. QED
          BY <3>1, <4>1, <4>3, <2>o
      <3>5. CASE Sender(r) # p
        BY <3>1, <3>3, <3>5, <2>c DEF Step
      <3>6. QED
        BY <3>4, <3>5
    <2>6. CASE CreateMessage(r)
      BY <2>6, <2>b, <2>c, OpenFrame DEF CreateMessage, Step
    <2>7. CASE TouchConversation(r)
      <3>1. CASE Goto(r, "enqueue") /\ UNCHANGED <<convs, todo, reopened>>
        BY <3>1, OpenFrame, <2>c DEF Step
      <3>2. CASE NextMessage(r) /\ UNCHANGED <<convs, reopened>>
        BY <3>2, <2>7, <2>a DEF TouchConversation
      <3>3. QED
        BY <2>7, <3>1, <3>2 DEF TouchConversation
    <2>8. CASE Enqueue(r)
      BY <2>8, <2>a DEF Enqueue
    <2>9. CASE (CreateConversation(r) \/ FindConversation(r)) /\ Swallow(r)
      BY <2>9, <2>b DEF CreateConversation, FindConversation
    <2>10. QED
      BY <1>2, <2>1, <2>2, <2>3, <2>4, <2>5, <2>6, <2>7, <2>8, <2>9 DEF Handle
  <1>3. ASSUME NEW r \in Request, NEW batch \in Batch, Deliver(r, batch)
        PROVE  Calm(p)
    <2>1. /\ step'[r] = "updates"
          /\ \A q \in Request \ {r} : step'[q] = step[q] /\ todo'[q] = todo[q]
          /\ UNCHANGED <<convs, reopened, opening>>
      BY <1>3 DEF Deliver, Goto, TypeOK
    <2>2. QED
      BY <2>1, <1>e, CreatingFrame, OpenFrame DEF Calm
  <1>4. ASSUME step' = step, todo' = todo
        PROVE  Creating(p)' = Creating(p)
    BY <1>4 DEF Creating, Sender, Current
  <1>5. ASSUME NEW c \in DOMAIN convs, Resolve(c)
        PROVE  Calm(p)
    BY <1>4, <1>5, <1>e, ResolvedFrame DEF Resolve, Calm
  <1>6. ASSUME NEW c \in DOMAIN convs, Assign(c)
        PROVE  \/ Calm(p)
               \/ /\ Cardinality(Open(p)') <= Cardinality(Open(p)) + 1
                  /\ Creating(p)' = Creating(p)
                  /\ Opening(p)' = Opening(p)
                  /\ reopened'[p] = reopened[p] + 1
    <2>1. /\ convs' = [convs EXCEPT ![c].resolved = FALSE]
          /\ reopened' = [reopened EXCEPT ![convs[c].phone] = @ + 1]
          /\ Creating(p)' = Creating(p) /\ Opening(p)' = Opening(p)
      BY <1>4, <1>6, <1>e DEF Assign
    <2>2. CASE convs[c].phone # p
      BY <2>1, <2>2, ResolvedFrame DEF Calm, TypeOK
    <2>3. CASE convs[c].phone = p
      <3>1. Open(p)' \subseteq Open(p) \cup {c}
        BY <2>1, ResolvedFrame
      <3>2. Cardinality(Open(p)') <= Cardinality(Open(p)) + 1
        BY <3>1, <1>b, GrowsByOne
      <3>5. reopened'[p] = reopened[p] + 1
        BY <2>1, <2>3 DEF TypeOK
      <3>6. QED
        BY <2>1, <3>2, <3>5
    <2>4. QED
      BY <2>2, <2>3
  <1>7. CASE Crash
    <2>1. Creating(p)' = {} /\ Opening(p)' = {}
      BY <1>7, IngestAssumption DEF Crash, Creating, Opening
    <2>2. QED
      BY <1>1, <1>7, <2>1, OpenFrame DEF Crash, Calm
  <1>8. CASE UNCHANGED vars
    BY <1>1, <1>4, <1>8, <1>e, OpenFrame DEF vars, Calm
  <1>9. Open(p)' = {} => Cardinality(Open(p)') = 0
    BY FS_EmptySet
  <1>10. ASSUME NEW k \in Campaigner, NEW q \in Phone, FindForCampaign(k, q)
         PROVE  \/ Calm(p)
                \/ Open(p)' = {} /\ reopened'[p] = reopened[p]
    <2>1. /\ Of(q) = {} /\ opening' = [opening EXCEPT ![k] = q]
          /\ Creating(p)' = Creating(p) /\ Open(p)' = Open(p)
          /\ reopened' = reopened
      BY <1>4, <1>10, OpenFrame DEF FindForCampaign
    <2>2. CASE q = p
      BY <2>1, <2>2 DEF Open
    <2>3. CASE q # p
      <3>1. Opening(p)' \subseteq Opening(p)
        BY <2>1, <2>3 DEF Opening, TypeOK
      <3>2. QED
        BY <2>1, <3>1 DEF Calm
    <2>4. QED
      BY <2>2, <2>3
  <1>11. ASSUME NEW k \in Campaigner, CreateForCampaign(k)
         PROVE  \/ Calm(p)
                \/ /\ Cardinality(Open(p)') <= Cardinality(Open(p)) + 1
                   /\ Cardinality(Opening(p)') = Cardinality(Opening(p)) - 1
                   /\ Creating(p)' = Creating(p)
                   /\ reopened'[p] = reopened[p]
    <2>1. /\ opening[k] \in Phone /\ opening' = [opening EXCEPT ![k] = NoPhone]
          /\ Creating(p)' = Creating(p) /\ reopened' = reopened
      BY <1>4, <1>11 DEF CreateForCampaign, TypeOK
    <2>2. Opening(p)' = Opening(p) \ {k}
      BY <2>1, IngestAssumption DEF Opening, TypeOK
    <2>3. CASE UNCHANGED convs
      BY <2>1, <2>2, <2>3, OpenFrame DEF Calm
    <2>4. CASE ~UNCHANGED convs
      <3>1. convs' = Append(convs, [phone |-> opening[k], resolved |-> FALSE])
        BY <1>11, <2>4 DEF CreateForCampaign
      <3>2. /\ Open(p)' \subseteq Open(p) \cup {Len(convs) + 1}
            /\ opening[k] # p => Open(p)' = Open(p)
        BY <2>1, <3>1, AppendFrame
      <3>3. CASE opening[k] # p
        BY <2>1, <2>2, <3>2, <3>3 DEF Calm
      <3>4. CASE opening[k] = p
        <4>1. Cardinality(Open(p)') <= Cardinality(Open(p)) + 1
          BY <3>2, <1>b, GrowsByOne
        <4>2. k \in Opening(p)
          BY <3>4 DEF Opening
        <4>3. Cardinality(Opening(p)') = Cardinality(Opening(p)) - 1
          BY <2>2, <4>2, <1>b, FS_RemoveElement
        <4>4. QED
          BY <2>1, <4>1, <4>3
      <3>5. QED
        BY <3>3, <3>4
    <2>5. QED
      BY <2>3, <2>4
  <1>12. QED
    BY <1>b, <1>c, <1>d, <1>1, <1>2, <1>3, <1>5, <1>6, <1>7, <1>8, <1>9, <1>10,
       <1>11 DEF Next

\* A sender never has more open conversations than the deliveries and the
\* campaign jobs handled at the same time, plus the conversations that were
\* reopened.
THEOREM OpenConversations == Spec => []OpenConversationsBounded
  <1>1. Init => OpenBound
    <2>1. SUFFICES ASSUME Init, NEW p \in Phone
                   PROVE  Cardinality(Open(p)) + Cardinality(Creating(p))
                                  + Cardinality(Opening(p))
                              <= Cardinality(Request) + Cardinality(Campaigner)
                                  + reopened[p]
      BY DEF OpenBound
    <2>2. /\ Open(p) = {} /\ Creating(p) = {} /\ Opening(p) = {}
          /\ reopened[p] = 0
      BY <2>1, IngestAssumption DEF Init, Open, Of, Creating, Opening
    <2>3. Cardinality(Request) \in Nat /\ Cardinality(Campaigner) \in Nat
      BY TypeInit, OpenFinite, <2>1 DEF AllFinite, Finite
    <2>4. QED
      BY <2>2, <2>3, FS_EmptySet
  <1>2. TypeOK /\ OpenBound => OpenConversationsBounded
    <2>1. SUFFICES ASSUME TypeOK, OpenBound, NEW p \in Phone
                   PROVE  Cardinality(Open(p))
                              <= Cardinality(Request) + Cardinality(Campaigner)
                                  + reopened[p]
      BY DEF OpenConversationsBounded
    <2>2. QED
      BY <2>1, OpenFinite DEF OpenBound, AllFinite, Finite, TypeOK
  <1>3. QED
    BY <1>1, <1>2, TypeInit, TypeStep, OpenStep, PTL DEF Spec
=============================================================================
