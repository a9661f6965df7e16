----------------------------- MODULE InboxPage ------------------------------
(***************************************************************************)
(* The shared inbox in one browser (web/app/dashboard/inbox/page.tsx):     *)
(* cached message lists, kept up to date by message.created events over    *)
(* one socket (web/lib/socket.ts, api/src/realtime/realtime.gateway.ts).   *)
(*                                                                         *)
(* Messages are numbered in the order they are stored.  A list is the set  *)
(* of the messages it shows, and of those it shows twice.  It is fetched   *)
(* when a conversation is opened and not refetched by itself; an event is  *)
(* the only thing that adds to it.  getSocket throws a socket away that is *)
(* not connected yet, and the handlers registered on it with it.           *)
(***************************************************************************)
EXTENDS Integers, Sequences, Functions, FiniteSets

CONSTANTS Chat,     \* conversations of the client
          Nobody,   \* no conversation
          Scopes    \* conversations with messages, the rows an answer holds, and
                    \* bounds: the messages, and those before a link

ASSUME InboxPageAssumption ==
    /\ Nobody \notin Chat
    /\ \A s \in Scopes : /\ s.chats \subseteq Chat /\ s.page \in Nat \ {0}
                         /\ s.rows \in Nat /\ s.links \in Nat

VARIABLES
    scope,   \* the bounds of this behaviour
    stored,  \* Message rows: their conversation, sent from this page or not
    unsent,  \* stored messages whose emit is still to come
    sock,    \* the page's socket: none, connecting, admitted or closed
    ear,     \* it has the message.created handler
    room,    \* the conversation room it is in, or will be once admitted
    open,    \* selectedId
    cache,   \* query data of each conversation
    fetch,   \* query function of each conversation: its step and its answer
    wire,    \* events on the way to the page
    post,    \* messages this page sent whose response is on the way
    pay,     \* the payment link being sent
    hidden   \* history: messages the page has missed for a known reason

pageVars ==
    <<scope, stored, unsent, sock, ear, room, open, cache, fetch, wire, post, pay, hidden>>

Unloaded == [loaded |-> FALSE, list |-> {}, twice |-> {}]
NoFetch == [at |-> "none", list |-> {}]
NoPayment == [step |-> "none", chat |-> Nobody, message |-> 0]

PageInit ==
    /\ scope \in Scopes
    /\ stored = <<>> /\ unsent = {} /\ wire = <<>> /\ post = {} /\ hidden = {} /\ pay = NoPayment
    /\ sock = "none" /\ ear = FALSE /\ room = Nobody
    /\ open = Nobody
    /\ cache = [c \in Chat |-> Unloaded]
    /\ fetch = [c \in Chat |-> NoFetch]

ChatOf(m) == stored[m].chat
Stored(c) == {m \in DOMAIN stored : ChatOf(m) = c}
Newest(c) == {m \in Stored(c) :
                 Cardinality({n \in Stored(c) : n > m}) < scope.page}

-----------------------------------------------------------------------------
(* The socket. *)

\* getSocket: a socket that is not connected is replaced by a bare one.
Connected == sock = "admitted"
GetSocket ==
    /\ sock' = IF Connected THEN sock ELSE "connecting"
    /\ room' = IF Connected THEN room ELSE Nobody

\* handleConnection: the token is verified, or the server closes the socket.
HandleConnection ==
    /\ sock = "connecting" /\ sock' \in {"admitted", "closed"}
    /\ UNCHANGED <<scope, stored, unsent, ear, room, open, cache, fetch, wire,
                   post, pay, hidden>>

\* The connection breaks; socket.io connects the same socket again.
Drop ==
    /\ Connected
    /\ sock' = "connecting" /\ room' = Nobody
    /\ wire' = <<>> /\ hidden' = hidden \cup Range(wire)
    /\ UNCHANGED <<scope, stored, unsent, ear, open, cache, fetch, post, pay>>

\* joinConversation: refused before the token is verified; a reconnection
\* does not join again.
JoinConversation(c) == room' \in {c, Nobody}

-----------------------------------------------------------------------------
(* The page. *)

\* The first effect registers onCreated.
Mount ==
    /\ open = Nobody /\ ~ear
    /\ GetSocket /\ ear' = TRUE
    /\ UNCHANGED <<scope, stored, unsent, open, cache, fetch, wire, post, pay, hidden>>

\* A conversation is selected: leave, join, and fetch what is not fresh.
Select(c) ==
    /\ open # c /\ open' = c
    /\ sock' = IF Connected THEN sock ELSE "connecting"
    /\ ear' = (ear /\ Connected) /\ JoinConversation(c)
    /\ \/ fetch' = [fetch EXCEPT ![c] = [at |-> "asked", list |-> {}]]
       \/ (cache[c].loaded \/ fetch[c].at # "none") /\ UNCHANGED fetch
    /\ UNCHANGED <<scope, stored, unsent, cache, wire, post, pay, hidden>>

\* emitTyping calls getSocket too.
EmitTyping ==
    /\ open # Nobody
    /\ GetSocket /\ ear' = (ear /\ Connected)
    /\ UNCHANGED <<scope, stored, unsent, open, cache, fetch, wire, post, pay, hidden>>

Unmount ==
    /\ open # Nobody
    /\ open' = Nobody /\ ear' = FALSE /\ room' = Nobody
    /\ UNCHANGED <<scope, stored, unsent, sock, cache, fetch, wire, post, pay, hidden>>

\* A list nobody looks at is garbage-collected.
Forget(c) ==
    /\ open # c /\ cache[c].loaded
    /\ cache' = [cache EXCEPT ![c] = Unloaded]
    /\ UNCHANGED <<scope, stored, unsent, sock, ear, room, open, fetch, wire,
                   post, pay, hidden>>

\* MessageService.list answers the newest rows: 50, as the page asks for no
\* other number, and for no page before the first ...
ReadList(c) ==
    /\ fetch[c].at = "asked"
    /\ fetch' = [fetch EXCEPT ![c] = [at |-> "answered", list |-> Newest(c)]]
    /\ hidden' = hidden \cup (Stored(c) \ Newest(c))
    /\ UNCHANGED <<scope, stored, unsent, sock, ear, room, open, cache, wire,
                   post, pay>>

\* ... which replace the list when they arrive, or the query fails.
Fetched(c) ==
    /\ fetch[c].at = "answered"
    /\ cache' = [cache EXCEPT ![c] = [loaded |-> TRUE, list |-> fetch[c].list, twice |-> {}]]
    /\ fetch' = [fetch EXCEPT ![c] = NoFetch]
    /\ UNCHANGED <<scope, stored, unsent, sock, ear, room, open, wire, post,
                   pay, hidden>>

FetchFails(c) ==
    /\ fetch[c].at # "none"
    /\ fetch' = [fetch EXCEPT ![c] = NoFetch]
    /\ UNCHANGED <<scope, stored, unsent, sock, ear, room, open, cache, wire,
                   post, pay, hidden>>

\* Messages an answer on its way is too old to hold.
Outdated(c, m) == IF fetch[c].at = "answered" THEN {m} \ fetch[c].list ELSE {}

\* The message of an event is shown, and once only.
MovedUp(data, m) == [data EXCEPT !.list = @ \cup {m}, !.twice = @ \ {m}]

\* As if onCreated knew the open conversation only.
OnCreatedOpen ==
    /\ wire # <<>>
    /\ LET m == Head(wire)
           c == ChatOf(m)
       IN  /\ cache' = IF ear /\ cache[c].loaded /\ c = open
                       THEN [cache EXCEPT ![c] = MovedUp(@, m)]
                       ELSE cache
           /\ hidden' = hidden \cup (IF ear THEN Outdated(c, m) ELSE {m})
    /\ wire' = Tail(wire)
    /\ UNCHANGED <<scope, stored, unsent, sock, ear, room, open, fetch, post, pay>>

\* onCreated: the event's message moves to the front, if there is a list.
OnCreated ==
    /\ wire # <<>>
    /\ LET m == Head(wire)
           c == ChatOf(m)
       IN  /\ cache' = IF ear /\ cache[c].loaded
                       THEN [cache EXCEPT ![c] = MovedUp(@, m)]
                       ELSE cache
           /\ hidden' = hidden \cup (IF ear THEN Outdated(c, m) ELSE {m})
    /\ wire' = Tail(wire)
    /\ UNCHANGED <<scope, stored, unsent, sock, ear, room, open, fetch, post, pay>>

-----------------------------------------------------------------------------
(* Messages. *)

\* A customer, an agent elsewhere or the AI: stored now, emitted later.
StoreOther(c) ==
    /\ Len(stored) < scope.rows
    /\ stored' = Append(stored, [chat |-> c, own |-> FALSE])
    /\ unsent' = unsent \cup {Len(stored) + 1}
    /\ UNCHANGED <<scope, sock, ear, room, open, cache, fetch, wire, post, pay, hidden>>

\* send: MessageService.send stores, emits, and only then answers.
Send ==
    /\ open # Nobody /\ Len(stored) < scope.rows
    /\ stored' = Append(stored, [chat |-> open, own |-> TRUE])
    /\ unsent' = unsent \cup {Len(stored) + 1}
    /\ post' = post \cup {Len(stored) + 1}
    /\ UNCHANGED <<scope, sock, ear, room, open, cache, fetch, wire, pay, hidden>>

\* PaymentLinkPopover: one link is asked for at a time.
AskPaymentLink ==
    /\ open # Nobody /\ pay = NoPayment /\ Len(stored) < scope.links
    /\ pay' = [step |-> "asked", chat |-> open, message |-> 0]
    /\ UNCHANGED <<scope, stored, unsent, sock, ear, room, open, cache, fetch,
                   wire, post, hidden>>

\* createAndSend: the link is created at Razorpay and stored as a message,
\* which is queued and then emitted ...
StorePaymentMessage ==
    /\ pay.step = "asked" /\ Len(stored) < scope.rows
    /\ stored' = Append(stored, [chat |-> pay.chat, own |-> FALSE])
    /\ unsent' = unsent \cup {Len(stored) + 1}
    /\ pay' = [pay EXCEPT !.step = "stored", !.message = Len(stored) + 1]
    /\ UNCHANGED <<scope, sock, ear, room, open, cache, fetch, wire, post, hidden>>

\* ... before the answer, at which the list is fetched again if it is in view.
PaymentSent ==
    /\ pay.step = "stored" /\ pay.message \notin unsent
    /\ pay' = NoPayment
    /\ fetch' = IF pay.chat = open
                THEN [fetch EXCEPT ![open] = [at |-> "asked", list |-> {}]]
                ELSE fetch
    /\ UNCHANGED <<scope, stored, unsent, sock, ear, room, open, cache, wire,
                   post, hidden>>

\* An error at any of these steps, or no answer.
PaymentFails ==
    /\ pay # NoPayment /\ pay' = NoPayment
    /\ UNCHANGED <<scope, stored, unsent, sock, ear, room, open, cache, fetch,
                   wire, post, hidden>>

\* emitMessageCreated: to the client's room and to the conversation's.
EmitMessageCreated(m) ==
    /\ m \in unsent /\ unsent' = unsent \ {m}
    /\ IF sock = "admitted"
       THEN /\ wire' = wire \o (IF room = ChatOf(m) THEN <<m, m>> ELSE <<m>>)
            /\ UNCHANGED hidden
       ELSE hidden' = hidden \cup {m} /\ UNCHANGED wire
    /\ UNCHANGED <<scope, stored, sock, ear, room, open, cache, fetch, post, pay>>

\* The service dies, or the queue refuses a payment link, before the emit.
NeverEmitted(m) ==
    /\ m \in unsent /\ m \notin post
    /\ unsent' = unsent \ {m} /\ hidden' = hidden \cup {m}
    /\ UNCHANGED <<scope, stored, sock, ear, room, open, cache, fetch, wire, post, pay>>

\* The response: prepended unchecked, and all there is when nothing is loaded.
Sent(m) ==
    LET c == ChatOf(m) IN
    /\ m \in post /\ m \notin unsent
    /\ cache' = [cache EXCEPT ![c] =
          [loaded |-> TRUE, list |-> @.list \cup {m}, twice |-> @.twice \cup (@.list \cap {m})]]
    /\ hidden' = hidden \cup Outdated(c, m)
                 \cup (IF cache[c].loaded THEN {} ELSE Stored(c) \ {m})
    /\ post' = post \ {m}
    /\ UNCHANGED <<scope, stored, unsent, sock, ear, room, open, fetch, wire, pay>>

\* No response: the draft comes back, the message stays stored.
SendFails(m) ==
    /\ m \in post /\ post' = post \ {m}
    /\ UNCHANGED <<scope, stored, unsent, sock, ear, room, open, cache, fetch,
                   wire, pay, hidden>>

PageNext ==
    \/ HandleConnection \/ Drop
    \/ Mount \/ EmitTyping \/ Unmount \/ OnCreated
    \/ Send
    \/ AskPaymentLink \/ StorePaymentMessage \/ PaymentSent \/ PaymentFails
    \/ \E c \in scope.chats : Select(c) \/ Forget(c) \/ ReadList(c) \/ Fetched(c) \/ FetchFails(c)
    \/ \E c \in scope.chats : StoreOther(c)
    \/ \E m \in DOMAIN stored : EmitMessageCreated(m) \/ NeverEmitted(m) \/ Sent(m) \/ SendFails(m)

PageSpec == PageInit /\ [][PageNext]_pageVars

-----------------------------------------------------------------------------

OnItsWay(m) == m \in unsent \/ m \in Range(wire)

(* A loaded list shows every stored message of its conversation, or the    *)
(* message is on its way, or the page has missed it for one of the reasons *)
(* the code leaves open: it was never emitted, or was emitted while the    *)
(* page had no admitted socket with a handler; an older answer overwrote   *)
(* it; a whole answer of newer rows was read while it was stored already;  *)
(* or the list began with the page's own message after a failed load.      *)
(* And only a message sent from this page is ever shown twice (onCreated,  *)
(* send, getSocket, emitMessageCreated, MessageService.list).              *)
NothingLostQuietly ==
    \A m \in DOMAIN stored : cache[ChatOf(m)].loaded =>
        /\ m \in cache[ChatOf(m)].list \/ OnItsWay(m) \/ m \in hidden
        /\ m \in cache[ChatOf(m)].twice => stored[m].own

=============================================================================
