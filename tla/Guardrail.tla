----------------------------- MODULE Guardrail -----------------------------
(***************************************************************************)
(* The anti-ban guardrails every outbound WhatsApp message passes          *)
(* (whatsapp/guardrail.service.ts) together with their only caller,        *)
(* WhatsappService.sendOutbound (whatsapp/whatsapp.service.ts).            *)
(*                                                                         *)
(* A caller is one worker slot of the queue processors: the slot of the    *)
(* outbound worker or one of the three slots of the campaign worker.  Each *)
(* await of the code (a Redis command, a database query, the HTTP call to  *)
(* the provider) is one action, so calls of different slots interleave     *)
(* between any two of them.  The Redis client has no request limit         *)
(* (maxRetriesPerRequest: null), so a Redis command may wait but does not  *)
(* fail; database queries and provider calls may fail.                     *)
(***************************************************************************)
EXTENDS Integers, FiniteSets

CONSTANTS Caller,     \* worker slots that may be inside sendOutbound
          Account,    \* WhatsApp accounts (numbers)
          Contact,    \* recipients
          Provider,   \* Account -> {"META_CLOUD", "EVOLUTION"}
          PerMinute,  \* account.msgsPerMinute
          DailyCap,   \* the effective daily cap; 0 means uncapped
          MaxRate,    \* bound: value at which the modelled Redis counter stops
          MaxCrashes  \* bound: how often the process dies

ASSUME GuardrailAssumption ==
    /\ IsFiniteSet(Caller) /\ Caller # {}
    /\ Account # {} /\ Contact # {}
    /\ Provider \in [Account -> {"META_CLOUD", "EVOLUTION"}]
    /\ PerMinute \in Nat
    /\ DailyCap \in Nat
    /\ MaxRate \in Nat
    /\ MaxCrashes \in Nat

VARIABLES
    rate,    \* Redis wa:rate:<account>; 0 when the key is absent
    ttl,     \* whether that key carries an expiry
    daily,   \* Redis wa:daily:<account>:<today>
    paused,  \* account.outboundPaused
    warm,    \* contacts with an inbound message in the last 24 hours
    pc,      \* where each slot is inside sendOutbound
    call,    \* the arguments each slot was called with
    fresh,   \* history: the slot's rate token was taken in the running window
    held,    \* history: tokens of the running window granted and not refunded
    stale,   \* history: tokens refunded to a later window than they came from
    late,    \* history: messages handed to the provider since the last pause
    crashes  \* number of process crashes so far

limitVars   == <<rate, ttl, daily>>
historyVars == <<fresh, held, stale, late>>
guardVars   == <<rate, ttl, daily, paused, warm, pc, call, fresh, held, stale,
                 late, crashes>>

Step == {"idle", "preflight", "consume", "expire", "daily", "incrDaily",
         "send", "refund", "decr", "sent", "refused", "failed"}

\* The worker reads the account row once and passes it down, so a call carries
\* the pause flag as it was at that read.  "verdict" is what the call returns
\* once its refund is done.
Call == [acct: Account, to: Contact, template: BOOLEAN, paused: BOOLEAN,
         verdict: {"refused", "failed"}]

\* The arguments of a slot that is not in a call.
NoCall == [acct |-> CHOOSE a \in Account : TRUE,
           to |-> CHOOSE c \in Contact : TRUE,
           template |-> FALSE, paused |-> FALSE, verdict |-> "failed"]

TypeOK ==
    /\ rate \in [Account -> Int]
    /\ ttl \in [Account -> BOOLEAN]
    /\ daily \in [Account -> Nat]
    /\ paused \in [Account -> BOOLEAN]
    /\ warm \subseteq Contact
    /\ pc \in [Caller -> Step]
    /\ call \in [Caller -> Call]
    /\ fresh \in [Caller -> BOOLEAN]
    /\ held \in [Account -> Int]
    /\ stale \in [Account -> Nat]
    /\ late \in [Account -> Nat]
    /\ crashes \in Nat

Init ==
    /\ rate = [a \in Account |-> 0]
    /\ ttl = [a \in Account |-> FALSE]
    /\ daily = [a \in Account |-> 0]
    /\ paused = [a \in Account |-> FALSE]
    /\ warm = {}
    /\ pc = [p \in Caller |-> "idle"]
    /\ call = [p \in Caller |-> NoCall]
    /\ fresh = [p \in Caller |-> FALSE]
    /\ held = [a \in Account |-> 0]
    /\ stale = [a \in Account |-> 0]
    /\ late = [a \in Account |-> 0]
    /\ crashes = 0

Goto(p, s) == pc' = [pc EXCEPT ![p] = s]

\* consumeRate grants while the incremented counter is within the limit, and
\* the INCR that makes the counter 1 is the one that created the key.
GrantedOffByOne(next) == next - 1 <= PerMinute
Granted(next) == next <= PerMinute

CreatedByRead(next) == next = 0
Created(next) == next = 1

\* preflight compares the daily counter it read with the cap.
CappedLate(used) == used > DailyCap
Capped(used) == used >= DailyCap

-----------------------------------------------------------------------------
(* The call, step by step. *)

\* A worker reads the account row and calls sendOutbound.
Load(p, a, c, tmpl) ==
    /\ pc[p] = "idle"
    /\ call' = [call EXCEPT ![p] = [acct |-> a, to |-> c, template |-> tmpl,
                                    paused |-> paused[a],
                                    verdict |-> "failed"]]
    /\ Goto(p, "preflight")
    /\ UNCHANGED <<limitVars, historyVars, paused, warm, crashes>>

\* preflight refuses a cold contact, except for a template on the Cloud API.
ColdRefused(p) ==
    /\ call[p].to \notin warm
    /\ \/ Provider[call[p].acct] = "EVOLUTION"
       \/ ~call[p].template

PreflightSkipsPause(p) ==
    /\ pc[p] = "preflight"
    /\ Goto(p, IF ColdRefused(p) THEN "refused" ELSE "consume")
    /\ UNCHANGED <<limitVars, historyVars, paused, warm, call, crashes>>

\* Pause check on the row that was passed in, then the 24-hour window check,
\* whose count query may throw.
Preflight(p) ==
    /\ pc[p] = "preflight"
    /\ \/ call[p].paused /\ Goto(p, "refused")
       \/ ~call[p].paused /\ ColdRefused(p) /\ Goto(p, "refused")
       \/ ~call[p].paused /\ ~ColdRefused(p) /\ Goto(p, "consume")
       \/ ~call[p].paused /\ Goto(p, "failed")
    /\ UNCHANGED <<limitVars, historyVars, paused, warm, call, crashes>>

\* consumeRate: INCR, and the caller that created the key goes on to EXPIRE it.
\* A refused caller keeps the increment it made.
ConsumeRate(p) ==
    LET a == call[p].acct
        next == rate[a] + 1
    IN  /\ pc[p] = "consume"
        /\ \/ /\ PerMinute = 0
              /\ Goto(p, "daily")
              /\ UNCHANGED <<rate, fresh, held>>
           \/ /\ PerMinute > 0
              /\ rate[a] < MaxRate
              /\ rate' = [rate EXCEPT ![a] = next]
              /\ \/ /\ Granted(next)
                    /\ Goto(p, IF Created(next) THEN "expire" ELSE "daily")
                    /\ fresh' = [fresh EXCEPT ![p] = TRUE]
                    /\ held' = [held EXCEPT ![a] = @ + 1]
                 \/ /\ ~Granted(next)
                    /\ Goto(p, "refused")
                    /\ UNCHANGED <<fresh, held>>
        /\ UNCHANGED <<ttl, daily, paused, warm, call, stale, late, crashes>>

ExpireLost(p) ==
    /\ pc[p] = "expire"
    /\ Goto(p, "daily")
    /\ UNCHANGED <<limitVars, paused, warm, call, historyVars, crashes>>

\* EXPIRE sets the 60-second expiry; it does nothing to a key that is gone.
Expire(p) ==
    LET a == call[p].acct
    IN  /\ pc[p] = "expire"
        /\ ttl' = [ttl EXCEPT ![a] = @ \/ rate[a] # 0]
        /\ Goto(p, "daily")
        /\ UNCHANGED <<rate, daily, paused, warm, call, historyVars, crashes>>

\* dailyUsed: GET today's counter and compare.
CheckDaily(p) ==
    LET a == call[p].acct
    IN  /\ pc[p] = "daily"
        /\ \/ /\ DailyCap = 0
              /\ Goto(p, "send")
              /\ UNCHANGED call
           \/ /\ DailyCap > 0
              /\ ~Capped(daily[a])
              /\ Goto(p, "incrDaily")
              /\ UNCHANGED call
           \/ /\ DailyCap > 0
              /\ Capped(daily[a])
              /\ call' = [call EXCEPT ![p].verdict = "refused"]
              /\ Goto(p, "refund")
        /\ UNCHANGED <<limitVars, historyVars, paused, warm, crashes>>

IncrementDaily(p) ==
    /\ pc[p] = "incrDaily"
    /\ daily' = [daily EXCEPT ![call[p].acct] = @ + 1]
    /\ Goto(p, "send")
    /\ UNCHANGED <<rate, ttl, paused, warm, call, historyVars, crashes>>

\* The provider takes the message: the HTTP call succeeds, or its answer is
\* lost and the code sees an error for a message that did go out.
ProviderAccepts(p) ==
    LET a == call[p].acct
    IN  /\ pc[p] = "send"
        /\ late' = [late EXCEPT ![a] = IF paused[a] THEN @ + 1 ELSE @]
        /\ \/ Goto(p, "sent") /\ UNCHANGED call
           \/ /\ call' = [call EXCEPT ![p].verdict = "failed"]
              /\ Goto(p, "refund")
        /\ UNCHANGED <<limitVars, paused, warm, fresh, held, stale, crashes>>

ProviderRejects(p) ==
    /\ pc[p] = "send"
    /\ call' = [call EXCEPT ![p].verdict = "failed"]
    /\ Goto(p, "refund")
    /\ UNCHANGED <<limitVars, historyVars, paused, warm, crashes>>

\* refundRate: GET the counter, and only DECR it when it was positive.
RefundRead(p) ==
    /\ pc[p] = "refund"
    /\ Goto(p, IF rate[call[p].acct] > 0 THEN "decr" ELSE call[p].verdict)
    /\ UNCHANGED <<limitVars, historyVars, paused, warm, call, crashes>>

RefundDecr(p) ==
    LET a == call[p].acct
    IN  /\ pc[p] = "decr"
        /\ rate' = [rate EXCEPT ![a] = @ - 1]
        /\ IF fresh[p]
           THEN held' = [held EXCEPT ![a] = @ - 1] /\ UNCHANGED stale
           ELSE stale' = [stale EXCEPT ![a] = @ + 1] /\ UNCHANGED held
        /\ fresh' = [fresh EXCEPT ![p] = FALSE]
        /\ Goto(p, call[p].verdict)
        /\ UNCHANGED <<ttl, daily, paused, warm, call, late, crashes>>

\* The worker takes the result (or the exception) and the slot is free again.
Return(p) ==
    /\ pc[p] \in {"sent", "refused", "failed"}
    /\ Goto(p, "idle")
    /\ call' = [call EXCEPT ![p] = NoCall]
    /\ fresh' = [fresh EXCEPT ![p] = FALSE]
    /\ UNCHANGED <<limitVars, held, stale, late, paused, warm, crashes>>

-----------------------------------------------------------------------------
(* What happens around the calls. *)

\* Redis drops the rate key when its 60 seconds are over.
WindowExpires(a) ==
    /\ ttl[a]
    /\ rate' = [rate EXCEPT ![a] = 0]
    /\ ttl' = [ttl EXCEPT ![a] = FALSE]
    /\ fresh' = [p \in Caller |-> fresh[p] /\ call[p].acct # a]
    /\ held' = [held EXCEPT ![a] = 0]
    /\ stale' = [stale EXCEPT ![a] = 0]
    /\ UNCHANGED <<daily, paused, warm, pc, call, late, crashes>>

\* Midnight UTC: the counter key carries the date, so a new one is used.
NewDay ==
    /\ daily' = [a \in Account |-> 0]
    /\ UNCHANGED <<rate, ttl, paused, warm, pc, call, historyVars, crashes>>

SetOutboundPaused(a, value) ==
    /\ paused' = [paused EXCEPT ![a] = value]
    /\ late' = [late EXCEPT ![a] = IF paused[a] /\ value THEN @ ELSE 0]
    /\ UNCHANGED <<limitVars, fresh, held, stale, warm, pc, call, crashes>>

\* A contact writes in, or its last inbound message becomes 24 hours old.
ContactWarms(c) ==
    /\ warm' = warm \cup {c}
    /\ UNCHANGED <<limitVars, historyVars, paused, pc, call, crashes>>

ContactCools(c) ==
    /\ warm' = warm \ {c}
    /\ UNCHANGED <<limitVars, historyVars, paused, pc, call, crashes>>

\* The process dies: every call in flight is gone, Redis keeps its keys.
Crash ==
    /\ crashes < MaxCrashes
    /\ crashes' = crashes + 1
    /\ pc' = [p \in Caller |-> "idle"]
    /\ call' = [p \in Caller |-> NoCall]
    /\ fresh' = [p \in Caller |-> FALSE]
    /\ UNCHANGED <<limitVars, held, stale, late, paused, warm>>

Advance(p) ==
    \/ Preflight(p) \/ ConsumeRate(p) \/ Expire(p)
    \/ CheckDaily(p) \/ IncrementDaily(p)
    \/ ProviderAccepts(p) \/ ProviderRejects(p)
    \/ RefundRead(p) \/ RefundDecr(p) \/ Return(p)

Next ==
    \/ \E p \in Caller : Advance(p)
    \/ \E p \in Caller, a \in Account, c \in Contact, tmpl \in BOOLEAN :
           Load(p, a, c, tmpl)
    \/ \E a \in Account : WindowExpires(a)
    \/ \E a \in Account, value \in BOOLEAN : SetOutboundPaused(a, value)
    \/ \E c \in Contact : ContactWarms(c) \/ ContactCools(c)
    \/ NewDay
    \/ Crash

Spec == Init /\ [][Next]_guardVars

\* Node runs every pending continuation, and Redis expires every key that
\* carries an expiry.  Nobody is obliged to send, pause, or write in.
FairSpec ==
    /\ Spec
    /\ \A p \in Caller : WF_guardVars(Advance(p))
    /\ \A a \in Account : WF_guardVars(WindowExpires(a))

-----------------------------------------------------------------------------
(* Properties. *)

\* The daily cap is read and incremented in two commands, so slots can pass it
\* together; each slot can carry it over by one message and no more.
DailyOvershootBounded ==
    \A a \in Account :
        DailyCap > 0 => daily[a] <= DailyCap + Cardinality(Caller) - 1

\* A window grants at most the per-minute limit, plus one message for each
\* refund that arrived after its own window had expired.
RateBoundedUpToStaleRefunds ==
    \A a \in Account : held[a] <= PerMinute + stale[a]

\* A rate counter that blocks or counts down always has an expiry, or the slot
\* that created it is about to set one: an account is never throttled for good.
\* Only a crash between INCR and EXPIRE breaks this.
NoImmortalBucket ==
    crashes = 0 =>
        \A a \in Account :
            rate[a] >= 1 /\ ~ttl[a] =>
                \E p \in Caller : pc[p] = "expire" /\ call[p].acct = a

\* Pausing an account stops it: what still goes out is at most one message per
\* worker slot, the one whose account row had been read before the pause.
PauseLeakBounded ==
    \A a \in Account : late[a] <= Cardinality(Caller)

\* An account at its per-minute limit gets below it again, unless the process
\* died before the counter had its expiry.
BucketDrains ==
    \A a \in Account :
        rate[a] >= PerMinute ~> rate[a] < PerMinute \/ crashes > 0
=============================================================================
