---------------------------- MODULE Subscription ----------------------------
(***************************************************************************)
(* The paid plan of one agency: BillingService and the Razorpay webhook    *)
(* (billing/billing.service.ts, billing.controller.ts).                    *)
(*                                                                         *)
(* Razorpay keeps the subscriptions; the database has at most one row, for *)
(* the one that checkout created last.  Webhooks arrive in any order and   *)
(* more than once.  A webhook finds the row by the subscription and then   *)
(* updates it by the row's id, and a checkout or a cancellation is two to  *)
(* four queries and calls, so all of them interleave.                      *)
(***************************************************************************)
EXTENDS Integers, Sequences, FiniteSets

CONSTANTS Call,      \* requests and webhook deliveries handled at a time
          First,     \* the agency's plan at the start
          Statuses,  \* the statuses Razorpay reports
          MaxSubs,   \* bound: subscriptions created at Razorpay
          MaxRows    \* bound: Subscription rows created, one after the other

RemoteStatus == {"created", "authenticated", "active", "pending", "halted",
                 "paused", "cancelled", "completed", "expired"}

ASSUME SubscriptionAssumption ==
    Call # {} /\ Statuses \subseteq RemoteStatus /\ MaxSubs \in Nat /\ MaxRows \in Nat

VARIABLES
    remote,   \* Razorpay's status of each of its subscriptions
    sent,     \* events it has sent, and may send again: <<subscription, status>>
    record,   \* the Subscription row
    created,  \* rows created so far; the last one is the only one left
    agency,   \* the Agency row: its plan, isActive
    bill,     \* each call: its step, the subscription, row and grace it has read
    overtaken \* history: events in progress whose row has been given another
              \* subscription, or deleted, since they found it

subVars == <<remote, sent, record, created, agency, bill, overtaken>>

Ended == {"cancelled", "expired"}          \* for good, and not paid to the end
Grace == {"none", "running", "lapsed"}     \* graceUntil: unset, ahead, past
NoRow == [id |-> 0, sub |-> 0, status |-> "NONE", grace |-> "none"]
NoBill == [step |-> "idle", sub |-> 0, row |-> 0, status |-> "NONE", grace |-> "none"]

SubInit ==
    /\ remote = <<>> /\ sent = {}
    /\ record = NoRow /\ created = 0
    /\ agency = [plan |-> First, active |-> TRUE]
    /\ bill = [c \in Call |-> NoBill]
    /\ overtaken = {}

BillAt(c, s) == bill[c].step = s
BillGoto(c, s) == bill' = [bill EXCEPT ![c].step = s] /\ UNCHANGED overtaken
Reply(c) ==
    /\ bill' = [bill EXCEPT ![c] = NoBill]
    /\ overtaken' = overtaken \ {c}

Overtake == overtaken' = overtaken \cup {c \in Call : bill[c].step \in {"apply", "suspend"}}

-----------------------------------------------------------------------------
(* Razorpay. *)

\* The customer pays, fails to pay, or the subscription ends (also because a
\* cancellation at cycle end was asked for); the change is reported.
RemoteChange(s, status) ==
    /\ remote[s] \notin Ended \cup {"completed"}
    /\ status \notin {"created", remote[s]}
    /\ remote[s] = "created" => status \in {"authenticated", "active"} \cup Ended
    /\ remote' = [remote EXCEPT ![s] = status]
    /\ sent' = sent \cup {<<s, status>>}
    /\ UNCHANGED <<record, created, agency, bill, overtaken>>

-----------------------------------------------------------------------------
(* checkout and cancel. *)

\* A paid plan: the subscription is created at Razorpay.
CreateSubscription(c) ==
    /\ bill[c] = NoBill /\ Len(remote) < MaxSubs
    /\ remote' = Append(remote, "created")
    /\ bill' = [bill EXCEPT ![c].step = "upsert", ![c].sub = Len(remote) + 1]
    /\ UNCHANGED <<sent, record, created, agency, overtaken>>

\* The row takes the new subscription over: its id and graceUntil stay, the
\* subscription it named goes on at Razorpay, and agency.plan is not written.
UpsertSubscription(c) ==
    /\ BillAt(c, "upsert")
    /\ \/ /\ record = NoRow /\ created < MaxRows
          /\ created' = created + 1
          /\ record' = [id |-> created + 1, sub |-> bill[c].sub,
                        status |-> "TRIALING", grace |-> "none"]
       \/ /\ record # NoRow
          /\ record' = [record EXCEPT !.sub = bill[c].sub, !.status = "TRIALING"]
          /\ UNCHANGED created
    /\ bill' = [bill EXCEPT ![c] = NoBill]
    /\ Overtake
    /\ UNCHANGED <<remote, sent, agency>>

\* checkout('FREE') and cancel read the row first; cancel answers 404 when
\* there is none.
FindOwn(c, step) ==
    /\ bill[c] = NoBill
    /\ step = "free" \/ record # NoRow
    /\ BillGoto(c, step)
    /\ UNCHANGED <<remote, sent, record, created, agency>>

\* cancelSubscription, at cycle end, so Razorpay changes nothing yet: an error
\* ends cancel and is swallowed by checkout('FREE'), which deletes the row
\* either way.
CancelRemote(c) ==
    /\ \/ BillAt(c, "cancel") /\ \/ BillGoto(c, "cancelled")
                                 \/ Reply(c)
       \/ BillAt(c, "free") /\ BillGoto(c, "delete")
    /\ UNCHANGED <<remote, sent, record, created, agency>>

\* The update throws when the row has been deleted.
CancelRow(c) ==
    /\ BillAt(c, "cancelled")
    /\ record' = IF record = NoRow THEN NoRow ELSE [record EXCEPT !.status = "CANCELLED"]
    /\ Reply(c)
    /\ UNCHANGED <<remote, sent, created, agency>>

DeleteRow(c) ==
    /\ BillAt(c, "delete")
    /\ record' = NoRow
    /\ bill' = [bill EXCEPT ![c].step = "plan"]
    /\ Overtake
    /\ UNCHANGED <<remote, sent, created, agency>>

FreePlan(c) ==
    /\ BillAt(c, "plan")
    /\ agency' = [agency EXCEPT !.plan = "FREE"]
    /\ Reply(c)
    /\ UNCHANGED <<remote, sent, record, created>>

-----------------------------------------------------------------------------
(* applyWebhook. *)

mapStatus(s) == CASE s \in {"authenticated", "active", "completed"} -> "ACTIVE"
                  [] s \in {"created", "pending"}                   -> "TRIALING"
                  [] s \in {"halted", "paused"}                     -> "PAST_DUE"
                  [] s \in {"cancelled", "expired"}                 -> "CANCELLED"

Found(c, e) ==
    /\ bill' = [bill EXCEPT ![c] = [step |-> "apply", sub |-> e[1], row |-> record.id,
                                    status |-> mapStatus(e[2]), grace |-> record.grace]]
    /\ UNCHANGED <<remote, sent, record, created, agency, overtaken>>

\* As if the row were found by its agency.
FindOfAgency(c, e) ==
    /\ bill[c] = NoBill /\ record # NoRow
    /\ Found(c, e)

\* An event for a subscription the row does not name is acknowledged.
FindBySub(c, e) ==
    /\ bill[c] = NoBill /\ record.sub = e[1]
    /\ Found(c, e)

\* graceUntil follows from the status and from the value that was read.
NextGrace(status, grace) ==
    CASE status = "ACTIVE"                        -> "none"
      [] status = "PAST_DUE" /\ grace = "none"    -> "running"
      [] OTHER                                    -> grace

Suspends(status) == status = "CANCELLED"

\* The update by row id throws when the row is gone (Razorpay tries again);
\* when checkout has given the row another subscription meanwhile, it is
\* written all the same.
ApplyEvent(c) ==
    LET b == bill[c]
        g == NextGrace(b.status, b.grace)
    IN  /\ BillAt(c, "apply")
        /\ IF b.row # record.id
           THEN Reply(c) /\ UNCHANGED record
           ELSE /\ record' = [record EXCEPT !.status = b.status, !.grace = g]
                /\ IF Suspends(b.status)
                   THEN /\ bill' = [bill EXCEPT ![c] = [NoBill EXCEPT !.step = "suspend", !.sub = b.sub]]
                        /\ UNCHANGED overtaken
                   ELSE Reply(c)
        /\ UNCHANGED <<remote, sent, created, agency>>

\* At once, whatever graceUntil says.
Suspend(c) ==
    /\ BillAt(c, "suspend")
    /\ agency' = [agency EXCEPT !.active = FALSE]
    /\ Reply(c)
    /\ UNCHANGED <<remote, sent, record, created>>

-----------------------------------------------------------------------------

GraceLapses ==
    /\ record.grace = "running"
    /\ record' = [record EXCEPT !.grace = "lapsed"]
    /\ UNCHANGED <<remote, sent, created, agency, bill, overtaken>>

\* A super admin switches the agency on or off (AgencyService.setActive).
SetActive(on) ==
    /\ agency.active # on
    /\ agency' = [agency EXCEPT !.active = on]
    /\ UNCHANGED <<remote, sent, record, created, bill, overtaken>>

\* A query or a call to Razorpay throws, or the process dies.
BillThrows(c) ==
    /\ bill[c] # NoBill
    /\ Reply(c)
    /\ UNCHANGED <<remote, sent, record, created, agency>>

BillStep(c) ==
    \/ UpsertSubscription(c) \/ CancelRemote(c) \/ CancelRow(c)
    \/ DeleteRow(c) \/ FreePlan(c) \/ ApplyEvent(c) \/ Suspend(c)

BillArrive(c) ==
    \/ CreateSubscription(c)
    \/ \E step \in {"free", "cancel"} : FindOwn(c, step)
    \/ \E e \in sent : FindBySub(c, e)

SubNext ==
    \/ \E c \in Call : BillStep(c) \/ BillArrive(c) \/ BillThrows(c)
    \/ \E s \in DOMAIN remote, status \in Statuses : RemoteChange(s, status)
    \/ GraceLapses
    \/ \E on \in BOOLEAN : SetActive(on)

\* A handler that has begun goes on to its next query: the process serves
\* every request.  Nothing is assumed of Razorpay, the customer or the admin.
SubSpec ==
    /\ SubInit /\ [][SubNext]_subVars
    /\ \A c \in Call : WF_subVars(BillStep(c))

-----------------------------------------------------------------------------
(* Properties. *)

\* Billing suspends an agency only for a subscription that has ended at Razorpay
\* and that the agency's row still names, or named when the event was looked up
\* and lost to a checkout while the event was being applied.  However late and
\* often they come, events of a subscription that was replaced suspend nobody.
\* (Of "Suspend agency on hard cancel after grace" only the hard cancel is true:
\* graceUntil delays nothing.)
SuspensionEarned ==
    [][agency.active /\ ~agency'.active =>
           \/ UNCHANGED bill      \* a super admin
           \/ \E c \in Call : /\ BillAt(c, "suspend") /\ Reply(c)
                              /\ remote[bill[c].sub] \in Ended
                              /\ record.sub = bill[c].sub \/ c \in overtaken]_subVars

\* "Auto-suspend agency after grace period expires".
LapsedGraceSuspends ==
    record.status = "PAST_DUE" /\ record.grace = "lapsed"
        ~> ~agency.active \/ record.grace # "lapsed"
=============================================================================
