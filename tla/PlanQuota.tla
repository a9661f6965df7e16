----------------------------- MODULE PlanQuota -----------------------------
(***************************************************************************)
(* The monthly message quota of an agency: PlanLimitsService.              *)
(* assertCanSendMessage (billing/plan-limits.service.ts) on one agency's   *)
(* UsageRecord rows.  Rows of different agencies are disjoint.             *)
(*                                                                         *)
(* The upsert increments and returns the counter in one statement; the     *)
(* comparison works on the returned value, and an over-quota caller takes  *)
(* its increment back in a second statement whose failure is swallowed.    *)
(* The plan and the month are read before the upsert, so both may have     *)
(* changed when the increment happens.                                     *)
(***************************************************************************)
EXTENDS Integers, FiniteSets

CONSTANTS Worker,     \* callers of assertCanSendMessage
          Plan,       \* plans of billing/plans.ts
          Quota,      \* Plan -> maxMessagesPerMonth
          Unlimited,  \* plans whose maxMessagesPerMonth is MAX_SAFE_INTEGER
          LastPeriod, \* bound: months modelled are 1 .. LastPeriod
          MaxUsage    \* bound: value at which a modelled usage counter stops

ASSUME QuotaAssumption ==
    /\ IsFiniteSet(Worker)
    /\ Unlimited \subseteq Plan
    /\ Quota \in [Plan -> Nat]
    /\ LastPeriod \in Nat \ {0}
    /\ MaxUsage \in Nat

Period == 1 .. LastPeriod

VARIABLES
    plan,     \* agency.plan
    month,    \* the current UTC month
    usage,    \* UsageRecord.messages of each month
    qpc,      \* where each caller is in assertCanSendMessage
    context,  \* what each caller's getContext returned
    counted,  \* history: admissions counted against each month
    leaked    \* history: increments of each month that nobody takes back

quotaVars == <<plan, month, usage, qpc, context, counted, leaked>>

Context == [plan : Plan, period : Period]

QuotaStep == {"idle", "upsert", "compensate", "admitted", "refused", "failed"}

TypeOK ==
    /\ plan \in Plan
    /\ month \in Period
    /\ usage \in [Period -> Int]
    /\ qpc \in [Worker -> QuotaStep]
    /\ context \in [Worker -> Context]
    /\ counted \in [Period -> Nat]
    /\ leaked \in [Period -> Nat]

Init ==
    /\ plan \in Plan
    /\ month = 1
    /\ usage = [t \in Period |-> 0]
    /\ qpc = [w \in Worker |-> "idle"]
    /\ context = [w \in Worker |-> [plan |-> plan, period |-> 1]]
    /\ counted = [t \in Period |-> 0]
    /\ leaked = [t \in Period |-> 0]

\* Callers that have to take their increment of month t back.
Pending(t) == {w \in Worker : qpc[w] = "compensate" /\ context[w].period = t}

QGoto(w, s) == qpc' = [qpc EXCEPT ![w] = s]

\* getContext: the agency's plan, and the first day of the current month.
\* Unlimited plans return here, without counting.
GetContext(w) ==
    /\ qpc[w] = "idle"
    /\ context' = [context EXCEPT ![w] = [plan |-> plan, period |-> month]]
    /\ \/ QGoto(w, IF plan \in Unlimited THEN "admitted" ELSE "upsert")
       \/ QGoto(w, "failed")
    /\ UNCHANGED <<plan, month, usage, counted, leaked>>

OverQuotaOffByOne(n, q) == n > Quota[q] + 1
OverQuota(n, q) == n > Quota[q]

\* The atomic increment, and the comparison of the value it returned.
Upsert(w) ==
    LET t == context[w].period
        n == usage[t] + 1
    IN  /\ qpc[w] = "upsert"
        /\ usage[t] < MaxUsage
        /\ usage' = [usage EXCEPT ![t] = n]
        /\ \/ /\ OverQuota(n, context[w].plan)
              /\ QGoto(w, "compensate")
              /\ UNCHANGED counted
           \/ /\ ~OverQuota(n, context[w].plan)
              /\ QGoto(w, "admitted")
              /\ counted' = [counted EXCEPT ![t] = @ + 1]
        /\ UNCHANGED <<plan, month, context, leaked>>

\* The upsert throws: before it took effect, or after (the answer was lost).
UpsertThrows(w) ==
    LET t == context[w].period
    IN  /\ qpc[w] = "upsert"
        /\ \/ UNCHANGED <<usage, leaked>>
           \/ /\ usage[t] < MaxUsage
              /\ usage' = [usage EXCEPT ![t] = @ + 1]
              /\ leaked' = [leaked EXCEPT ![t] = @ + 1]
        /\ QGoto(w, "failed")
        /\ UNCHANGED <<plan, month, context, counted>>

\* The compensation computes the month again instead of using the context's.
CompensateThisMonth(w) ==
    /\ qpc[w] = "compensate"
    /\ \/ usage' = [usage EXCEPT ![month] = @ - 1] /\ UNCHANGED leaked
       \/ leaked' = [leaked EXCEPT ![month] = @ + 1] /\ UNCHANGED usage
    /\ QGoto(w, "refused")
    /\ UNCHANGED <<plan, month, context, counted>>

\* The decrement of the refused increment; .catch(() => undefined).
Compensate(w) ==
    LET t == context[w].period
    IN  /\ qpc[w] = "compensate"
        /\ \/ usage' = [usage EXCEPT ![t] = @ - 1] /\ UNCHANGED leaked
           \/ leaked' = [leaked EXCEPT ![t] = @ + 1] /\ UNCHANGED usage
        /\ QGoto(w, "refused")
        /\ UNCHANGED <<plan, month, context, counted>>

\* The worker goes on with the result.
Proceed(w) ==
    /\ qpc[w] \in {"admitted", "refused", "failed"}
    /\ QGoto(w, "idle")
    /\ UNCHANGED <<plan, month, usage, context, counted, leaked>>

NextMonth ==
    /\ month < LastPeriod
    /\ month' = month + 1
    /\ UNCHANGED <<plan, usage, qpc, context, counted, leaked>>

\* The agency moves to another plan (billing or an administrator).
ChangePlan(q) ==
    /\ plan' = q
    /\ UNCHANGED <<month, usage, qpc, context, counted, leaked>>

\* The process dies in the middle of calls.
QuotaCrash ==
    /\ qpc' = [w \in Worker |-> "idle"]
    /\ leaked' = [t \in Period |-> leaked[t] + Cardinality(Pending(t))]
    /\ UNCHANGED <<plan, month, usage, context, counted>>

QuotaAdvance(w) == GetContext(w) \/ Upsert(w) \/ UpsertThrows(w) \/ Compensate(w)

Next ==
    \/ \E w \in Worker : QuotaAdvance(w) \/ Proceed(w)
    \/ \E q \in Plan : ChangePlan(q)
    \/ NextMonth
    \/ QuotaCrash

Spec == Init /\ [][Next]_quotaVars

-----------------------------------------------------------------------------
(* Properties. *)

\* "Atomic increment-and-check": no interleaving of callers admits a message
\* beyond the limit of the plan it was checked against, in whatever month.
AdmissionWithinPlan ==
    [][\A t \in Period :
          counted'[t] # counted[t] =>
              \E w \in Worker :
                  /\ context[w].period = t
                  /\ counted'[t] <= Quota[context[w].plan]]_quotaVars

\* "so the count stays accurate": a month's counter is what was admitted
\* against it, plus the refused increments still to be taken back, plus those
\* that a failed statement or a crash left behind.  In particular it never
\* falls below what was admitted, although refused callers decrement it.
UsageAccounted ==
    \A t \in Period : usage[t] = counted[t] + Cardinality(Pending(t)) + leaked[t]
=============================================================================
