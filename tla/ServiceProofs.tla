--------------------------- MODULE ServiceProofs ----------------------------
(***************************************************************************)
(* Theorems about services around the message path - the message quota,    *)
(* rate limits, the subscription, the limits of a plan, number sign-up,    *)
(* receipts, integrations, the knowledge base, message templates, the flow *)
(* editor and the inbox page - for any number of callers at a time and     *)
(* every value of the other constants.                                     *)
(***************************************************************************)
EXTENDS Capacity, Subscription, Integrations, Signup, Receipts, RateLimits,
        Knowledge, Templates, FlowEditor, InboxPage,
        FiniteSetTheorems, SequenceTheorems, WellFoundedInduction, TLAPS

-----------------------------------------------------------------------------
(* The message quota. *)

\* No step of assertCanSendMessage, of the calendar or of billing breaks the types.
LEMMA QuotaTypeStep == TypeOK /\ [Next]_quotaVars => TypeOK'
  <1> SUFFICES ASSUME TypeOK, [Next]_quotaVars
               PROVE  TypeOK'
    OBVIOUS
  <1> USE DEF TypeOK, QuotaStep, QGoto
  <1>a. \A w \in Worker : context[w].period \in Period
    BY DEF Context
  <1>1. ASSUME NEW w \in Worker, GetContext(w)
        PROVE  TypeOK'
    BY <1>1 DEF GetContext, Context
  <1>2. ASSUME NEW w \in Worker, Upsert(w)
        PROVE  TypeOK'
    BY <1>2, <1>a DEF Upsert
  <1>3. ASSUME NEW w \in Worker, UpsertThrows(w)
        PROVE  TypeOK'
    BY <1>3, <1>a DEF UpsertThrows
  <1>4. ASSUME NEW w \in Worker, Compensate(w)
        PROVE  TypeOK'
    BY <1>4, <1>a DEF Compensate
  <1>5. ASSUME NEW w \in Worker, Proceed(w)
        PROVE  TypeOK'
    BY <1>5 DEF Proceed
  <1>6. ASSUME NEW q \in Plan, ChangePlan(q)
        PROVE  TypeOK'
    BY <1>6 DEF ChangePlan
  <1>7. CASE NextMonth
    BY <1>7, QuotaAssumption DEF NextMonth, Period
  <1>8. CASE QuotaCrash
    <2>1. \A t \in Period : Cardinality(Pending(t)) \in Nat
      <3>1. \A t \in Period : Pending(t) \in SUBSET Worker
        BY DEF Pending
      <3>2. QED
        BY <3>1, QuotaAssumption, FS_Subset, FS_CardinalityType
    <2>2. leaked' = [t \in Period |-> leaked[t] + Cardinality(Pending(t))]
      BY <1>8 DEF QuotaCrash
    <2>3. leaked' \in [Period -> Nat]
      BY <2>1, <2>2
    <2>4. QED
      BY <1>8, <2>3 DEF QuotaCrash
  <1>9. CASE UNCHANGED quotaVars
    BY <1>9 DEF quotaVars
  <1>10. QED
    BY <1>1, <1>2, <1>3, <1>4, <1>5, <1>6, <1>7, <1>8, <1>9
       DEF Next, QuotaAdvance

\* Every variable keeps its type.
THEOREM QuotaTypeCorrect == Spec => []TypeOK
  <1>1. Init => TypeOK
    BY QuotaAssumption DEF Init, TypeOK, Period, Context, QuotaStep
  <1>2. QED
    BY <1>1, QuotaTypeStep, PTL DEF Spec

-----------------------------------------------------------------------------

\* Only finitely many refused increments wait to be taken back at a time.
LEMMA PendingFinite ==
  ASSUME NEW t \in Period
  PROVE  /\ IsFiniteSet(Pending(t)) /\ IsFiniteSet(Pending(t)')
         /\ Cardinality(Pending(t)) \in Nat
         /\ Cardinality(Pending(t)') \in Nat
  <1>1. Pending(t) \in SUBSET Worker /\ Pending(t)' \in SUBSET Worker
    BY DEF Pending
  <1>2. QED
    BY <1>1, QuotaAssumption, FS_Subset, FS_CardinalityType

\* How a step changes one month's account: either it keeps the books, or it is
\* an increment, a compensation or a crash.
LEMMA BookSteps ==
  ASSUME TypeOK, [Next]_quotaVars, NEW t \in Period
  PROVE  \/ /\ usage'[t] = usage[t] /\ counted'[t] = counted[t]
            /\ leaked'[t] = leaked[t] /\ Pending(t)' = Pending(t)
         \/ \E w \in Worker : /\ context[w].period = t
                              /\ Upsert(w) \/ UpsertThrows(w) \/ Compensate(w)
         \/ QuotaCrash
  <1> USE DEF TypeOK, Context, Pending, QGoto
  <1>1. ASSUME NEW w \in Worker, GetContext(w) \/ Proceed(w)
        PROVE  /\ usage'[t] = usage[t] /\ counted'[t] = counted[t]
               /\ leaked'[t] = leaked[t] /\ Pending(t)' = Pending(t)
    BY <1>1 DEF GetContext, Proceed
  <1>2. ASSUME NEW w \in Worker, context[w].period # t,
               Upsert(w) \/ UpsertThrows(w) \/ Compensate(w)
        PROVE  /\ usage'[t] = usage[t] /\ counted'[t] = counted[t]
               /\ leaked'[t] = leaked[t] /\ Pending(t)' = Pending(t)
    BY <1>2 DEF Upsert, UpsertThrows, Compensate
  <1>3. CASE \/ \E q \in Plan : ChangePlan(q)
             \/ NextMonth \/ UNCHANGED quotaVars
    BY <1>3 DEF ChangePlan, NextMonth, quotaVars
  <1>4. QED
    BY <1>1, <1>2, <1>3 DEF Next, QuotaAdvance

\* The increment of the upsert is booked: as an admission, or as a refusal that is
\* still to be taken back.
LEMMA UpsertBooks ==
  ASSUME TypeOK, UsageAccounted, NEW w \in Worker, NEW t \in Period,
         context[w].period = t, Upsert(w)
  PROVE  usage'[t] = counted'[t] + Cardinality(Pending(t)') + leaked'[t]
  <1> USE DEF TypeOK, Context, QGoto
  <1>1. /\ usage[t] \in Int /\ counted[t] \in Nat /\ leaked[t] \in Nat
        /\ usage[t] = counted[t] + Cardinality(Pending(t)) + leaked[t]
        /\ leaked'[t] = leaked[t]
    BY DEF UsageAccounted, Upsert
  <1>2. CASE OverQuota(usage[t] + 1, context[w].plan)
    <2>1. usage'[t] = usage[t] + 1 /\ counted'[t] = counted[t]
      BY <1>2 DEF Upsert
    <2>2. Pending(t)' = Pending(t) \cup {w} /\ w \notin Pending(t)
      BY <1>2 DEF Upsert, Pending
    <2>3. Cardinality(Pending(t)') = Cardinality(Pending(t)) + 1
      BY <2>2, PendingFinite, FS_AddElement
    <2>4. QED
      BY <1>1, <2>1, <2>3, PendingFinite
  <1>3. CASE ~OverQuota(usage[t] + 1, context[w].plan)
    <2>1. usage'[t] = usage[t] + 1 /\ counted'[t] = counted[t] + 1
      BY <1>3 DEF Upsert
    <2>2. Pending(t)' = Pending(t)
      BY <1>3 DEF Upsert, Pending
    <2>3. QED
      BY <1>1, <2>1, <2>2, PendingFinite
  <1>4. QED
    BY <1>2, <1>3

\* The books balance in every month, after any interleaving of callers, failed
\* statements, plan changes, month ends and crashes.
THEOREM BooksBalance == Spec => []UsageAccounted
  <1>1. Init => UsageAccounted
    <2> SUFFICES ASSUME Init, NEW t \in Period
                 PROVE  usage[t] = counted[t] + Cardinality(Pending(t))
                                   + leaked[t]
      BY DEF UsageAccounted
    <2>1. Pending(t) = {}
      BY DEF Init, Pending
    <2>2. QED
      BY <2>1, FS_EmptySet DEF Init
  <1>2. TypeOK /\ UsageAccounted /\ [Next]_quotaVars => UsageAccounted'
    <2> SUFFICES ASSUME TypeOK, UsageAccounted, [Next]_quotaVars,
                        NEW t \in Period
                 PROVE  usage'[t] = counted'[t] + Cardinality(Pending(t)')
                                    + leaked'[t]
      BY DEF UsageAccounted
    <2>1. /\ usage[t] \in Int /\ counted[t] \in Nat /\ leaked[t] \in Nat
          /\ usage[t] = counted[t] + Cardinality(Pending(t)) + leaked[t]
      BY DEF TypeOK, UsageAccounted
    <2>2. ASSUME NEW w \in Worker, context[w].period = t, UpsertThrows(w)
          PROVE  usage'[t] = counted'[t] + Cardinality(Pending(t)')
                             + leaked'[t]
      <3>1. Pending(t)' = Pending(t)
        BY <2>2 DEF UpsertThrows, Pending, QGoto, TypeOK
      <3>2. QED
        BY <2>1, <2>2, <3>1, PendingFinite DEF UpsertThrows, TypeOK
    <2>3. ASSUME NEW w \in Worker, context[w].period = t, Compensate(w)
          PROVE  usage'[t] = counted'[t] + Cardinality(Pending(t)')
                             + leaked'[t]
      <3>1. Pending(t)' = Pending(t) \ {w} /\ w \in Pending(t)
        BY <2>3 DEF Compensate, Pending, QGoto, TypeOK
      <3>2. Cardinality(Pending(t)') = Cardinality(Pending(t)) - 1
        BY <3>1, PendingFinite, FS_RemoveElement
      <3>3. QED
        BY <2>1, <2>3, <3>2, PendingFinite DEF Compensate, TypeOK
    <2>4. CASE QuotaCrash
      <3>1. Pending(t)' = {}
        BY <2>4 DEF QuotaCrash, Pending
      <3>2. /\ usage'[t] = usage[t] /\ counted'[t] = counted[t]
            /\ leaked'[t] = leaked[t] + Cardinality(Pending(t))
        BY <2>4 DEF QuotaCrash
      <3>3. QED
        BY <2>1, <3>1, <3>2, PendingFinite, FS_EmptySet
    <2>5. QED
      BY <2>1, <2>2, <2>3, <2>4, BookSteps, UpsertBooks
  <1>3. QED
    BY <1>1, <1>2, QuotaTypeCorrect, PTL DEF Spec

\* Increment-and-check admits within the plan, however callers interleave: the
\* returned counter is at least the number of admissions it includes.
THEOREM QuotaRespected == Spec => AdmissionWithinPlan
  <1>1. TypeOK /\ UsageAccounted /\ [Next]_quotaVars =>
            [\A t \in Period :
                counted'[t] # counted[t] =>
                    \E w \in Worker :
                        /\ context[w].period = t
                        /\ counted'[t] <= Quota[context[w].plan]]_quotaVars
    <2> SUFFICES ASSUME TypeOK, UsageAccounted, [Next]_quotaVars,
                        NEW t \in Period, counted'[t] # counted[t]
                 PROVE  \E w \in Worker :
                            /\ context[w].period = t
                            /\ counted'[t] <= Quota[context[w].plan]
      OBVIOUS
    <2>1. PICK w \in Worker : context[w].period = t /\ Upsert(w)
      BY BookSteps DEF UpsertThrows, Compensate, QuotaCrash, TypeOK
    <2>2. /\ counted'[t] = counted[t] + 1
          /\ ~OverQuota(usage[t] + 1, context[w].plan)
      BY <2>1 DEF Upsert, TypeOK
    <2>3. Quota[context[w].plan] \in Nat
      BY QuotaAssumption DEF TypeOK, Context
    <2>4. counted[t] <= usage[t]
      BY PendingFinite DEF UsageAccounted, TypeOK
    <2>5. QED
      BY <2>1, <2>2, <2>3, <2>4 DEF OverQuota, TypeOK
  <1>2. QED
    BY <1>1, QuotaTypeCorrect, BooksBalance, PTL DEF Spec, AdmissionWithinPlan

-----------------------------------------------------------------------------
(* Rate limits. *)

\* A call and a counter, and what one of their fields may become.
VisitRec ==
    [step : {"away", "count", "expire", "guard", "expire route"},
     key : 0 .. LastMinute, authed : BOOLEAN]
CounterRec == [count : Nat, expires : BOOLEAN]

RateTypeOK ==
    /\ minute \in 0 .. LastMinute
    /\ counter \in [Keys -> CounterRec]
    /\ visit \in [Visit -> VisitRec]
    /\ let \in [Keys -> Nat]
    /\ orphaned \subseteq Keys

\* The call that has to give key k its expiry.
Expiring(v, k) == visit[v].step \in {"expire", "expire route"} /\ KeyOf(v) = k

Most(k) ==
    IF k = Route THEN RouteMax ELSE IF AuthedLimit > AnonLimit THEN AuthedLimit ELSE AnonLimit

\* What a key k has let through fits its count and its limit, with room for
\* the call that has yet to set its expiry, of which there is one at most.
KeyInv(k) ==
    /\ counter[k].count = 0 => ~counter[k].expires
    /\ let[k] <= counter[k].count /\ let[k] <= Most(k)
    /\ \A v \in Visit : Expiring(v, k) =>
           /\ ~counter[k].expires
           /\ let[k] + 1 <= counter[k].count /\ let[k] + 1 <= Most(k)
    /\ \A u, v \in Visit : Expiring(u, k) /\ Expiring(v, k) => u = v
    /\ counter[k].count > 0 /\ ~counter[k].expires /\ k \notin orphaned =>
           \E v \in Visit : Expiring(v, k)

RateInv == RateTypeOK /\ \A k \in Keys : KeyInv(k)

\* A call's step is replaced and the rest of the call kept.
LEMMA VisitMoved ==
  ASSUME visit \in [Visit -> VisitRec], NEW v \in Visit,
         NEW s \in {"away", "count", "expire", "guard", "expire route"}, Move(v, s)
  PROVE  /\ visit' \in [Visit -> VisitRec]
         /\ visit'[v].step = s /\ visit'[v].key = visit[v].key
         /\ visit'[v].authed = visit[v].authed
         /\ \A u \in Visit \ {v} : visit'[u] = visit[u]
  <1>1. visit[v] \in VisitRec
    OBVIOUS
  <1> DEFINE r == [visit[v] EXCEPT !.step = s]
  <1>2. r \in VisitRec /\ r.step = s /\ r.key = visit[v].key /\ r.authed = visit[v].authed
    BY <1>1 DEF VisitRec
  <1>3. visit' = [visit EXCEPT ![v] = r]
    BY DEF Move
  <1> HIDE DEF r
  <1>4. QED
    BY <1>2, <1>3

\* A call that ends.
LEMMA VisitEnded ==
  ASSUME visit \in [Visit -> VisitRec], NEW v \in Visit, Leave(v)
  PROVE  /\ visit' \in [Visit -> VisitRec]
         /\ visit'[v].step = "away"
         /\ \A u \in Visit \ {v} : visit'[u] = visit[u]
  <1>1. Away \in VisitRec /\ Away.step = "away"
    <2>1. LastMinute \in Nat
      BY RateLimitsAssumption
    <2>2. 0 \in 0 .. LastMinute
      BY <2>1
    <2>3. QED
      BY <2>2 DEF Away, VisitRec
  <1>2. QED
    BY <1>1 DEF Leave

\* A count and an expiry that are set, one field at a time.
LEMMA CounterSet ==
  ASSUME counter \in [Keys -> CounterRec], NEW k \in Keys, NEW n \in Nat
  PROVE  /\ counter' = [counter EXCEPT ![k].count = n] =>
                /\ counter' \in [Keys -> CounterRec]
                /\ counter'[k].count = n /\ counter'[k].expires = counter[k].expires
                /\ \A j \in Keys \ {k} : counter'[j] = counter[j]
         /\ counter' = [counter EXCEPT ![k].expires = TRUE] =>
                /\ counter' \in [Keys -> CounterRec]
                /\ counter'[k].count = counter[k].count /\ counter'[k].expires
                /\ \A j \in Keys \ {k} : counter'[j] = counter[j]
  <1> DEFINE c == [counter[k] EXCEPT !.count = n]
             e == [counter[k] EXCEPT !.expires = TRUE]
  <1>1. counter[k] \in CounterRec
    OBVIOUS
  <1>2. c \in CounterRec /\ c.count = n /\ c.expires = counter[k].expires
    BY <1>1 DEF CounterRec
  <1>3. e \in CounterRec /\ e.count = counter[k].count /\ e.expires
    BY <1>1 DEF CounterRec
  <1>4. /\ counter' = [counter EXCEPT ![k].count = n] => counter' = [counter EXCEPT ![k] = c]
        /\ counter' = [counter EXCEPT ![k].expires = TRUE] => counter' = [counter EXCEPT ![k] = e]
    OBVIOUS
  <1> HIDE DEF c, e
  <1>5. QED
    BY <1>2, <1>3, <1>4

\* What the two INCRs have in common, and the two EXPIREs.
Counts(v, k, limit, first) ==
    /\ counter' = [counter EXCEPT ![k].count = counter[k].count + 1]
    /\ minute' = minute /\ orphaned' = orphaned
    /\ \/ counter[k].count = 0 /\ Move(v, first) /\ let' = let
       \/ counter[k].count # 0 /\ Leave(v) /\ let' = let
       \/ /\ counter[k].count # 0 /\ counter[k].count + 1 <= limit
          /\ Leave(v) \/ Move(v, "guard")
          /\ let' = [let EXCEPT ![k] = let[k] + 1]

Expires(v, k) ==
    /\ counter' = [counter EXCEPT ![k].expires = TRUE]
    /\ minute' = minute /\ orphaned' = orphaned
    /\ Leave(v) \/ Move(v, "guard")
    /\ let' = [let EXCEPT ![k] = let[k] + 1]

\* The key of a call, its limit and what it has counted are what they seem.
LEMMA KeyTypes ==
  ASSUME RateTypeOK
  PROVE  /\ Route \in Keys /\ \A v \in Visit : KeyOf(v) \in Keys
         /\ \A k \in Keys : counter[k].count \in Nat /\ let[k] \in Nat /\ Most(k) \in Nat \ {0}
         /\ \A k \in Keys : counter[k].count + 1 \in Nat /\ let[k] + 1 \in Nat
         /\ \A v \in Visit : KeyOf(v) # Route => LimitOf(v) \in Nat \ {0} /\ LimitOf(v) <= Most(KeyOf(v))
         /\ RouteMax \in Nat \ {0} /\ Most(Route) = RouteMax
         /\ \A v \in Visit : visit[v].step \in {"count", "expire"} => KeyOf(v) # Route
         /\ \A v \in Visit : visit[v].step \notin {"count", "expire"} => KeyOf(v) = Route
  <1> USE DEF RateTypeOK
  <1>1. {RouteMax, AnonLimit, AuthedLimit} \subseteq Nat \ {0}
    BY RateLimitsAssumption
  <1>2. \A v \in Visit : visit[v].key \in 0 .. LastMinute
    BY DEF VisitRec
  <1>3. LastMinute \in Nat
    BY RateLimitsAssumption
  <1>4. /\ Route \in Keys /\ \A v \in Visit : KeyOf(v) \in Keys
        /\ \A v \in Visit : visit[v].step \in {"count", "expire"} => KeyOf(v) # Route
        /\ \A v \in Visit : visit[v].step \notin {"count", "expire"} => KeyOf(v) = Route
    BY <1>2, <1>3 DEF KeyOf, Keys, Route
  <1>5. \A k \in Keys : counter[k].count \in Nat /\ let[k] \in Nat /\ Most(k) \in Nat \ {0}
    BY <1>1 DEF CounterRec, Most
  <1>6. \A v \in Visit : KeyOf(v) # Route => LimitOf(v) \in Nat \ {0} /\ LimitOf(v) <= Most(KeyOf(v))
    BY <1>1 DEF LimitOf, Most
  <1>7. \A k \in Keys : counter[k].count + 1 \in Nat /\ let[k] + 1 \in Nat
    BY <1>5
  <1>8. QED
    BY <1>1, <1>4, <1>5, <1>6, <1>7 DEF Most

\* The commands of the middleware and of the guard are these two.
LEMMA RedisCommands ==
  ASSUME RateTypeOK, NEW v \in Visit
  PROVE  /\ IncrGlobal(v) => Counts(v, KeyOf(v), LimitOf(v), "expire")
         /\ IncrRoute(v) => Counts(v, Route, RouteMax, "expire route")
         /\ ExpireGlobal(v) => Expires(v, KeyOf(v))
         /\ ExpireRoute(v) => Expires(v, Route)
  <1>1. ASSUME IncrGlobal(v)
        PROVE  Counts(v, KeyOf(v), LimitOf(v), "expire")
    <2> DEFINE k == KeyOf(v)
    <2>1. k \in Keys /\ counter[k].count \in Nat /\ LimitOf(v) \in Nat
      BY <1>1, KeyTypes DEF IncrGlobal
    <2>2. CASE counter[k].count = 0
      BY <1>1, <2>1, <2>2 DEF IncrGlobal, Counts
    <2>3. CASE counter[k].count # 0
      BY <1>1, <2>1, <2>3 DEF IncrGlobal, Counts, Pass
    <2>4. QED
      BY <2>2, <2>3
  <1>2. ASSUME IncrRoute(v)
        PROVE  Counts(v, Route, RouteMax, "expire route")
    <2>1. counter[Route].count \in Nat /\ RouteMax \in Nat
      BY KeyTypes
    <2> DEFINE n == counter[Route].count
    <2>2. /\ counter' = [counter EXCEPT ![Route].count = n + 1]
          /\ minute' = minute /\ orphaned' = orphaned
          /\ IF n + 1 = 1 THEN Move(v, "expire route") /\ let' = let
             ELSE IF n + 1 > RouteMax THEN Leave(v) /\ let' = let
             ELSE Leave(v) /\ let' = [let EXCEPT ![Route] = let[Route] + 1]
      BY <1>2 DEF IncrRoute, Pass
    <2>3. n \in Nat /\ RouteMax \in Nat
      BY <2>1
    <2> HIDE DEF n
    <2>4. (n + 1 = 1 <=> n = 0) /\ (~(n + 1 > RouteMax) <=> n + 1 <= RouteMax)
      BY <2>3
    <2>5. QED
      BY <2>2, <2>4, Zenon DEF Counts, n
  <1>3. ASSUME ExpireGlobal(v)
        PROVE  Expires(v, KeyOf(v))
    <2>1. ~(1 > LimitOf(v))
      BY <1>3, KeyTypes DEF ExpireGlobal
    <2>2. QED
      BY <1>3, <2>1 DEF ExpireGlobal, Expires, Pass
  <1>4. ASSUME ExpireRoute(v)
        PROVE  Expires(v, Route)
    <2>1. ~(1 > RouteMax)
      BY KeyTypes
    <2>2. QED
      BY <1>4, <2>1 DEF ExpireRoute, Expires, Pass
  <1>5. QED
    BY <1>1, <1>2, <1>3, <1>4

\* What they do to a call and to the keys.
LEMMA CommandEffects ==
  ASSUME RateTypeOK, NEW v \in Visit, NEW k \in Keys, NEW limit,
         NEW first \in {"expire", "expire route"},
         Counts(v, k, limit, first) \/ Expires(v, k)
  PROVE  /\ RateTypeOK'
         /\ visit'[v].step \in {first, "away", "guard"}
         /\ visit'[v].step = first => visit'[v].key = visit[v].key
         /\ \A u \in Visit \ {v} : visit'[u] = visit[u]
         /\ \A j \in Keys \ {k} : counter'[j] = counter[j] /\ let'[j] = let[j]
  <1>1. counter[k].count + 1 \in Nat /\ let[k] + 1 \in Nat
    BY KeyTypes
  <1>2. /\ counter' \in [Keys -> CounterRec]
        /\ \A j \in Keys \ {k} : counter'[j] = counter[j]
    BY <1>1, CounterSet DEF Counts, Expires, RateTypeOK
  <1>3. let' \in [Keys -> Nat] /\ \A j \in Keys \ {k} : let'[j] = let[j]
    BY <1>1 DEF Counts, Expires, RateTypeOK
  <1>4. Move(v, first) \/ Move(v, "guard") \/ Leave(v)
    BY DEF Counts, Expires
  <1>5. /\ visit' \in [Visit -> VisitRec]
        /\ visit'[v].step \in {first, "away", "guard"}
        /\ visit'[v].step = first => visit'[v].key = visit[v].key
        /\ \A u \in Visit \ {v} : visit'[u] = visit[u]
    BY <1>4, VisitMoved, VisitEnded DEF RateTypeOK
  <1>6. QED
    BY <1>2, <1>3, <1>5 DEF Counts, Expires, RateTypeOK

\* Every step keeps the types.
LEMMA RateTypeStep ==
  ASSUME RateTypeOK, [RateNext]_rateVars
  PROVE  RateTypeOK'
  <1> USE DEF RateTypeOK
  <1>k. Route \in Keys /\ \A v \in Visit : KeyOf(v) \in Keys
    <2>1. \A v \in Visit : visit[v].key \in 0 .. LastMinute
      BY DEF VisitRec
    <2>2. QED
      BY <2>1 DEF KeyOf, Keys
  <1>1. ASSUME NEW v \in Visit, NEW authed \in BOOLEAN, Visit_(v, authed)
        PROVE  RateTypeOK'
    <2>1. [step |-> "count", key |-> minute, authed |-> authed] \in VisitRec
      BY DEF VisitRec
    <2>2. QED
      BY <1>1, <2>1 DEF Visit_
  <1>2. ASSUME NEW v \in Visit, IncrGlobal(v)
        PROVE  RateTypeOK'
    BY <1>2, <1>k, RedisCommands, CommandEffects
  <1>3. ASSUME NEW v \in Visit, ExpireGlobal(v)
        PROVE  RateTypeOK'
    BY <1>3, <1>k, RedisCommands, CommandEffects
  <1>4. ASSUME NEW v \in Visit, IncrRoute(v)
        PROVE  RateTypeOK'
    BY <1>4, <1>k, RedisCommands, CommandEffects
  <1>5. ASSUME NEW v \in Visit, ExpireRoute(v)
        PROVE  RateTypeOK'
    BY <1>5, <1>k, RedisCommands, CommandEffects
  <1>6. ASSUME NEW v \in Visit, RedisFails(v)
        PROVE  RateTypeOK'
    BY <1>6, <1>k, VisitMoved DEF RedisFails
  <1>7. ASSUME NEW v \in Visit, VisitFails(v)
        PROVE  RateTypeOK'
    BY <1>7, <1>k, VisitEnded DEF VisitFails
  <1>8. ASSUME NEW k \in Keys, KeyExpires(k)
        PROVE  RateTypeOK'
    <2>1. NoKey \in CounterRec
      BY DEF NoKey, CounterRec
    <2>2. QED
      BY <1>8, <2>1 DEF KeyExpires
  <1>9. CASE MinutePasses
    <2>1. LastMinute \in Nat
      BY RateLimitsAssumption
    <2>2. minute' \in 0 .. LastMinute
      BY <1>9, <2>1 DEF MinutePasses
    <2>3. QED
      BY <1>9, <2>2 DEF MinutePasses
  <1>10. CASE UNCHANGED rateVars
    BY <1>10 DEF rateVars
  <1>11. QED
    BY <1>1, <1>2, <1>3, <1>4, <1>5, <1>6, <1>7, <1>8, <1>9, <1>10 DEF RateNext

\* Who has an expiry to set, when only call v moves.
LEMMA Expirers ==
  ASSUME NEW v \in Visit,
         \A u \in Visit \ {v} : visit'[u] = visit[u]
  PROVE  /\ \A u \in Visit \ {v}, j \in Keys : Expiring(u, j)' <=> Expiring(u, j)
         /\ visit[v].step \notin {"expire", "expire route"} =>
                \A j \in Keys : ~Expiring(v, j)
         /\ visit'[v].step \notin {"expire", "expire route"} =>
                \A j \in Keys : ~Expiring(v, j)'
  BY DEF Expiring, KeyOf

\* A key that is not touched keeps its account.
LEMMA KeyKept ==
  ASSUME NEW j \in Keys, KeyInv(j),
         counter'[j] = counter[j], let'[j] = let[j],
         j \in orphaned <=> j \in orphaned',
         \A u \in Visit : Expiring(u, j)' <=> Expiring(u, j)
  PROVE  KeyInv(j)'
  BY DEF KeyInv, Most

\* One more call that is counted, and let through when the count allows.
LEMMA CountArithmetic ==
  ASSUME NEW n \in Nat, NEW l \in Nat, NEW L \in Nat \ {0}, NEW limit \in Nat,
         l <= n, l <= L, limit <= L
  PROVE  /\ ~(l + 1 <= 0)
         /\ n = 0 => n + 1 # 0 /\ n + 1 > 0 /\ l <= n + 1 /\ l + 1 <= n + 1 /\ l + 1 <= L
         /\ n + 1 # 0 /\ l <= n + 1 /\ (n # 0 => n > 0)
         /\ n + 1 <= limit => l + 1 <= n + 1 /\ l + 1 <= L
         /\ l + 1 <= n => /\ l + 1 <= n + 1
                          /\ n + 1 <= limit => l + 1 + 1 <= n + 1 /\ l + 1 + 1 <= L
  OBVIOUS

\* INCR of the key a call is counted under.
LEMMA CountsKeepsKeys ==
  ASSUME RateInv, NEW v \in Visit, NEW k \in Keys, NEW limit \in Nat,
         NEW first \in {"expire", "expire route"},
         Counts(v, k, limit, first), limit <= Most(k),
         visit[v].step \notin {"expire", "expire route"},
         visit'[v].step = first => KeyOf(v)' = k
  PROVE  \A j \in Keys : KeyInv(j)'
  <1>0. RateTypeOK /\ KeyInv(k)
    BY DEF RateInv
  <1>1. /\ \A u \in Visit \ {v} : visit'[u] = visit[u]
        /\ \A j \in Keys \ {k} : counter'[j] = counter[j] /\ let'[j] = let[j]
        /\ visit'[v].step \in {first, "away", "guard"}
    BY <1>0, CommandEffects
  <1>2. /\ \A u \in Visit \ {v}, j \in Keys : Expiring(u, j)' <=> Expiring(u, j)
        /\ \A j \in Keys : ~Expiring(v, j)
        /\ visit'[v].step # first => \A j \in Keys : ~Expiring(v, j)'
        /\ visit'[v].step = first => \A j \in Keys : Expiring(v, j)' <=> j = k
    <2>1. /\ \A u \in Visit \ {v}, j \in Keys : Expiring(u, j)' <=> Expiring(u, j)
          /\ \A j \in Keys : ~Expiring(v, j)
      BY <1>1, Expirers
    <2>2. visit'[v].step # first => \A j \in Keys : ~Expiring(v, j)'
      BY <1>1, Expirers
    <2>3. visit'[v].step = first => \A j \in Keys : Expiring(v, j)' <=> j = k
      BY DEF Expiring
    <2>4. QED
      BY <2>1, <2>2, <2>3
  <1>3. ASSUME NEW j \in Keys \ {k}
        PROVE  KeyInv(j)'
    <2>1. KeyInv(j)
      BY DEF RateInv
    <2>2. \A u \in Visit : Expiring(u, j)' <=> Expiring(u, j)
      BY <1>1, <1>2
    <2>3. j \in orphaned <=> j \in orphaned'
      BY DEF Counts
    <2>4. QED
      BY <1>1, <2>1, <2>2, <2>3, KeyKept
  <1>4. KeyInv(k)'
    <2> DEFINE n == counter[k].count
               l == let[k]
               L == Most(k)
    <2>1. n \in Nat /\ l \in Nat /\ L \in Nat \ {0}
      BY <1>0, KeyTypes
    <2>2. /\ counter'[k].count = n + 1 /\ counter'[k].expires = counter[k].expires
      <3>1. n + 1 \in Nat
        BY <1>0, KeyTypes
      <3>2. QED
        BY <1>0, <3>1, CounterSet DEF Counts, RateTypeOK
    <2>3. Most(k)' = L /\ orphaned' = orphaned
      BY DEF Most, Counts
    <2>4. /\ n = 0 => ~counter[k].expires
          /\ l <= n /\ l <= L
          /\ \A u \in Visit : Expiring(u, k) =>
                 ~counter[k].expires /\ l + 1 <= n /\ l + 1 <= L
          /\ \A u, w \in Visit : Expiring(u, k) /\ Expiring(w, k) => u = w
          /\ n > 0 /\ ~counter[k].expires /\ k \notin orphaned =>
                 \E u \in Visit : Expiring(u, k)
      BY <1>0 DEF KeyInv
    <2> HIDE DEF n, l, L
    <2>5. /\ ~(l + 1 <= 0)
          /\ n = 0 => n + 1 # 0 /\ n + 1 > 0 /\ l <= n + 1 /\ l + 1 <= n + 1 /\ l + 1 <= L
          /\ n + 1 # 0 /\ l <= n + 1 /\ (n # 0 => n > 0)
          /\ n + 1 <= limit => l + 1 <= n + 1 /\ l + 1 <= L
          /\ l + 1 <= n => /\ l + 1 <= n + 1
                           /\ n + 1 <= limit => l + 1 + 1 <= n + 1 /\ l + 1 + 1 <= L
      BY <2>1, <2>4, CountArithmetic DEF L
    <2>6. CASE n = 0 /\ Move(v, first) /\ let' = let
      <3>1. \A u \in Visit : ~Expiring(u, k)
        BY <2>4, <2>5, <2>6, Zenon
      <3>2. visit'[v].step = first
        BY <2>6, <1>0, VisitMoved DEF RateTypeOK
      <3>3. \A u \in Visit : Expiring(u, k)' <=> u = v
        BY <3>1, <3>2, <1>2
      <3>4. let'[k] = l
        BY <2>6 DEF l
      <3>5. QED
        BY <2>2, <2>3, <2>4, <2>5, <2>6, <3>3, <3>4, Zenon DEF KeyInv
    <2>7. CASE n # 0 /\ (Leave(v) \/ Move(v, "guard"))
               /\ (let'[k] = l \/ (let'[k] = l + 1 /\ n + 1 <= limit))
      <3>1. visit'[v].step # first
        BY <2>7, <1>0, VisitMoved, VisitEnded DEF RateTypeOK
      <3>2. \A u \in Visit : Expiring(u, k)' <=> Expiring(u, k)
        BY <3>1, <1>2
      <3>3. /\ let'[k] <= n + 1 /\ let'[k] <= L
            /\ (\E u \in Visit : Expiring(u, k)) => let'[k] + 1 <= n + 1 /\ let'[k] + 1 <= L
        BY <2>4, <2>5, <2>7, Zenon
      <3>4. /\ counter'[k].count = 0 => ~counter'[k].expires
            /\ let'[k] <= counter'[k].count /\ let'[k] <= Most(k)'
        BY <2>2, <2>3, <2>5, <3>3, Zenon
      <3>5. \A u \in Visit : Expiring(u, k)' =>
                /\ ~counter'[k].expires
                /\ let'[k] + 1 <= counter'[k].count /\ let'[k] + 1 <= Most(k)'
        BY <2>2, <2>3, <2>4, <3>2, <3>3, Zenon
      <3>6. \A u, w \in Visit : Expiring(u, k)' /\ Expiring(w, k)' => u = w
        BY <2>4, <3>2, Zenon
      <3>7. ~counter'[k].expires /\ k \notin orphaned' => \E u \in Visit : Expiring(u, k)'
        BY <2>2, <2>3, <2>4, <2>5, <2>7, <3>2, Zenon
      <3>8. QED
        BY <3>4, <3>5, <3>6, <3>7, Zenon DEF KeyInv
    <2>8. QED
      <3>1. let' = [let EXCEPT ![k] = let[k] + 1] => let'[k] = let[k] + 1
        BY <1>0 DEF RateTypeOK
      <3>2. let' = let => let'[k] = l
        BY DEF l
      <3>3. \/ n = 0 /\ Move(v, first) /\ let' = let
            \/ n # 0 /\ Leave(v) /\ let' = let
            \/ /\ n # 0 /\ n + 1 <= limit /\ (Leave(v) \/ Move(v, "guard"))
               /\ let' = [let EXCEPT ![k] = let[k] + 1]
        BY DEF Counts, n
      <3>4. let' = [let EXCEPT ![k] = let[k] + 1] => let'[k] = l + 1
        BY <3>1 DEF l
      <3>5. \/ n = 0 /\ Move(v, first) /\ let' = let
            \/ /\ n # 0 /\ (Leave(v) \/ Move(v, "guard"))
               /\ (let'[k] = l \/ (let'[k] = l + 1 /\ n + 1 <= limit))
        BY <3>2, <3>3, <3>4
      <3>6. CASE n = 0 /\ Move(v, first) /\ let' = let
        BY <3>6, <2>6
      <3>7. CASE /\ n # 0 /\ (Leave(v) \/ Move(v, "guard"))
                 /\ (let'[k] = l \/ (let'[k] = l + 1 /\ n + 1 <= limit))
        BY <3>7, <2>7
      <3>8. QED
        BY <3>5, <3>6, <3>7
  <1>5. QED
    BY <1>3, <1>4

\* EXPIRE by the call that found the key new.
LEMMA ExpiresKeepsKeys ==
  ASSUME RateInv, NEW v \in Visit, NEW k \in Keys, Expires(v, k), Expiring(v, k)
  PROVE  \A j \in Keys : KeyInv(j)'
  <1>0. RateTypeOK /\ KeyInv(k)
    BY DEF RateInv
  <1>1. /\ \A u \in Visit \ {v} : visit'[u] = visit[u]
        /\ \A j \in Keys \ {k} : counter'[j] = counter[j] /\ let'[j] = let[j]
    BY <1>0, CommandEffects
  <1>2. visit'[v].step \notin {"expire", "expire route"}
    BY <1>0, VisitMoved, VisitEnded DEF Expires, RateTypeOK
  <1>3. /\ \A u \in Visit \ {v}, j \in Keys : Expiring(u, j)' <=> Expiring(u, j)
        /\ \A j \in Keys : ~Expiring(v, j)'
        /\ \A j \in Keys \ {k} : ~Expiring(v, j)
    <2>1. \A j \in Keys \ {k} : ~Expiring(v, j)
      BY DEF Expiring
    <2>2. QED
      BY <1>1, <1>2, <2>1, Expirers
  <1>4. ASSUME NEW j \in Keys \ {k}
        PROVE  KeyInv(j)'
    <2>1. KeyInv(j)
      BY DEF RateInv
    <2>2. \A u \in Visit : Expiring(u, j)' <=> Expiring(u, j)
      BY <1>3
    <2>3. j \in orphaned <=> j \in orphaned'
      BY DEF Expires
    <2>4. QED
      BY <1>1, <2>1, <2>2, <2>3, KeyKept
  <1>5. KeyInv(k)'
    <2>1. counter'[k].count = counter[k].count /\ counter'[k].expires
      BY <1>0, KeyTypes, CounterSet DEF Expires, RateTypeOK
    <2>2. let'[k] = let[k] + 1 /\ Most(k)' = Most(k)
      BY <1>0 DEF Expires, RateTypeOK, Most
    <2>3. \A u \in Visit : ~Expiring(u, k)'
      BY <1>0, <1>3 DEF KeyInv
    <2>4. /\ let[k] + 1 <= counter[k].count /\ let[k] + 1 <= Most(k)
          /\ counter[k].count # 0
      <3>1. counter[k].count \in Nat /\ let[k] \in Nat
        BY <1>0, KeyTypes
      <3>2. QED
        BY <1>0, <3>1 DEF KeyInv
    <2>5. QED
      BY <2>1, <2>2, <2>3, <2>4 DEF KeyInv
  <1>6. QED
    BY <1>4, <1>5

\* No command, failure or expiry spoils the account of a key.
LEMMA RateInvStep ==
  ASSUME RateInv, [RateNext]_rateVars
  PROVE  RateInv'
  <1>0. RateTypeOK /\ RateTypeOK' /\ \A j \in Keys : KeyInv(j)
    BY RateTypeStep DEF RateInv
  <1>1. ASSUME NEW v \in Visit, NEW authed \in BOOLEAN, Visit_(v, authed)
        PROVE  \A j \in Keys : KeyInv(j)'
    <2>1. visit[v].step = "away"
      BY <1>1 DEF Visit_, Away
    <2>2. visit'[v].step = "count" /\ \A u \in Visit \ {v} : visit'[u] = visit[u]
      BY <1>0, <1>1 DEF Visit_, RateTypeOK
    <2>3. \A u \in Visit, j \in Keys : Expiring(u, j)' <=> Expiring(u, j)
      BY <2>1, <2>2, Expirers
    <2>4. counter' = counter /\ let' = let /\ orphaned' = orphaned
      BY <1>1 DEF Visit_
    <2>5. QED
      BY <1>0, <2>3, <2>4, KeyKept
  <1>2. ASSUME NEW v \in Visit, IncrGlobal(v)
        PROVE  \A j \in Keys : KeyInv(j)'
    <2> DEFINE k == KeyOf(v)
    <2>1. visit[v].step = "count"
      BY <1>2 DEF IncrGlobal
    <2>2. k \in Keys /\ LimitOf(v) \in Nat /\ LimitOf(v) <= Most(k) /\ k # Route
      BY <1>0, <2>1, KeyTypes
    <2>3. Counts(v, k, LimitOf(v), "expire")
      BY <1>0, <1>2, RedisCommands
    <2>4. visit'[v].step = "expire" => KeyOf(v)' = k
      <3>1. visit'[v].step = "expire" => visit'[v].key = visit[v].key
        BY <1>0, <2>2, <2>3, CommandEffects
      <3>2. QED
        BY <2>1, <3>1 DEF KeyOf
    <2> HIDE DEF k
    <2>5. QED
      BY <2>1, <2>2, <2>3, <2>4, CountsKeepsKeys
  <1>3. ASSUME NEW v \in Visit, ExpireGlobal(v)
        PROVE  \A j \in Keys : KeyInv(j)'
    <2>1. KeyOf(v) \in Keys /\ Expires(v, KeyOf(v)) /\ Expiring(v, KeyOf(v))
      BY <1>0, <1>3, KeyTypes, RedisCommands DEF ExpireGlobal, Expiring
    <2>2. QED
      BY <2>1, ExpiresKeepsKeys
  <1>4. ASSUME NEW v \in Visit, IncrRoute(v)
        PROVE  \A j \in Keys : KeyInv(j)'
    <2>1. visit[v].step = "guard"
      BY <1>4 DEF IncrRoute
    <2>2. Route \in Keys /\ RouteMax \in Nat /\ RouteMax <= Most(Route)
      BY <1>0, KeyTypes
    <2>3. Counts(v, Route, RouteMax, "expire route")
      BY <1>0, <1>4, RedisCommands
    <2>4. visit'[v].step = "expire route" => KeyOf(v)' = Route
      BY DEF KeyOf, Route
    <2>5. QED
      BY <2>1, <2>2, <2>3, <2>4, CountsKeepsKeys
  <1>5. ASSUME NEW v \in Visit, ExpireRoute(v)
        PROVE  \A j \in Keys : KeyInv(j)'
    <2>1. visit[v].step = "expire route"
      BY <1>5 DEF ExpireRoute
    <2>2. Route \in Keys /\ Expires(v, Route) /\ KeyOf(v) = Route
      BY <1>0, <1>5, <2>1, KeyTypes, RedisCommands
    <2>3. Expiring(v, Route)
      BY <2>1, <2>2 DEF Expiring
    <2>4. QED
      BY <2>2, <2>3, ExpiresKeepsKeys
  <1>6. ASSUME NEW v \in Visit, RedisFails(v) \/ VisitFails(v)
        PROVE  \A j \in Keys : KeyInv(j)'
    <2>1. /\ visit'[v].step \in {"guard", "away"}
          /\ \A u \in Visit \ {v} : visit'[u] = visit[u]
      BY <1>0, <1>6, VisitMoved, VisitEnded DEF RedisFails, VisitFails, RateTypeOK
    <2>2. counter' = counter /\ let' = let
      BY <1>6 DEF RedisFails, VisitFails
    <2>3. /\ \A u \in Visit \ {v}, j \in Keys : Expiring(u, j)' <=> Expiring(u, j)
          /\ \A j \in Keys : ~Expiring(v, j)'
      BY <2>1, Expirers
    <2>4. \A j \in Keys : /\ j \in orphaned => j \in orphaned'
                          /\ Expiring(v, j) => j \in orphaned'
      <3>1. visit[v].step \in {"expire", "expire route"} => orphaned' = orphaned \cup {KeyOf(v)}
        BY <1>6 DEF RedisFails, VisitFails
      <3>2. visit[v].step \notin {"expire", "expire route"} => orphaned' = orphaned
        BY <1>6 DEF RedisFails, VisitFails
      <3>3. QED
        BY <3>1, <3>2 DEF Expiring
    <2>5. QED
      BY <1>0, <2>2, <2>3, <2>4 DEF KeyInv, Most
  <1>7. ASSUME NEW k \in Keys, KeyExpires(k)
        PROVE  \A j \in Keys : KeyInv(j)'
    <2>1. \A u \in Visit, j \in Keys : Expiring(u, j)' <=> Expiring(u, j)
      BY <1>7 DEF KeyExpires, Expiring, KeyOf
    <2>2. ASSUME NEW j \in Keys \ {k}
          PROVE  KeyInv(j)'
      <3>1. counter'[j] = counter[j] /\ let'[j] = let[j] /\ (j \in orphaned <=> j \in orphaned')
        BY <1>0, <1>7 DEF KeyExpires, RateTypeOK
      <3>2. QED
        BY <1>0, <2>1, <3>1, KeyKept
    <2>3. KeyInv(k)'
      <3>1. counter'[k].count = 0 /\ ~counter'[k].expires /\ let'[k] = 0
        BY <1>0, <1>7 DEF KeyExpires, RateTypeOK, NoKey
      <3>2. \A u \in Visit : ~Expiring(u, k)'
        BY <1>0, <1>7, <2>1 DEF KeyInv, KeyExpires
      <3>3. Most(k)' \in Nat
        BY <1>0, KeyTypes DEF Most
      <3>4. 0 <= Most(k)'
        BY <3>3
      <3>5. QED
        BY <3>1, <3>2, <3>4 DEF KeyInv
    <2>4. QED
      BY <2>2, <2>3
  <1>8. ASSUME MinutePasses \/ UNCHANGED rateVars
        PROVE  \A j \in Keys : KeyInv(j)'
    <2>1. counter' = counter /\ let' = let /\ orphaned' = orphaned /\ visit' = visit
      BY <1>8 DEF MinutePasses, rateVars
    <2>2. \A u \in Visit, j \in Keys : Expiring(u, j)' <=> Expiring(u, j)
      BY <2>1 DEF Expiring, KeyOf
    <2>3. QED
      BY <1>0, <2>1, <2>2, KeyKept
  <1>9. \A j \in Keys : KeyInv(j)'
    BY <1>1, <1>2, <1>3, <1>4, <1>5, <1>6, <1>7, <1>8, Zenon DEF RateNext
  <1>10. QED
    BY <1>0, <1>9 DEF RateInv, Keys, Route

\* Nobody is shut out for good and nobody gets more than the limit, however
\* many calls interleave and fail (RateLimitGuard, GlobalRateLimitMiddleware).
THEOREM LimitsHold == RateSpec => []LimitsLapse
  <1>1. RateInit => RateInv
    <2> SUFFICES ASSUME RateInit
                 PROVE  RateInv
      OBVIOUS
    <2>1. LastMinute \in Nat
      BY RateLimitsAssumption
    <2>2. 0 \in 0 .. LastMinute
      BY <2>1
    <2>3. Away \in VisitRec /\ Away.step = "away"
      BY <2>2 DEF Away, VisitRec
    <2>4. NoKey \in CounterRec /\ NoKey.count = 0 /\ NoKey.expires = FALSE
      BY DEF NoKey, CounterRec
    <2>5. RateTypeOK
      BY <2>2, <2>3, <2>4 DEF RateInit, RateTypeOK
    <2>6. \A k \in Keys : counter[k] = NoKey /\ let[k] = 0 /\ 0 <= Most(k)
      BY <2>5, KeyTypes DEF RateInit
    <2>7. \A v \in Visit, k \in Keys : ~Expiring(v, k)
      BY <2>3 DEF RateInit, Expiring
    <2>8. 0 <= 0 /\ ~(0 > 0)
      OBVIOUS
    <2>9. \A k \in Keys : counter[k].count = 0 /\ ~counter[k].expires
      BY <2>4, <2>6, Zenon
    <2>10. \A k \in Keys : KeyInv(k)
      BY <2>6, <2>7, <2>8, <2>9, Zenon DEF KeyInv
    <2>11. QED
      BY <2>5, <2>10 DEF RateInv
  <1>2. RateInv => LimitsLapse
    <2> SUFFICES ASSUME RateInv, NEW k \in Keys
                 PROVE  /\ counter[k].count > 0 /\ ~counter[k].expires /\ k \notin orphaned =>
                               \E v \in Visit : Expiring(v, k)
                        /\ let[k] <= Most(k)
      BY Zenon DEF LimitsLapse, Expiring, Most
    <2>1. KeyInv(k)
      BY DEF RateInv
    <2>2. QED
      BY <2>1, Zenon DEF KeyInv
  <1>3. QED
    BY <1>1, <1>2, RateInvStep, PTL DEF RateSpec

-----------------------------------------------------------------------------
(* The subscription. *)

\* A call, and what it has read.
BillRec ==
    [step : {"idle", "upsert", "free", "cancel", "cancelled", "delete", "plan", "apply", "suspend"},
     sub : Nat, row : Nat,
     status : {"NONE", "TRIALING", "ACTIVE", "PAST_DUE", "CANCELLED"}, grace : Grace]

RowRec ==
    [id : Nat, sub : Nat,
     status : {"NONE", "TRIALING", "ACTIVE", "PAST_DUE", "CANCELLED"}, grace : Grace]

\* A subscription that has ended at Razorpay.
HasEnded(s) == s \in DOMAIN remote /\ remote[s] \in Ended

\* Every report of an end is true, and so is every call that acts on one.
\* Razorpay does not revive a subscription, so both last.
EarnedInv ==
    /\ remote \in Seq(RemoteStatus)
    /\ bill \in [Call -> BillRec]
    /\ record \in RowRec /\ created \in Nat
    /\ agency \in [plan : {First, "FREE"}, active : BOOLEAN]
    /\ \A e \in sent : /\ e[1] \in Nat /\ e[2] \in RemoteStatus
                       /\ e[2] \in Ended => HasEnded(e[1])
    /\ \A c \in Call :
           /\ bill[c].step = "apply" /\ bill[c].status = "CANCELLED" => HasEnded(bill[c].sub)
           /\ bill[c].step = "suspend" => HasEnded(bill[c].sub)

\* The row names the subscription of an event that is being applied, but for an
\* event that a checkout has overtaken.
NamedInv ==
    \A c \in Call : bill[c].step \in {"apply", "suspend"} =>
                       c \in overtaken \/ record.sub = bill[c].sub

\* A call that is answered, or goes on to a step that suspends nobody.
LEMMA BillMoves ==
  ASSUME EarnedInv, NEW c \in Call,
         \/ bill' = [bill EXCEPT ![c] = NoBill]
         \/ \E s \in {"cancelled", "delete", "plan", "free", "cancel"} :
               bill' = [bill EXCEPT ![c].step = s]
  PROVE  /\ bill' \in [Call -> BillRec]
         /\ bill'[c].step \notin {"apply", "suspend"}
         /\ \A d \in Call \ {c} : bill'[d] = bill[d]
  <1>1. NoBill \in BillRec /\ NoBill.step = "idle"
    BY DEF NoBill, BillRec, Grace
  <1>2. CASE bill' = [bill EXCEPT ![c] = NoBill]
    BY <1>1, <1>2 DEF EarnedInv
  <1>3. ASSUME NEW s \in {"cancelled", "delete", "plan", "free", "cancel"},
               bill' = [bill EXCEPT ![c].step = s]
        PROVE  /\ bill' \in [Call -> BillRec]
               /\ bill'[c].step \notin {"apply", "suspend"}
               /\ \A d \in Call \ {c} : bill'[d] = bill[d]
    <2> DEFINE b == [bill[c] EXCEPT !.step = s]
    <2>1. bill[c] \in BillRec
      BY DEF EarnedInv
    <2>2. b \in BillRec /\ b.step = s
      BY <2>1 DEF BillRec
    <2>3. bill' = [bill EXCEPT ![c] = b]
      BY <1>3
    <2> HIDE DEF b
    <2>4. QED
      BY <2>2, <2>3 DEF EarnedInv
  <1>4. QED
    BY <1>2, <1>3

\* Steps that leave Razorpay alone, and whose call then suspends nobody.
LEMMA QuietBill ==
  ASSUME EarnedInv, NEW c \in Call, UNCHANGED <<remote, sent>>,
         bill' \in [Call -> BillRec],
         bill'[c].step \notin {"apply", "suspend"},
         \A d \in Call \ {c} : bill'[d] = bill[d],
         record' \in RowRec, created' \in Nat,
         agency' \in [plan : {First, "FREE"}, active : BOOLEAN]
  PROVE  EarnedInv'
  BY DEF EarnedInv, HasEnded

\* What an event, a grace period and a checkout make of the row.
LEMMA RowWritten ==
  ASSUME record \in RowRec, NEW n \in Nat,
         NEW st \in {"NONE", "TRIALING", "ACTIVE", "PAST_DUE", "CANCELLED"}, NEW g \in Grace
  PROVE  /\ [record EXCEPT !.sub = n, !.status = st] \in RowRec
         /\ [record EXCEPT !.status = st, !.grace = g] \in RowRec
         /\ [record EXCEPT !.status = st] \in RowRec
         /\ [record EXCEPT !.grace = g] \in RowRec
         /\ NoRow \in RowRec
  BY DEF RowRec, NoRow, Grace

\* Queries and calls of checkout and cancel.
LEMMA CheckoutStep ==
  ASSUME EarnedInv, NEW c \in Call,
         \/ UpsertSubscription(c) \/ CancelRemote(c) \/ CancelRow(c) \/ DeleteRow(c)
         \/ FreePlan(c) \/ BillThrows(c)
         \/ \E step \in {"free", "cancel"} : FindOwn(c, step)
  PROVE  EarnedInv'
  <1>0. /\ record \in RowRec /\ created \in Nat /\ bill[c] \in BillRec
        /\ agency \in [plan : {First, "FREE"}, active : BOOLEAN]
    BY DEF EarnedInv
  <1>1. /\ bill' \in [Call -> BillRec]
        /\ bill'[c].step \notin {"apply", "suspend"}
        /\ \A d \in Call \ {c} : bill'[d] = bill[d]
    <2>1. \/ bill' = [bill EXCEPT ![c] = NoBill]
          \/ \E s \in {"cancelled", "delete", "plan", "free", "cancel"} :
                bill' = [bill EXCEPT ![c].step = s]
      BY DEF UpsertSubscription, CancelRemote, CancelRow, DeleteRow, FreePlan, BillThrows,
             FindOwn, Reply, BillGoto
    <2>2. QED
      BY <2>1, BillMoves
  <1>2. record' \in RowRec /\ created' \in Nat
    <2>1. CASE UpsertSubscription(c)
      <3>1. bill[c].sub \in Nat
        BY <1>0 DEF BillRec
      <3>2. CASE record' = [record EXCEPT !.sub = bill[c].sub, !.status = "TRIALING"]
                 /\ UNCHANGED created
        BY <1>0, <3>1, <3>2, RowWritten DEF Grace
      <3>3. CASE created' = created + 1
                 /\ record' = [id |-> created + 1, sub |-> bill[c].sub,
                               status |-> "TRIALING", grace |-> "none"]
        BY <1>0, <3>1, <3>3 DEF RowRec, Grace
      <3>4. QED
        BY <2>1, <3>2, <3>3 DEF UpsertSubscription
    <2>2. CASE CancelRow(c)
      BY <1>0, <2>2, RowWritten DEF CancelRow, Grace
    <2>3. CASE DeleteRow(c)
      BY <1>0, <2>3, RowWritten DEF DeleteRow, Grace
    <2>4. QED
      BY <1>0, <2>1, <2>2, <2>3 DEF CancelRemote, FreePlan, BillThrows, FindOwn
  <1>3. agency' \in [plan : {First, "FREE"}, active : BOOLEAN]
    <2>1. CASE FreePlan(c)
      BY <1>0, <2>1 DEF FreePlan
    <2>2. QED
      BY <1>0, <2>1
         DEF UpsertSubscription, CancelRemote, CancelRow, DeleteRow, BillThrows, FindOwn
  <1>4. UNCHANGED <<remote, sent>>
    BY DEF UpsertSubscription, CancelRemote, CancelRow, DeleteRow, FreePlan, BillThrows, FindOwn
  <1>5. QED
    BY <1>1, <1>2, <1>3, <1>4, QuietBill

\* A webhook: found by its subscription, applied, and acted on.
LEMMA WebhookStep ==
  ASSUME EarnedInv, NEW c \in Call,
         \/ \E e \in sent : FindBySub(c, e)
         \/ ApplyEvent(c)
         \/ Suspend(c)
  PROVE  EarnedInv'
  <1>0. /\ record \in RowRec /\ created \in Nat /\ bill[c] \in BillRec
        /\ bill \in [Call -> BillRec]
        /\ agency \in [plan : {First, "FREE"}, active : BOOLEAN]
    BY DEF EarnedInv
  <1>1. ASSUME NEW e \in sent, FindBySub(c, e)
        PROVE  EarnedInv'
    <2> DEFINE b == [step |-> "apply", sub |-> e[1], row |-> record.id,
                     status |-> mapStatus(e[2]), grace |-> record.grace]
    <2>1. e[1] \in Nat /\ e[2] \in RemoteStatus
          /\ (e[2] \in Ended => HasEnded(e[1]))
      BY DEF EarnedInv
    <2>2. mapStatus(e[2]) \in {"TRIALING", "ACTIVE", "PAST_DUE", "CANCELLED"}
          /\ (mapStatus(e[2]) = "CANCELLED" => e[2] \in Ended)
      BY <2>1 DEF mapStatus, RemoteStatus, Ended
    <2>3. b \in BillRec
      BY <1>0, <2>1, <2>2 DEF BillRec, RowRec
    <2>4. b.step = "apply" /\ b.sub = e[1] /\ b.status = mapStatus(e[2])
      OBVIOUS
    <2>5. bill' = [bill EXCEPT ![c] = b] /\ UNCHANGED <<remote, sent, record, created, agency>>
      BY <1>1 DEF FindBySub, Found
    <2> HIDE DEF b
    <2>6. bill' \in [Call -> BillRec] /\ bill'[c] = b
          /\ \A d \in Call \ {c} : bill'[d] = bill[d]
      BY <1>0, <2>3, <2>5
    <2>7. QED
      BY <2>1, <2>2, <2>4, <2>5, <2>6 DEF EarnedInv, HasEnded
  <1>2. CASE ApplyEvent(c)
    <2>1. bill[c].step = "apply" /\ bill[c].status \in {"NONE", "TRIALING", "ACTIVE", "PAST_DUE", "CANCELLED"}
          /\ bill[c].sub \in Nat
      BY <1>0, <1>2 DEF ApplyEvent, BillAt, BillRec
    <2>2. NextGrace(bill[c].status, bill[c].grace) \in Grace
      BY <1>0 DEF NextGrace, Grace, BillRec
    <2>3. record' \in RowRec
      <3> DEFINE g == NextGrace(bill[c].status, bill[c].grace)
                 st == bill[c].status
      <3>1. record' = record \/ record' = [record EXCEPT !.status = st, !.grace = g]
        BY <1>2 DEF ApplyEvent
      <3>2. st \in {"NONE", "TRIALING", "ACTIVE", "PAST_DUE", "CANCELLED"} /\ g \in Grace
        BY <2>1, <2>2
      <3> HIDE DEF g, st
      <3>3. [record EXCEPT !.status = st, !.grace = g] \in RowRec
        BY <1>0, <3>2, RowWritten
      <3>4. QED
        BY <1>0, <3>1, <3>3
    <2>4. UNCHANGED <<remote, sent, created, agency>>
      BY <1>2 DEF ApplyEvent
    <2>5. CASE Reply(c)
      BY <1>0, <2>3, <2>4, <2>5, BillMoves, QuietBill DEF Reply
    <2>6. CASE Suspends(bill[c].status)
               /\ bill' = [bill EXCEPT ![c] = [NoBill EXCEPT !.step = "suspend", !.sub = bill[c].sub]]
      <3> DEFINE b == [NoBill EXCEPT !.step = "suspend", !.sub = bill[c].sub]
      <3>1. b \in BillRec /\ b.step = "suspend" /\ b.sub = bill[c].sub
        BY <2>1 DEF NoBill, BillRec, Grace
      <3>2. HasEnded(bill[c].sub)
        BY <2>1, <2>6 DEF EarnedInv, Suspends
      <3>3. bill' = [bill EXCEPT ![c] = b]
        BY <2>6
      <3> HIDE DEF b
      <3>4. bill' \in [Call -> BillRec] /\ bill'[c] = b
            /\ \A d \in Call \ {c} : bill'[d] = bill[d]
        BY <1>0, <3>1, <3>3
      <3>5. QED
        BY <2>3, <2>4, <3>1, <3>2, <3>4 DEF EarnedInv, HasEnded
    <2>7. QED
      BY <1>2, <2>5, <2>6 DEF ApplyEvent
  <1>3. CASE Suspend(c)
    <2>1. agency' \in [plan : {First, "FREE"}, active : BOOLEAN]
      BY <1>0, <1>3 DEF Suspend
    <2>2. QED
      BY <1>0, <1>3, <2>1, BillMoves, QuietBill DEF Suspend, Reply
  <1>4. QED
    BY <1>1, <1>2, <1>3

\* Razorpay's own steps and the creation of a subscription: what has ended
\* stays ended.
LEMMA RemoteStep ==
  ASSUME EarnedInv,
         \/ \E c \in Call : CreateSubscription(c)
         \/ \E s \in DOMAIN remote, status \in Statuses : RemoteChange(s, status)
  PROVE  EarnedInv'
  <1>0. /\ remote \in Seq(RemoteStatus) /\ Len(remote) \in Nat
        /\ DOMAIN remote = 1 .. Len(remote)
        /\ \A s \in DOMAIN remote : s \in Nat
    BY LenProperties DEF EarnedInv
  <1>1. ASSUME NEW c \in Call, CreateSubscription(c)
        PROVE  EarnedInv'
    <2>1. remote' = Append(remote, "created") /\ "created" \in RemoteStatus
      BY <1>1 DEF CreateSubscription, RemoteStatus
    <2>2. /\ remote' \in Seq(RemoteStatus)
          /\ \A s \in DOMAIN remote : s \in DOMAIN remote' /\ remote'[s] = remote[s]
      BY <1>0, <2>1, AppendProperties
    <2>3. \A s : HasEnded(s) => HasEnded(s)'
      BY <2>2 DEF HasEnded
    <2> DEFINE b == [bill[c] EXCEPT !.step = "upsert", !.sub = Len(remote) + 1]
    <2>4. b \in BillRec /\ b.step = "upsert"
      <3>1. bill[c] \in BillRec /\ Len(remote) + 1 \in Nat
        BY <1>0 DEF EarnedInv
      <3>2. QED
        BY <3>1 DEF BillRec
    <2>5. bill' = [bill EXCEPT ![c] = b] /\ UNCHANGED <<sent, record, created, agency>>
      BY <1>1 DEF CreateSubscription
    <2> HIDE DEF b
    <2>6. bill' \in [Call -> BillRec] /\ bill'[c].step = "upsert"
          /\ \A d \in Call \ {c} : bill'[d] = bill[d]
      BY <2>4, <2>5 DEF EarnedInv
    <2>7. QED
      BY <2>2, <2>3, <2>5, <2>6 DEF EarnedInv
  <1>2. ASSUME NEW s \in DOMAIN remote, NEW status \in Statuses, RemoteChange(s, status)
        PROVE  EarnedInv'
    <2>1. /\ remote' = [remote EXCEPT ![s] = status] /\ remote[s] \notin Ended
          /\ sent' = sent \cup {<<s, status>>} /\ status \in RemoteStatus
          /\ UNCHANGED <<record, created, agency, bill>>
      BY <1>2, SubscriptionAssumption DEF RemoteChange
    <2>2. remote' \in Seq(RemoteStatus) /\ DOMAIN remote' = DOMAIN remote
      BY <1>0, <2>1, ExceptSeq
    <2>3. \A t : HasEnded(t) => HasEnded(t)'
      BY <2>1, <2>2 DEF HasEnded
    <2>4. status \in Ended => HasEnded(s)'
      BY <2>1, <2>2 DEF HasEnded
    <2>5. \A e \in sent' : /\ e[1] \in Nat /\ e[2] \in RemoteStatus
                           /\ e[2] \in Ended => HasEnded(e[1])'
      <3>1. \A e \in sent : /\ e[1] \in Nat /\ e[2] \in RemoteStatus
                            /\ e[2] \in Ended => HasEnded(e[1])'
        BY <2>3 DEF EarnedInv
      <3>2. s \in Nat
        BY <1>0
      <3>3. QED
        BY <2>1, <2>4, <3>1, <3>2
    <2>6. QED
      BY <2>1, <2>2, <2>3, <2>5 DEF EarnedInv
  <1>3. QED
    BY <1>1, <1>2

\* Every step keeps what has been reported true.
LEMMA EarnedStep ==
  ASSUME EarnedInv, [SubNext]_subVars
  PROVE  EarnedInv'
  <1>1. ASSUME NEW c \in Call, BillStep(c) \/ BillArrive(c) \/ BillThrows(c)
        PROVE  EarnedInv'
    BY <1>1, CheckoutStep, WebhookStep, RemoteStep, Zenon DEF BillStep, BillArrive
  <1>2. ASSUME NEW s \in DOMAIN remote, NEW status \in Statuses, RemoteChange(s, status)
        PROVE  EarnedInv'
    BY <1>2, RemoteStep
  <1>3. CASE GraceLapses
    <2>1. record' \in RowRec
      BY <1>3, RowWritten DEF GraceLapses, EarnedInv, Grace
    <2>2. QED
      BY <1>3, <2>1 DEF GraceLapses, EarnedInv, HasEnded
  <1>4. ASSUME NEW on \in BOOLEAN, SetActive(on)
        PROVE  EarnedInv'
    <2>1. agency' \in [plan : {First, "FREE"}, active : BOOLEAN]
      BY <1>4 DEF SetActive, EarnedInv
    <2>2. QED
      BY <1>4, <2>1 DEF SetActive, EarnedInv, HasEnded
  <1>5. CASE UNCHANGED subVars
    BY <1>5 DEF subVars, EarnedInv, HasEnded
  <1>6. QED
    BY <1>1, <1>2, <1>3, <1>4, <1>5, Zenon DEF SubNext

\* A step of call c after which the row names what it named, or every event
\* in progress has been overtaken.
LEMMA NamedFrame ==
  ASSUME NamedInv, NEW c \in Call,
         \A d \in Call \ {c} : /\ bill'[d] = bill[d]
                               /\ d \in overtaken => d \in overtaken',
         \/ record'.sub = record.sub
         \/ \A d \in Call : bill[d].step \in {"apply", "suspend"} => d \in overtaken',
         bill'[c].step \in {"apply", "suspend"} =>
             c \in overtaken' \/ record'.sub = bill'[c].sub
  PROVE  NamedInv'
  BY DEF NamedInv

\* Only a checkout gives the row another subscription or deletes it, and it
\* overtakes the events in progress.
LEMMA NamedStep ==
  ASSUME EarnedInv, NamedInv, [SubNext]_subVars
  PROVE  NamedInv'
  <1>a. record \in RowRec /\ bill \in [Call -> BillRec]
    BY DEF EarnedInv
  <1>b. ASSUME NEW c \in Call,
               \/ bill' = [bill EXCEPT ![c] = NoBill]
               \/ \E s \in {"cancelled", "delete", "plan", "free", "cancel"} :
                     bill' = [bill EXCEPT ![c].step = s],
               \A d \in Call \ {c} : d \in overtaken => d \in overtaken',
               \/ record'.sub = record.sub
               \/ \A d \in Call : bill[d].step \in {"apply", "suspend"} => d \in overtaken'
        PROVE  NamedInv'
    <2>1. /\ bill'[c].step \notin {"apply", "suspend"}
          /\ \A d \in Call \ {c} : bill'[d] = bill[d]
      BY <1>b, BillMoves
    <2>2. QED
      BY <1>b, <2>1, NamedFrame
  <1>1. ASSUME NEW c \in Call,
               CancelRemote(c) \/ FreePlan(c) \/ BillThrows(c) \/ Suspend(c)
               \/ \E step \in {"free", "cancel"} : FindOwn(c, step)
        PROVE  NamedInv'
    BY <1>1, <1>b
       DEF CancelRemote, FreePlan, BillThrows, Suspend, FindOwn, Reply, BillGoto
  <1>2. ASSUME NEW c \in Call, UpsertSubscription(c) \/ DeleteRow(c)
        PROVE  NamedInv'
    BY <1>2, <1>b DEF UpsertSubscription, DeleteRow, Overtake
  <1>3. ASSUME NEW c \in Call, CancelRow(c)
        PROVE  NamedInv'
    <2>1. record'.sub = record.sub
      BY <1>a, <1>3 DEF CancelRow, RowRec
    <2>2. QED
      BY <1>3, <2>1, <1>b DEF CancelRow, Reply
  <1>4. ASSUME NEW c \in Call, CreateSubscription(c)
        PROVE  NamedInv'
    <2>1. /\ bill' = [bill EXCEPT ![c].step = "upsert", ![c].sub = Len(remote) + 1]
          /\ bill[c] \in BillRec /\ UNCHANGED <<record, overtaken>>
      BY <1>a, <1>4 DEF CreateSubscription
    <2>2. bill'[c].step = "upsert" /\ \A d \in Call \ {c} : bill'[d] = bill[d]
      BY <1>a, <2>1 DEF BillRec
    <2>3. QED
      BY <2>1, <2>2, NamedFrame
  <1>5. ASSUME NEW c \in Call, NEW e \in sent, FindBySub(c, e)
        PROVE  NamedInv'
    <2>1. /\ record.sub = e[1] /\ UNCHANGED <<record, overtaken>>
          /\ bill' = [bill EXCEPT ![c] =
                         [step |-> "apply", sub |-> e[1], row |-> record.id,
                          status |-> mapStatus(e[2]), grace |-> record.grace]]
      BY <1>5 DEF FindBySub, Found
    <2>2. bill'[c].sub = e[1] /\ \A d \in Call \ {c} : bill'[d] = bill[d]
      BY <1>a, <2>1
    <2>3. QED
      BY <2>1, <2>2, NamedFrame
  <1>6. ASSUME NEW c \in Call, ApplyEvent(c)
        PROVE  NamedInv'
    <2>1. record'.sub = record.sub
      BY <1>a, <1>6 DEF ApplyEvent, RowRec
    <2>2. CASE Reply(c)
      BY <2>1, <2>2, <1>b DEF Reply
    <2>3. CASE /\ bill' = [bill EXCEPT ![c] = [NoBill EXCEPT !.step = "suspend",
                                                            !.sub = bill[c].sub]]
               /\ UNCHANGED overtaken
      <3>1. /\ bill'[c].sub = bill[c].sub
            /\ \A d \in Call \ {c} : bill'[d] = bill[d]
        BY <1>a, <2>3 DEF NoBill
      <3>2. c \in overtaken \/ record.sub = bill[c].sub
        BY <1>6 DEF NamedInv, ApplyEvent, BillAt
      <3>3. QED
        BY <2>1, <2>3, <3>1, <3>2, NamedFrame
    <2>4. QED
      BY <1>6, <2>2, <2>3 DEF ApplyEvent
  <1>7. ASSUME record'.sub = record.sub, UNCHANGED <<bill, overtaken>>
        PROVE  NamedInv'
    BY <1>7 DEF NamedInv
  <1>8. CASE GraceLapses
    <2>1. record'.sub = record.sub
      BY <1>a, <1>8 DEF GraceLapses, RowRec
    <2>2. QED
      BY <1>7, <1>8, <2>1 DEF GraceLapses
  <1>9. CASE \/ \E s \in DOMAIN remote, status \in Statuses : RemoteChange(s, status)
             \/ \E on \in BOOLEAN : SetActive(on)
             \/ UNCHANGED subVars
    BY <1>7, <1>9 DEF RemoteChange, SetActive, subVars
  <1>10. QED
    BY <1>1, <1>2, <1>3, <1>4, <1>5, <1>6, <1>8, <1>9, Zenon
       DEF SubNext, BillStep, BillArrive

\* However late, often and in whatever order Razorpay's events are delivered,
\* and whatever checkouts run meanwhile, billing suspends an agency only for a
\* subscription that has ended and that the agency's row names, or named when a
\* checkout overtook the event (BillingService.applyWebhook).
THEOREM SuspensionIsEarned == SubSpec => SuspensionEarned
  <1>1. SubInit => EarnedInv /\ NamedInv
    <2> SUFFICES ASSUME SubInit
                 PROVE  EarnedInv /\ NamedInv
      OBVIOUS
    <2>1. NoBill \in BillRec /\ NoBill.step = "idle"
      BY DEF NoBill, BillRec, Grace
    <2>2. remote \in Seq(RemoteStatus)
      BY EmptySeq DEF SubInit
    <2>3. record \in RowRec /\ created \in Nat
      BY DEF SubInit, NoRow, RowRec, Grace
    <2>4. agency \in [plan : {First, "FREE"}, active : BOOLEAN]
      BY DEF SubInit
    <2>5. bill \in [Call -> BillRec] /\ (\A c \in Call : bill[c].step = "idle") /\ sent = {}
      BY <2>1 DEF SubInit
    <2>6. QED
      BY <2>2, <2>3, <2>4, <2>5 DEF EarnedInv, NamedInv
  <1>2. EarnedInv /\ NamedInv /\ [SubNext]_subVars =>
            [agency.active /\ ~agency'.active =>
                \/ UNCHANGED bill
                \/ \E c \in Call : /\ BillAt(c, "suspend") /\ Reply(c)
                                   /\ remote[bill[c].sub] \in Ended
                                   /\ record.sub = bill[c].sub \/ c \in overtaken]_subVars
    <2> SUFFICES ASSUME EarnedInv, NamedInv, [SubNext]_subVars,
                        agency.active, ~agency'.active, ~UNCHANGED bill
                 PROVE  \E c \in Call : /\ BillAt(c, "suspend") /\ Reply(c)
                                        /\ remote[bill[c].sub] \in Ended
                                        /\ record.sub = bill[c].sub \/ c \in overtaken
      BY Zenon
    <2>1. agency \in [plan : {First, "FREE"}, active : BOOLEAN]
      BY DEF EarnedInv
    <2>2. PICK c \in Call : Suspend(c)
      <3>1. agency' # agency
        OBVIOUS
      <3>2. ASSUME NEW c \in Call
            PROVE  ~FreePlan(c)
        BY <2>1 DEF FreePlan
      <3>3. QED
        BY <3>1, <3>2 DEF SubNext, subVars, BillStep, BillArrive, UpsertSubscription,
           CancelRemote, CancelRow, DeleteRow, ApplyEvent, CreateSubscription, FindOwn,
           FindBySub, Found, BillThrows, RemoteChange, GraceLapses, SetActive
    <2>3. BillAt(c, "suspend") /\ Reply(c)
      BY <2>2 DEF Suspend
    <2>4. /\ remote[bill[c].sub] \in Ended
          /\ record.sub = bill[c].sub \/ c \in overtaken
      BY <2>3 DEF EarnedInv, NamedInv, HasEnded, BillAt
    <2>5. QED
      BY <2>3, <2>4
  <1>3. QED
    BY <1>1, <1>2, EarnedStep, NamedStep, PTL DEF SubSpec, SuspensionEarned

-----------------------------------------------------------------------------
(* The limits of a plan. *)

\* A request that adds or removes a row.
AddRec ==
    [step : {"count", "exchange", "check", "insert", "provision", "delete"},
     name : Name, way : {"CLIENT", "EVOLUTION", "META_CLOUD", "EMBEDDED", "REMOVE"}, plan : Plan]

\* Requests that have found room and have not inserted their row.
Underway == {a \in Adder : add[a] # <<>> /\ add[a].step \in {"exchange", "check", "insert"}}

\* The plan in force, and the plan each request has read, allow at most what
\* has been the best limit.
CapInv ==
    /\ plan \in Plan /\ best \in Nat /\ Limit[plan] <= best
    /\ table \in DOMAIN Way /\ IsFiniteSet(rows)
    /\ add \in [Adder -> AddRec \cup {<<>>}]
    /\ \A a \in Adder : add[a] # <<>> => Limit[add[a].plan] <= best
    /\ Cardinality(rows) + Cardinality(Underway) <= best + Cardinality(Adder) - 1

\* The sets that are counted are finite.
LEMMA CapCounts ==
  ASSUME CapInv
  PROVE  /\ Cardinality(rows) \in Nat /\ Cardinality(Adder) \in Nat \ {0}
         /\ IsFiniteSet(Underway) /\ Cardinality(Underway) \in Nat
         /\ best \in Nat
  <1>1. IsFiniteSet(rows) /\ best \in Nat
    BY DEF CapInv
  <1>2. IsFiniteSet(Adder) /\ Adder # {}
    BY CapacityAssumption
  <1>3. Cardinality(Adder) \in Nat /\ Cardinality(Adder) # 0
    BY <1>2, FS_CardinalityType, FS_EmptySet
  <1>4. IsFiniteSet(Underway)
    <2>1. Underway \in SUBSET Adder
      BY DEF Underway
    <2>2. QED
      BY <1>2, <2>1, FS_Subset
  <1>5. QED
    BY <1>1, <1>3, <1>4, FS_CardinalityType

\* A request that moves to another step, or is answered, keeps its plan.
LEMMA AddMoves ==
  ASSUME CapInv, NEW a \in Adder,
         NEW s \in {"count", "exchange", "check", "insert", "provision", "delete"},
         add[a] # <<>>, AddGoto(a, s) \/ Answer(a)
  PROVE  /\ add' \in [Adder -> AddRec \cup {<<>>}]
         /\ \A b \in Adder \ {a} : add'[b] = add[b]
         /\ add'[a] # <<>> => add'[a].step = s /\ add'[a].plan = add[a].plan
  <1>1. add \in [Adder -> AddRec \cup {<<>>}] /\ add[a] \in AddRec
    BY DEF CapInv
  <1>2. CASE Answer(a)
    BY <1>1, <1>2 DEF Answer
  <1>3. CASE AddGoto(a, s)
    <2> DEFINE r == [add[a] EXCEPT !.step = s]
    <2>1. r \in AddRec /\ r.step = s /\ r.plan = add[a].plan
      BY <1>1 DEF AddRec
    <2>2. add' = [add EXCEPT ![a] = r]
      BY <1>3 DEF AddGoto
    <2> HIDE DEF r
    <2>3. QED
      BY <1>1, <2>1, <2>2
  <1>4. QED
    BY <1>2, <1>3

\* A step after which no more rows are there or under way.
LEMMA CapQuiet ==
  ASSUME CapInv, rows' \subseteq rows, Underway' \subseteq Underway,
         best' = best, plan' = plan, table' = table,
         add' \in [Adder -> AddRec \cup {<<>>}],
         \A a \in Adder : add'[a] # <<>> => Limit[add'[a].plan] <= best
  PROVE  CapInv'
  <1>1. IsFiniteSet(rows') /\ Cardinality(rows') <= Cardinality(rows) /\ Cardinality(rows') \in Nat
    BY FS_Subset, FS_CardinalityType DEF CapInv
  <1>2. Cardinality(Underway') <= Cardinality(Underway) /\ Cardinality(Underway') \in Nat
    BY CapCounts, FS_Subset, FS_CardinalityType
  <1>3. Cardinality(rows') + Cardinality(Underway') <= best + Cardinality(Adder) - 1
    <2>1. Cardinality(rows) + Cardinality(Underway) <= best + Cardinality(Adder) - 1
      BY DEF CapInv
    <2>2. QED
      BY <1>1, <1>2, <2>1, CapCounts
  <1>4. QED
    BY <1>1, <1>3 DEF CapInv

\* What a request does to the requests that are under way.
LEMMA ComingAfter ==
  ASSUME NEW a \in Adder, \A b \in Adder \ {a} : add'[b] = add[b]
  PROVE  /\ Underway' \subseteq Underway \cup {a}
         /\ a \in Underway => Underway' \subseteq Underway
         /\ (add'[a] # <<>> => add'[a].step \notin {"exchange", "check", "insert"}) =>
                Underway' \subseteq Underway \ {a}
  BY DEF Underway

\* assertCanAddClient, assertCanAddNumber: a request finds room while the
\* others may all be under way.
LEMMA CountRowsKeeps ==
  ASSUME CapInv, NEW a \in Adder, CountRows(a), plan' = plan
  PROVE  CapInv'
  <1>0. /\ add[a] # <<>> /\ add[a].step = "count"
        /\ rows' = rows /\ best' = best /\ table' = table
    BY DEF CountRows, AddAt
  <1> USE <1>0
  <1>1. CASE Answer(a)
    <2>1. /\ add' \in [Adder -> AddRec \cup {<<>>}]
          /\ \A b \in Adder \ {a} : add'[b] = add[b]
          /\ add'[a] = <<>>
      BY <1>1 DEF Answer, CapInv
    <2>2. Underway' \subseteq Underway
      BY <2>1, ComingAfter
    <2>3. \A b \in Adder : add'[b] # <<>> => Limit[add'[b].plan] <= best
      BY <2>1 DEF CapInv
    <2>4. QED
      BY <1>1, <2>1, <2>2, <2>3, CapQuiet
  <1>2. ASSUME NEW s \in {"exchange", "check"}, AddGoto(a, s),
               ~Full(Cardinality(rows), add[a].plan)
        PROVE  CapInv'
    <2>1. /\ add' \in [Adder -> AddRec \cup {<<>>}]
          /\ \A b \in Adder \ {a} : add'[b] = add[b]
          /\ add'[a] # <<>> => add'[a].step = s /\ add'[a].plan = add[a].plan
      BY <1>2, AddMoves
    <2>2. \A b \in Adder : add'[b] # <<>> => Limit[add'[b].plan] <= best
      BY <2>1 DEF CapInv
    <2>3. Underway' \in SUBSET Adder /\ IsFiniteSet(Adder)
      BY CapacityAssumption DEF Underway
    <2>4. Cardinality(Underway') <= Cardinality(Adder) /\ Cardinality(Underway') \in Nat
      BY <2>3, FS_Subset, FS_CardinalityType
    <2>5. /\ Limit[add[a].plan] \in Nat /\ Limit[add[a].plan] <= best
          /\ ~(Cardinality(rows) >= Limit[add[a].plan])
      <3>1. add[a] \in AddRec
        BY DEF CapInv
      <3>2. add[a].plan \in Plan
        BY <3>1 DEF AddRec
      <3>3. QED
        BY <1>2, <3>2, CapacityAssumption DEF CapInv, Full
    <2>6. Cardinality(rows) + Cardinality(Underway') <= best + Cardinality(Adder) - 1
      BY <2>4, <2>5, CapCounts
    <2>7. QED
      BY <1>2, <2>1, <2>2, <2>6 DEF CapInv
  <1>3. QED
    BY <1>1, <1>2 DEF CountRows

\* The other steps of a request: its place under way becomes its row.
LEMMA CapStepKeeps ==
  ASSUME CapInv, NEW a \in Adder, plan' = plan,
         Exchange(a) \/ CheckUnused(a) \/ InsertRow(a) \/ Provision(a) \/ DeleteNumber(a)
             \/ AddThrows(a)
  PROVE  CapInv'
  <1>0. add[a] # <<>> /\ best' = best /\ table' = table
    BY DEF Exchange, CheckUnused, InsertRow, Provision, DeleteNumber, AddThrows, AddAt
  <1>1. \A s \in {"count", "exchange", "check", "insert", "provision", "delete"} :
            AddGoto(a, s) \/ Answer(a) =>
                /\ add' \in [Adder -> AddRec \cup {<<>>}]
                /\ \A b \in Adder \ {a} : add'[b] = add[b]
                /\ add'[a] # <<>> => add'[a].step = s
                /\ \A b \in Adder : add'[b] # <<>> => Limit[add'[b].plan] <= best
    BY <1>0, AddMoves DEF CapInv
  <1>2. ASSUME NEW s \in {"check", "insert"}, add[a].step \in {"exchange", "check"},
               AddGoto(a, s) \/ Answer(a), rows' = rows
        PROVE  CapInv'
    <2>1. a \in Underway
      BY <1>0, <1>2 DEF Underway
    <2>2. Underway' \subseteq Underway
      BY <1>1, <1>2, <2>1, ComingAfter
    <2>3. QED
      BY <1>0, <1>1, <1>2, <2>2, CapQuiet
  <1>3. CASE InsertRow(a)
    <2>1. a \in Underway /\ IsFiniteSet(Underway)
      BY <1>3, CapCounts DEF InsertRow, AddAt, Underway
    <2>2. AddGoto(a, "provision") \/ Answer(a)
      BY <1>3 DEF InsertRow
    <2>3. Underway' \subseteq Underway \ {a}
      BY <1>1, <2>2, ComingAfter
    <2>4. Cardinality(Underway \ {a}) = Cardinality(Underway) - 1 /\ IsFiniteSet(Underway \ {a})
      BY <2>1, FS_RemoveElement
    <2>5. Cardinality(Underway') <= Cardinality(Underway) - 1 /\ Cardinality(Underway') \in Nat
      BY <2>3, <2>4, FS_Subset, FS_CardinalityType
    <2>6. rows' = rows \cup {add[a].name}
      BY <1>3 DEF InsertRow
    <2>7. /\ IsFiniteSet(rows') /\ Cardinality(rows') \in Nat
          /\ Cardinality(rows') <= Cardinality(rows) + 1
      <3>1. IsFiniteSet(rows) /\ Cardinality(rows) \in Nat
        BY FS_CardinalityType DEF CapInv
      <3>2. \/ Cardinality(rows') = Cardinality(rows)
            \/ Cardinality(rows') = Cardinality(rows) + 1
        BY <2>6, <3>1, FS_AddElement
      <3>3. IsFiniteSet(rows')
        BY <2>6, <3>1, FS_AddElement
      <3>4. QED
        BY <3>1, <3>2, <3>3
    <2>8. Cardinality(rows) + Cardinality(Underway) <= best + Cardinality(Adder) - 1
      BY DEF CapInv
    <2>9. Cardinality(rows') + Cardinality(Underway') <= best + Cardinality(Adder) - 1
      BY <2>5, <2>7, <2>8, CapCounts
    <2>10. QED
      BY <1>0, <1>1, <2>2, <2>7, <2>9 DEF CapInv
  <1>4. CASE Answer(a) /\ rows' \subseteq rows
    <2>1. add'[a] = <<>>
      BY <1>4 DEF Answer, CapInv
    <2>2. Underway' \subseteq Underway
      BY <1>1, <1>4, <2>1, ComingAfter
    <2>3. QED
      BY <1>0, <1>1, <1>4, <2>2, CapQuiet
  <1>5. QED
    <2>1. CASE Exchange(a)
      BY <2>1, <1>2 DEF Exchange, AddAt
    <2>2. CASE CheckUnused(a)
      BY <2>2, <1>2 DEF CheckUnused, AddAt
    <2>3. CASE Provision(a) \/ DeleteNumber(a) \/ AddThrows(a)
      BY <2>3, <1>4 DEF Provision, DeleteNumber, AddThrows
    <2>4. QED
      BY <2>1, <2>2, <2>3, <1>3

\* A request that arrives takes note of the plan in force.
LEMMA ArrivalKeeps ==
  ASSUME CapInv, NEW a \in Adder, NEW n \in Name, plan' = plan,
         Teardown(a, n) \/ \E w \in Way[table] : Ask(a, n, w)
  PROVE  CapInv'
  <1>1. PICK r \in AddRec : /\ add' = [add EXCEPT ![a] = r]
                            /\ r.plan = plan /\ r.step \in {"count", "delete"}
    <2>1. plan \in Plan
      BY DEF CapInv
    <2>2. CASE Teardown(a, n)
      <3> DEFINE r == [step |-> "delete", name |-> n, way |-> "REMOVE", plan |-> plan]
      <3>1. r \in AddRec /\ r.plan = plan /\ r.step = "delete"
        BY <2>1 DEF AddRec
      <3>2. add' = [add EXCEPT ![a] = r]
        BY <2>2 DEF Teardown
      <3> HIDE DEF r
      <3>3. QED
        BY <3>1, <3>2
    <2>3. ASSUME NEW w \in Way[table], Ask(a, n, w)
          PROVE  \E r \in AddRec : /\ add' = [add EXCEPT ![a] = r]
                                   /\ r.plan = plan /\ r.step \in {"count", "delete"}
      <3> DEFINE r == [step |-> "count", name |-> n, way |-> w, plan |-> plan]
      <3>1. w \in {"CLIENT", "EVOLUTION", "META_CLOUD", "EMBEDDED", "REMOVE"}
        <4>1. table \in {"client", "number"}
          BY DEF CapInv, Way
        <4>2. QED
          BY <4>1 DEF Way
      <3>2. r \in AddRec /\ r.plan = plan /\ r.step = "count"
        BY <2>1, <3>1 DEF AddRec
      <3>3. add' = [add EXCEPT ![a] = r]
        BY <2>3 DEF Ask
      <3> HIDE DEF r
      <3>4. QED
        BY <3>2, <3>3
    <2>4. QED
      BY <2>2, <2>3
  <1>2. /\ add' \in [Adder -> AddRec \cup {<<>>}] /\ add'[a] = r
        /\ \A b \in Adder \ {a} : add'[b] = add[b]
    BY <1>1 DEF CapInv
  <1>3. Underway' \subseteq Underway
    BY <1>1, <1>2, ComingAfter
  <1>4. \A b \in Adder : add'[b] # <<>> => Limit[add'[b].plan] <= best
    BY <1>1, <1>2 DEF CapInv
  <1>5. rows' = rows /\ best' = best /\ table' = table
    BY DEF Teardown, Ask
  <1>6. QED
    BY <1>2, <1>3, <1>4, <1>5, CapQuiet

\* No request, removal or change of plan breaks the account of rows.
LEMMA CapInvStep ==
  ASSUME CapInv, [CapNext]_<<quotaVars, capVars>>
  PROVE  CapInv'
  <1>1. CASE CapRequest /\ UNCHANGED quotaVars
    <2>1. plan' = plan
      BY <1>1 DEF quotaVars
    <2>2. ASSUME NEW n \in Name, RemoveClient(n)
          PROVE  CapInv'
      <3>1. /\ rows' \subseteq rows /\ add' = add /\ best' = best /\ table' = table
        BY <2>2 DEF RemoveClient
      <3>2. Underway' = Underway
        BY <3>1 DEF Underway
      <3>3. QED
        BY <2>1, <3>1, <3>2, CapQuiet DEF CapInv
    <2>3. QED
      BY <1>1, <2>1, <2>2, CountRowsKeeps, CapStepKeeps, ArrivalKeeps, Zenon
         DEF CapRequest, CapStep
  <1>2. ASSUME NEW q \in Plan, PlanMoves(q)
        PROVE  CapInv'
    <2>1. /\ plan' = q /\ rows' = rows /\ add' = add /\ table' = table
          /\ best' = IF Limit[q] > best THEN Limit[q] ELSE best
      BY <1>2 DEF PlanMoves, ChangePlan
    <2>2. Limit[q] \in Nat /\ \A p \in Plan : Limit[p] \in Nat
      BY CapacityAssumption
    <2>3. best' \in Nat /\ best <= best' /\ Limit[q] <= best'
      BY <2>1, <2>2 DEF CapInv
    <2>4. Underway' = Underway
      BY <2>1 DEF Underway
    <2>5. \A a \in Adder : add[a] # <<>> => Limit[add[a].plan] <= best'
      <3>1. \A a \in Adder : add[a] # <<>> => add[a].plan \in Plan /\ Limit[add[a].plan] <= best
        BY DEF CapInv, AddRec
      <3>2. QED
        BY <2>2, <2>3, <3>1 DEF CapInv
    <2>6. Cardinality(rows) + Cardinality(Underway) <= best' + Cardinality(Adder) - 1
      <3>1. Cardinality(rows) + Cardinality(Underway) <= best + Cardinality(Adder) - 1
        BY DEF CapInv
      <3>2. QED
        BY <2>3, <3>1, CapCounts
    <2>7. QED
      BY <2>1, <2>3, <2>4, <2>5, <2>6 DEF CapInv
  <1>3. CASE UNCHANGED <<quotaVars, capVars>>
    <2>1. /\ plan' = plan /\ rows' = rows /\ add' = add /\ best' = best /\ table' = table
      BY <1>3 DEF quotaVars, capVars
    <2>2. Underway' = Underway
      BY <2>1 DEF Underway
    <2>3. QED
      BY <2>1, <2>2 DEF CapInv
  <1>4. QED
    BY <1>1, <1>2, <1>3 DEF CapNext

\* Requests that overlap add at most one row each over the largest limit there
\* has been, all but the first; nothing else does (PlanLimitsService).
THEOREM CapacityIsHeld == CapSpec => []CapacityHolds
  <1>1. Init /\ CapInit => CapInv
    <2> SUFFICES ASSUME Init, CapInit
                 PROVE  CapInv
      OBVIOUS
    <2>1. plan \in Plan /\ best = Limit[plan] /\ rows = {} /\ table \in DOMAIN Way
      BY DEF Init, CapInit
    <2>2. best \in Nat /\ Limit[plan] <= best
      <3>1. Limit[plan] \in Nat
        BY <2>1, CapacityAssumption
      <3>2. QED
        BY <2>1, <3>1
    <2>3. Underway = {} /\ add \in [Adder -> AddRec \cup {<<>>}] /\ \A a \in Adder : add[a] = <<>>
      BY DEF CapInit, Underway
    <2>4. Cardinality({}) = 0 /\ IsFiniteSet({})
      BY FS_EmptySet
    <2>5. Cardinality(Adder) \in Nat \ {0}
      BY CapacityAssumption, FS_CardinalityType, FS_EmptySet
    <2>6. 0 + 0 <= best + Cardinality(Adder) - 1
      BY <2>2, <2>5
    <2>7. Cardinality(rows) + Cardinality(Underway) <= best + Cardinality(Adder) - 1
      BY <2>1, <2>3, <2>4, <2>6
    <2>8. QED
      BY <2>1, <2>2, <2>3, <2>4, <2>7 DEF CapInv
  <1>2. CapInv => CapacityHolds
    BY DEF CapInv, CapacityHolds, Underway
  <1>3. QED
    BY <1>1, <1>2, CapInvStep, PTL DEF CapSpec

-----------------------------------------------------------------------------
(* Receipts. *)

Progress == {"accepted", "sent", "delivered", "read", "failed"}

\* A receipt that will mark the row of copy c.
Marking(c) == \E receipt \in receipts : receipt.id = c /\ MarksRead(receipt.status)

\* Copies, rows and receipts point at each other, and a receipt of a delivery
\* is true.
ReceiptTypes ==
    /\ copies \in Seq(Message) /\ progress \in [1 .. Len(copies) -> Progress]
    /\ sending \in [Message -> 0 .. Len(copies)]
    /\ waMessageId \in [Message -> 0 .. Len(copies)]
    /\ isRead \in [Message -> BOOLEAN]
    /\ \A m \in Message : sending[m] # 0 => copies[sending[m]] = m
    /\ \A m \in Message : waMessageId[m] # 0 => copies[waMessageId[m]] = m
    /\ \A receipt \in receipts : /\ receipt.id \in 1 .. Len(copies)
                                 /\ MarksRead(receipt.status) => Reported(receipt.id)

\* A delivered copy whose id a row has, or is about to get, has marked the row,
\* is about to, or has missed it.
Settled(m, c) == Marking(c) \/ c \in missed \/ (waMessageId[m] = c /\ isRead[m])

ReceiptInv ==
    /\ ReceiptTypes
    /\ \A m \in Message : isRead[m] => \E c \in DOMAIN copies : copies[c] = m /\ Reported(c)
    /\ \A m \in Message, c \in 1 .. Len(copies) :
           Reported(c) /\ (sending[m] = c \/ waMessageId[m] = c) => Settled(m, c)

LEMMA Intervals ==
  ASSUME NEW n \in Nat
  PROVE  /\ n + 1 \in Nat /\ n + 1 # 0 /\ n + 1 \notin 1 .. n
         /\ 1 .. (n + 1) = (1 .. n) \cup {n + 1} /\ 0 .. (n + 1) = (0 .. n) \cup {n + 1}
         /\ 0 .. n = {0} \cup (1 .. n)
  OBVIOUS

\* A copy is accepted, and its id stored or lost.
LEMMA WorkerKeepsReceipts ==
  ASSUME ReceiptInv, NEW n \in Message, AcceptCopy(n) \/ StoreId(n) \/ IdLost(n)
  PROVE  ReceiptInv'
  <1>0. /\ copies \in Seq(Message) /\ Len(copies) \in Nat /\ DOMAIN copies = 1 .. Len(copies)
        /\ progress \in [1 .. Len(copies) -> Progress]
    BY LenProperties DEF ReceiptInv, ReceiptTypes
  <1>1. CASE AcceptCopy(n)
    <2>0. PICK k \in Nat : k = Len(copies) + 1
      BY <1>0
    <2>1. /\ sending[n] = 0
          /\ copies' = Append(copies, n) /\ progress' = Append(progress, "accepted")
          /\ sending' = [sending EXCEPT ![n] = k]
          /\ UNCHANGED <<waMessageId, isRead, receipts, repeats, missed>>
      BY <1>1, <2>0 DEF AcceptCopy
    <2>2. /\ copies' \in Seq(Message) /\ Len(copies') = k /\ copies'[k] = n
          /\ \A c \in 1 .. Len(copies) : copies'[c] = copies[c]
      BY <1>0, <2>0, <2>1, AppendProperties
    <2>3. /\ progress' \in [1 .. k -> Progress] /\ progress'[k] = "accepted"
          /\ \A c \in 1 .. Len(copies) : progress'[c] = progress[c]
      <3>1. progress \in Seq(Progress) /\ Len(progress) = Len(copies)
        BY <1>0, SeqDef, LenProperties
      <3>2. /\ progress' \in Seq(Progress) /\ Len(progress') = k /\ progress'[k] = "accepted"
            /\ \A c \in 1 .. Len(copies) : progress'[c] = progress[c]
        BY <2>0, <2>1, <3>1, AppendProperties DEF Progress
      <3>3. QED
        BY <3>2, ElementOfSeq, LenProperties
    <2>4. \A c \in 1 .. Len(copies) : Reported(c)' <=> Reported(c)
      BY <2>3 DEF Reported
    <2>5. ~Reported(k)'
      BY <2>3 DEF Reported
    <2>6. k \in Nat /\ k # 0 /\ k \notin 1 .. Len(copies)
          /\ 1 .. k = (1 .. Len(copies)) \cup {k} /\ 0 .. k = (0 .. Len(copies)) \cup {k}
          /\ 0 .. Len(copies) = {0} \cup (1 .. Len(copies))
      BY <1>0, <2>0, Intervals
    <2>7. DOMAIN copies' = 1 .. k
      BY <2>2, LenProperties
    <2>8. ReceiptTypes'
      BY <1>0, <2>1, <2>2, <2>3, <2>4, <2>6 DEF ReceiptInv, ReceiptTypes
    <2>9. \A m \in Message : isRead'[m] =>
              \E c \in DOMAIN copies' : copies'[c] = m /\ Reported(c)'
      BY <1>0, <2>1, <2>2, <2>4, <2>6, <2>7 DEF ReceiptInv
    <2>10. \A m \in Message, c \in 1 .. Len(copies) :
               Settled(m, c)' <=> Settled(m, c)
      BY <2>1 DEF Settled, Marking
    <2>11. \A m \in Message, c \in 1 .. Len(copies) : sending'[m] = c => sending[m] = c
      BY <2>1, <2>6 DEF ReceiptInv, ReceiptTypes
    <2>12. ASSUME NEW m \in Message, NEW c \in 1 .. Len(copies'), Reported(c)',
                   sending'[m] = c \/ waMessageId'[m] = c
           PROVE  Settled(m, c)'
      <3>1. c \in 1 .. Len(copies) /\ Reported(c)
        BY <2>2, <2>4, <2>5, <2>6, <2>12
      <3>2. sending[m] = c \/ waMessageId[m] = c
        BY <2>1, <2>11, <2>12, <3>1
      <3>3. QED
        BY <2>10, <3>1, <3>2 DEF ReceiptInv
    <2>13. QED
      BY <2>8, <2>9, <2>12 DEF ReceiptInv
  <1>2. CASE StoreId(n) \/ IdLost(n)
    <2>1. /\ UNCHANGED <<copies, progress, isRead, receipts, missed>>
          /\ sending' = [sending EXCEPT ![n] = 0]
          /\ waMessageId' \in {waMessageId, [waMessageId EXCEPT ![n] = sending[n]]}
          /\ sending[n] # 0
      BY <1>2 DEF StoreId, IdLost
    <2>2. ReceiptTypes'
      <3>1. /\ sending' \in [Message -> 0 .. Len(copies)]
            /\ \A m \in Message : sending'[m] # 0 => sending'[m] = sending[m]
        BY <1>0, <2>1 DEF ReceiptInv, ReceiptTypes
      <3>2. /\ waMessageId' \in [Message -> 0 .. Len(copies)]
            /\ \A m \in Message : \/ waMessageId'[m] = waMessageId[m]
                                  \/ waMessageId'[m] = sending[m]
        BY <2>1 DEF ReceiptInv, ReceiptTypes
      <3>3. \A m \in Message : sending'[m] # 0 => copies[sending'[m]] = m
        BY <3>1 DEF ReceiptInv, ReceiptTypes
      <3>4. \A m \in Message : waMessageId'[m] # 0 => copies[waMessageId'[m]] = m
        BY <3>2 DEF ReceiptInv, ReceiptTypes
      <3>5. (\A r \in receipts : /\ r.id \in 1 .. Len(copies)
                                 /\ MarksRead(r.status) => Reported(r.id))'
        BY <2>1 DEF ReceiptInv, ReceiptTypes, Reported
      <3>6. QED
        BY <2>1, <3>1, <3>2, <3>3, <3>4, <3>5 DEF ReceiptInv, ReceiptTypes
    <2>3. \A m \in Message : isRead'[m] =>
              \E c \in DOMAIN copies' : copies'[c] = m /\ Reported(c)'
      BY <2>1 DEF ReceiptInv, Reported
    <2>4. \A m \in Message, c \in 1 .. Len(copies) :
              Reported(c)' /\ (sending'[m] = c \/ waMessageId'[m] = c) => Settled(m, c)'
      <3>1. \A c \in 1 .. Len(copies) : (Reported(c)' <=> Reported(c)) /\ c # 0
        BY <1>0, <2>1 DEF Reported
      <3>2. \A c \in 1 .. Len(copies) : Marking(c)' <=> Marking(c)
        BY <2>1 DEF Marking
      <3>3. ASSUME NEW m \in Message, NEW c \in 1 .. Len(copies), Reported(c),
                   sending'[m] = c \/ waMessageId'[m] = c
            PROVE  Settled(m, c)'
        <4>1. m = n => sending'[m] = 0
          BY <2>1 DEF ReceiptInv, ReceiptTypes
        <4>2. m # n => sending'[m] = sending[m] /\ waMessageId'[m] = waMessageId[m]
          BY <2>1 DEF ReceiptInv, ReceiptTypes
        <4>3. waMessageId'[m] \in {waMessageId[m], sending[m]}
          BY <2>1 DEF ReceiptInv, ReceiptTypes
        <4>4. sending[m] = c \/ waMessageId[m] = c
          BY <3>1, <3>3, <4>1, <4>2, <4>3
        <4>5. Settled(m, c)
          BY <3>3, <4>4 DEF ReceiptInv
        <4>6. waMessageId[m] = c => waMessageId'[m] = c \/ Marking(c) \/ c \in missed
          <5>1. CASE m # n
            BY <4>2, <5>1
          <5>2. CASE m = n
            BY <3>1, <3>3, <4>1, <5>2
          <5>3. QED
            BY <5>1, <5>2
        <4>7. QED
          BY <2>1, <3>2, <4>5, <4>6 DEF Settled
      <3>4. QED
        BY <3>1, <3>3
    <2>5. QED
      BY <2>1, <2>2, <2>3, <2>4 DEF ReceiptInv
  <1>3. QED
    BY <1>1, <1>2

\* Meta reports a copy's progress: what was delivered stays so, and the report
\* of a delivery is on its way.
LEMMA MetaKeepsReceipts ==
  ASSUME ReceiptInv, NEW k \in DOMAIN copies, NEW s \in {"sent", "delivered", "read", "failed"},
         MetaReports(k, s)
  PROVE  ReceiptInv'
  <1>0. /\ copies \in Seq(Message) /\ Len(copies) \in Nat /\ DOMAIN copies = 1 .. Len(copies)
        /\ progress \in [1 .. Len(copies) -> Progress]
    BY LenProperties DEF ReceiptInv, ReceiptTypes
  <1>1. /\ s \in Following[progress[k]] /\ progress' = [progress EXCEPT ![k] = s]
        /\ receipts' = receipts \cup {[id |-> k, status |-> s]}
        /\ UNCHANGED <<copies, sending, waMessageId, isRead, missed>>
    BY DEF MetaReports
  <1>2. Reported(k) => s = "read"
    <2>1. progress[k] = "delivered" => s = "read"
      BY <1>1 DEF Following
    <2>2. progress[k] # "read"
      BY <1>1 DEF Following
    <2>3. QED
      BY <2>1, <2>2 DEF Reported
  <1>3. /\ progress' \in [1 .. Len(copies) -> Progress] /\ progress'[k] = s
        /\ \A c \in 1 .. Len(copies) : c # k => progress'[c] = progress[c]
    BY <1>0, <1>1 DEF Progress
  <1>4. /\ \A c \in 1 .. Len(copies) : Reported(c) => Reported(c)'
        /\ \A c \in 1 .. Len(copies) : c # k /\ Reported(c)' => Reported(c)
        /\ MarksRead(s) <=> Reported(k)'
    BY <1>0, <1>2, <1>3 DEF Reported, MarksRead
  <1>5. \A receipt \in receipts' : /\ receipt.id \in 1 .. Len(copies)
                                   /\ MarksRead(receipt.status) => Reported(receipt.id)'
    BY <1>0, <1>1, <1>4 DEF ReceiptInv, ReceiptTypes
  <1>6. ReceiptTypes'
    <2>1. \A receipt \in receipts' : /\ receipt.id \in 1 .. Len(copies')
                                     /\ MarksRead(receipt.status)' => Reported(receipt.id)'
      BY <1>1, <1>5 DEF MarksRead
    <2>2. QED
      BY <1>1, <1>3, <2>1 DEF ReceiptInv, ReceiptTypes
  <1>7. \A m \in Message : isRead'[m] => \E c \in DOMAIN copies' : copies'[c] = m /\ Reported(c)'
    BY <1>0, <1>1, <1>4 DEF ReceiptInv
  <1>8. /\ Reported(k)' => Marking(k)'
        /\ \A c : Marking(c) => Marking(c)'
    <2>1. \A c : Marking(c) => Marking(c)'
      BY <1>1 DEF Marking, MarksRead
    <2>2. [id |-> k, status |-> s] \in receipts'
      BY <1>1
    <2>3. MarksRead(s) => Marking(k)'
      BY <2>2 DEF Marking, MarksRead
    <2>4. QED
      BY <1>4, <2>1, <2>3
  <1>9. ASSUME NEW m \in Message, NEW c \in 1 .. Len(copies), Reported(c)',
               sending[m] = c \/ waMessageId[m] = c
        PROVE  Settled(m, c)'
    <2>1. CASE c = k
      BY <1>8, <1>9, <2>1 DEF Settled
    <2>2. CASE c # k
      <3>1. Settled(m, c)
        BY <1>4, <1>9, <2>2 DEF ReceiptInv
      <3>2. QED
        BY <1>1, <1>8, <3>1 DEF Settled
    <2>3. QED
      BY <2>1, <2>2
  <1>10. QED
    BY <1>1, <1>6, <1>7, <1>9 DEF ReceiptInv

\* A receipt is applied, or fails: it marks the row that has the id, or the
\* copy has missed its row.
LEMMA WebhookKeepsReceipts ==
  ASSUME ReceiptInv, NEW receipt \in receipts, ApplyReceipt(receipt) \/ ReceiptFails(receipt)
  PROVE  ReceiptInv'
  <1>0. PICK k \in 1 .. Len(copies) : receipt.id = k /\ (MarksRead(receipt.status) => Reported(k))
    BY DEF ReceiptInv, ReceiptTypes
  <1>1. /\ UNCHANGED <<copies, progress, sending, waMessageId>>
        /\ receipts' \in {receipts, receipts \ {receipt}}
    BY DEF ApplyReceipt, ReceiptFails, Arrives
  <1>2. /\ missed \subseteq missed'
        /\ isRead' \in [Message -> BOOLEAN]
        /\ \A m \in Message : isRead'[m] => isRead[m] \/ (waMessageId[m] = k /\ Reported(k))
        /\ \A m \in Message : waMessageId[m] # k => (isRead'[m] <=> isRead[m])
        /\ \A m \in Message : waMessageId[m] = k /\ isRead[m] => isRead'[m] \/ k \in missed'
        /\ \A m \in Message : waMessageId[m] = k /\ MarksRead(receipt.status) =>
               isRead'[m] \/ k \in missed'
        /\ (\A m \in Message : waMessageId[m] # k) /\ MarksRead(receipt.status) => k \in missed'
    <2>1. CASE ApplyReceipt(receipt)
      <3> DEFINE marks == MarksRead(receipt.status)
      <3>1. marks \in BOOLEAN
        BY DEF MarksRead
      <3>2. isRead' = [m \in Message |-> IF m \in Target(receipt) THEN marks ELSE isRead[m]]
        BY <2>1 DEF ApplyReceipt
      <3>3. missed' = IF \/ marks /\ Target(receipt) = {}
                         \/ ~marks /\ \E m \in Target(receipt) : isRead[m]
                      THEN missed \cup {k} ELSE missed
        BY <1>0, <2>1 DEF ApplyReceipt
      <3>4. \A m \in Message : m \in Target(receipt) <=> waMessageId[m] = k
        BY <1>0 DEF Target
      <3>5. Target(receipt) \subseteq Message
        BY DEF Target
      <3>6. marks => Reported(k)
        BY <1>0
      <3>7. isRead \in [Message -> BOOLEAN]
        BY DEF ReceiptInv, ReceiptTypes
      <3> HIDE DEF marks
      <3>8. /\ isRead' \in [Message -> BOOLEAN]
            /\ \A m \in Message : isRead'[m] = IF waMessageId[m] = k THEN marks ELSE isRead[m]
        BY <3>1, <3>2, <3>4, <3>7
      <3>9. /\ missed \subseteq missed'
            /\ \A m \in Message : waMessageId[m] = k /\ isRead[m] /\ ~marks => k \in missed'
            /\ (\A m \in Message : waMessageId[m] # k) /\ marks => k \in missed'
        BY <3>3, <3>4, <3>5
      <3>10. QED
        BY <3>1, <3>6, <3>8, <3>9 DEF marks
    <2>2. CASE ReceiptFails(receipt)
      BY <1>0, <2>2 DEF ReceiptFails, ReceiptInv, ReceiptTypes
    <2>3. QED
      BY <2>1, <2>2
  <1>3. \A c : Reported(c)' <=> Reported(c)
    BY <1>1 DEF Reported
  <1>4. ReceiptTypes'
    <2>1. \A r \in receipts' : /\ r.id \in 1 .. Len(copies)
                               /\ MarksRead(r.status) => Reported(r.id)'
      BY <1>1, <1>3 DEF ReceiptInv, ReceiptTypes
    <2>2. QED
      BY <1>1, <1>2, <2>1 DEF ReceiptInv, ReceiptTypes, MarksRead
  <1>5. ASSUME NEW m \in Message, isRead'[m]
        PROVE  \E c \in DOMAIN copies : copies[c] = m /\ Reported(c)
    <2>1. CASE isRead[m]
      BY <2>1 DEF ReceiptInv
    <2>2. CASE waMessageId[m] = k /\ Reported(k)
      <3>1. copies[k] = m /\ k \in DOMAIN copies
        <4>1. k # 0 /\ DOMAIN copies = 1 .. Len(copies)
          BY LenProperties DEF ReceiptInv, ReceiptTypes
        <4>2. QED
          BY <2>2, <4>1 DEF ReceiptInv, ReceiptTypes
      <3>2. QED
        BY <2>2, <3>1
    <2>3. QED
      BY <1>2, <1>5, <2>1, <2>2
  <1>6. ASSUME NEW m \in Message, NEW c \in 1 .. Len(copies), Reported(c),
               sending[m] = c \/ waMessageId[m] = c
        PROVE  Settled(m, c)'
    <2>1. Settled(m, c)
      BY <1>6 DEF ReceiptInv
    <2>2. CASE c \in missed
      BY <1>2, <2>2 DEF Settled
    <2>3. CASE waMessageId[m] = c /\ isRead[m]
      BY <1>1, <1>2, <2>3 DEF Settled
    <2>4. CASE Marking(c)
      <3>1. PICK r \in receipts : r.id = c /\ MarksRead(r.status)
        BY <2>4 DEF Marking
      <3>2. CASE r \in receipts'
        BY <3>1, <3>2 DEF Settled, Marking, MarksRead
      <3>3. CASE r = receipt
        <4>1. c = k /\ MarksRead(receipt.status)
          BY <1>0, <3>1, <3>3
        <4>2. \A l \in Message : waMessageId[l] = k => l = m
          <5>1. k # 0 /\ \A l \in Message : waMessageId[l] = k => copies[k] = l
            BY DEF ReceiptInv, ReceiptTypes
          <5>2. copies[k] = m
            BY <1>6, <4>1, <5>1 DEF ReceiptInv, ReceiptTypes
          <5>3. QED
            BY <5>1, <5>2
        <4>3. QED
          BY <1>1, <1>2, <4>1, <4>2 DEF Settled
      <3>4. QED
        BY <1>1, <3>2, <3>3
    <2>5. QED
      BY <2>1, <2>2, <2>3, <2>4 DEF Settled
  <1>7. QED
    <2>1. \A m \in Message : isRead'[m] =>
              \E c \in DOMAIN copies' : copies'[c] = m /\ Reported(c)'
      BY <1>1, <1>3, <1>5
    <2>2. \A m \in Message, c \in 1 .. Len(copies') :
              Reported(c)' /\ (sending'[m] = c \/ waMessageId'[m] = c) => Settled(m, c)'
      BY <1>1, <1>3, <1>6
    <2>3. QED
      BY <1>4, <2>1, <2>2 DEF ReceiptInv

\* In whatever order, and however often, receipts come, and whatever fails, a
\* row is marked for its own message only, and a delivery is marked, on its way
\* or missed for one of the named reasons (WebhookController.handle).
THEOREM ReceiptsAreApplied == ReceiptsSpec => []ReceiptsApplied
  <1>1. ReceiptsInit => ReceiptInv
    <2> SUFFICES ASSUME ReceiptsInit
                 PROVE  ReceiptInv
      OBVIOUS
    <2>1. copies \in Seq(Message) /\ Len(copies) = 0
      BY EmptySeq DEF ReceiptsInit
    <2>2. progress \in [1 .. Len(copies) -> Progress]
      <3>1. progress = <<>> /\ 1 .. Len(copies) = {}
        BY <2>1 DEF ReceiptsInit
      <3>2. QED
        BY <3>1, SMT
    <2>3. ReceiptTypes
      BY <2>1, <2>2 DEF ReceiptsInit, ReceiptTypes
    <2>4. QED
      BY <2>1, <2>3 DEF ReceiptsInit, ReceiptInv
  <1>2. ReceiptInv /\ [ReceiptsNext]_receiptVars => ReceiptInv'
    <2>1. ASSUME ReceiptInv, UNCHANGED receiptVars
          PROVE  ReceiptInv'
      BY <2>1 DEF receiptVars, ReceiptInv, ReceiptTypes, Reported, Settled, Marking, MarksRead
    <2>2. QED
      BY <2>1, WorkerKeepsReceipts, MetaKeepsReceipts, WebhookKeepsReceipts, Zenon
         DEF ReceiptsNext
  <1>3. ReceiptInv => ReceiptsApplied
    <2> SUFFICES ASSUME ReceiptInv, NEW m \in Message,
                        waMessageId[m] # 0, Reported(waMessageId[m]), ~isRead[m]
                 PROVE  Coming(waMessageId[m]) \/ waMessageId[m] \in missed
      BY DEF ReceiptsApplied, ReceiptInv
    <2>1. waMessageId[m] \in 1 .. Len(copies)
      <3>1. Len(copies) \in Nat /\ waMessageId[m] \in 0 .. Len(copies)
        BY LenProperties DEF ReceiptInv, ReceiptTypes
      <3>2. QED
        BY <3>1
    <2>2. Settled(m, waMessageId[m])
      BY <2>1 DEF ReceiptInv
    <2>3. QED
      BY <2>2 DEF Settled, Marking, Coming
  <1>4. QED
    BY <1>1, <1>2, <1>3, PTL DEF ReceiptsSpec

-----------------------------------------------------------------------------
(* Number sign-up. *)

Business == {WabaOf[n] : n \in Number} \cup {Absent}
SignupSteps == {"exchange", "check", "find", "insert", "failed", "done"}
ResultRec == [code : Nat, waba : Business, phone : Number \cup {Absent}]
CompleteRec ==
    [step : SignupSteps, code : Nat, waba : Business, phone : Number, reported : BOOLEAN]
AccountRec == [phone : Number, waba : Business, code : Nat, reported : BOOLEAN]

Holding == {"check", "find", "insert"}

\* A request is for the code of a window and for ids that belong together.
\* Once it is past the check, the token is good for the account, if reported.
SoundRequest(c) ==
    /\ c.code \in 1 .. Len(windows) /\ c.waba = WabaOf[c.phone]
    /\ c.step \in {"find", "insert"} /\ c.reported => WabaOf[windows[c.code]] = c.waba

\* It holds a token: nobody else has its code, nor will have.
OwnsCode(i) ==
    /\ completes[i].code \in traded
    /\ \A a \in accounts : a.code # completes[i].code
    /\ \A j \in DOMAIN completes :
           completes[j].step \in Holding /\ completes[j].code = completes[i].code => j = i

SoundAccount(a) ==
    /\ a.code \in 1 .. Len(windows) /\ a.code \in traded /\ a.waba = WabaOf[a.phone]
    /\ a.reported => WabaOf[windows[a.code]] = a.waba
    /\ \A b \in accounts : b.code = a.code => b = a

PageInv ==
    /\ windows \in Seq(Number)
    /\ \A r \in reports : r.of \in 1 .. Len(windows)
    /\ result_ \in ResultRec /\ result_.code \in 0 .. Len(windows)
    /\ result_.phone # Absent => result_.waba = WabaOf[result_.phone]

RequestsInv ==
    /\ completes \in Seq(CompleteRec)
    /\ \A i \in DOMAIN completes :
           /\ SoundRequest(completes[i])
           /\ completes[i].step \in Holding => OwnsCode(i)

AccountsInv == accounts \subseteq AccountRec /\ \A a \in accounts : SoundAccount(a)

SignupInv == PageInv /\ RequestsInv /\ AccountsInv

\* A request goes to step s, having learnt whether the scopes are reported.
Moves(i, s, reported) ==
    /\ completes' \in Seq(CompleteRec) /\ DOMAIN completes' = DOMAIN completes
    /\ completes'[i].step = s /\ completes'[i].reported = reported
    /\ completes'[i].code = completes[i].code /\ completes'[i].waba = completes[i].waba
    /\ completes'[i].phone = completes[i].phone
    /\ \A j \in DOMAIN completes \ {i} : completes'[j] = completes[j]

LEMMA RequestMoved ==
  ASSUME completes \in Seq(CompleteRec), NEW i \in DOMAIN completes, NEW s \in SignupSteps,
         completes' = [completes EXCEPT ![i].step = s]
  PROVE  Moves(i, s, completes[i].reported)
  <1>1. completes[i] \in CompleteRec
    BY ElementOfSeq, LenProperties
  <1> DEFINE r == [completes[i] EXCEPT !.step = s]
  <1>2. /\ r \in CompleteRec /\ r.step = s /\ r.reported = completes[i].reported
        /\ r.code = completes[i].code /\ r.waba = completes[i].waba
        /\ r.phone = completes[i].phone
    BY <1>1 DEF CompleteRec
  <1>3. completes' = [completes EXCEPT ![i] = r]
    OBVIOUS
  <1> HIDE DEF r
  <1>4. completes' \in Seq(CompleteRec) /\ DOMAIN completes' = DOMAIN completes
    <2>1. i \in 1 .. Len(completes) /\ r \in CompleteRec
      BY <1>2, LenProperties
    <2>2. [completes EXCEPT ![i] = r] \in Seq(CompleteRec)
      BY <2>1, ExceptSeq
    <2>3. QED
      BY <1>3, <2>2
  <1>5. completes'[i] = r /\ \A j \in DOMAIN completes \ {i} : completes'[j] = completes[j]
    BY <1>3
  <1>6. QED
    BY <1>2, <1>4, <1>5 DEF Moves

LEMMA RequestChecked ==
  ASSUME completes \in Seq(CompleteRec), NEW i \in DOMAIN completes, NEW b \in BOOLEAN,
         completes' = [completes EXCEPT ![i].step = "find", ![i].reported = b]
  PROVE  Moves(i, "find", b)
  <1>1. completes[i] \in CompleteRec
    BY ElementOfSeq, LenProperties
  <1> DEFINE r == [completes[i] EXCEPT !.step = "find", !.reported = b]
  <1>2. /\ r \in CompleteRec /\ r.step = "find" /\ r.reported = b
        /\ r.code = completes[i].code /\ r.waba = completes[i].waba
        /\ r.phone = completes[i].phone
    BY <1>1 DEF CompleteRec, SignupSteps
  <1>3. completes' = [completes EXCEPT ![i] = r]
    OBVIOUS
  <1> HIDE DEF r
  <1>4. completes' \in Seq(CompleteRec) /\ DOMAIN completes' = DOMAIN completes
    <2>1. i \in 1 .. Len(completes) /\ r \in CompleteRec
      BY <1>2, LenProperties
    <2>2. [completes EXCEPT ![i] = r] \in Seq(CompleteRec)
      BY <2>1, ExceptSeq
    <2>3. QED
      BY <1>3, <2>2
  <1>5. completes'[i] = r /\ \A j \in DOMAIN completes \ {i} : completes'[j] = completes[j]
    BY <1>3
  <1>6. QED
    BY <1>2, <1>4, <1>5 DEF Moves

\* A move that takes a code only when it was free keeps every code with one
\* request or account.
LEMMA MoveKeepsRequests ==
  ASSUME SignupInv, NEW i \in DOMAIN completes, NEW s, NEW b, Moves(i, s, b),
         UNCHANGED <<windows, accounts>>,
         traded' \in {traded, traded \cup {completes[i].code}},
         s \in Holding => completes[i].code \in traded'
                          /\ (completes[i].step \in Holding \/ completes[i].code \notin traded),
         s \in {"find", "insert"} /\ b => WabaOf[windows[completes[i].code]] = completes[i].waba
  PROVE  RequestsInv' /\ AccountsInv'
  <1>1. ASSUME NEW j \in DOMAIN completes
        PROVE  SoundRequest(completes[j])'
    <2>1. SoundRequest(completes[j])
      BY DEF SignupInv, RequestsInv
    <2>2. CASE j = i
      BY <2>1, <2>2 DEF SoundRequest, Moves
    <2>3. CASE j # i
      BY <2>1, <2>3 DEF SoundRequest, Moves
    <2>4. QED
      BY <2>2, <2>3
  <1>2. ASSUME NEW j \in DOMAIN completes
        PROVE  /\ completes'[j].code = completes[j].code
               /\ completes'[j].step \in Holding =>
                      completes[j].step \in Holding \/ (j = i /\ completes[i].code \notin traded)
    BY <1>2 DEF Moves
  <1>3. ASSUME NEW j \in DOMAIN completes, completes'[j].step \in Holding
        PROVE  OwnsCode(j)'
    <2>1. completes'[j].code \in traded'
      BY <1>2, <1>3 DEF SignupInv, RequestsInv, OwnsCode, Moves
    <2>2. ASSUME NEW a \in accounts'
          PROVE  a.code # completes'[j].code
      BY <1>2, <1>3, <2>2 DEF SignupInv, RequestsInv, OwnsCode, AccountsInv, SoundAccount
    <2>3. ASSUME NEW k \in DOMAIN completes, completes'[k].step \in Holding,
                 completes'[k].code = completes'[j].code
          PROVE  k = j
      BY <1>2, <1>3, <2>3 DEF SignupInv, RequestsInv, OwnsCode
    <2>4. QED
      BY <2>1, <2>2, <2>3 DEF OwnsCode, Moves
  <1>4. AccountsInv'
    BY DEF SignupInv, AccountsInv, SoundAccount
  <1>5. QED
    BY <1>1, <1>3, <1>4 DEF RequestsInv, Moves

\* Nothing about a code or an account changes.
LEMMA PageKeepsRequests ==
  ASSUME SignupInv, UNCHANGED <<windows, completes, traded, accounts>>
  PROVE  RequestsInv' /\ AccountsInv'
  BY DEF SignupInv, RequestsInv, SoundRequest, OwnsCode, AccountsInv, SoundAccount

LEMMA ResultChanged ==
  ASSUME result_ \in ResultRec, NEW c \in Nat
  PROVE  LET r == [result_ EXCEPT !.code = c] IN
         /\ r \in ResultRec /\ r.code = c /\ r.waba = result_.waba /\ r.phone = result_.phone
  BY DEF ResultRec

LEMMA IdsChanged ==
  ASSUME result_ \in ResultRec, NEW w \in Business, NEW n \in Number \cup {Absent}
  PROVE  LET r == [result_ EXCEPT !.waba = w, !.phone = n] IN
         /\ r \in ResultRec /\ r.code = result_.code /\ r.waba = w /\ r.phone = n
  BY DEF ResultRec

LEMMA NothingKnown == NoResult_ \in ResultRec /\ NoResult_.code = 0 /\ NoResult_.phone = Absent
  BY DEF NoResult_, ResultRec, Business

LEMMA ReportKeepsSignup ==
  ASSUME SignupInv, NEW r, OnReport(r)
  PROVE  SignupInv'
  <1>0. /\ windows \in Seq(Number) /\ Len(windows) \in Nat /\ r.of \in 1 .. Len(windows)
        /\ result_ \in ResultRec /\ result_.code \in 0 .. Len(windows)
    BY LenProperties DEF SignupInv, PageInv, OnReport
  <1>1. RequestsInv' /\ AccountsInv'
    BY PageKeepsRequests DEF OnReport
  <1>2. /\ result_' \in ResultRec /\ result_'.code \in 0 .. Len(windows)
        /\ result_'.phone # Absent => result_'.waba = WabaOf[result_'.phone]
    <2>1. CASE OnError(r)
      <3>1. result_' = NoResult_
        BY <2>1 DEF OnError
      <3>2. result_'.code = 0 /\ result_'.phone = Absent /\ result_' \in ResultRec
        BY <3>1, NothingKnown
      <3>3. QED
        BY <1>0, <3>2
    <2>2. CASE OnCode(r)
      BY <1>0, <2>2, ResultChanged DEF OnCode, SignupInv, PageInv
    <2>3. ASSUME NEW n \in Number \cup {Absent}, OnFinish(r, n)
          PROVE  /\ result_' \in ResultRec /\ result_'.code \in 0 .. Len(windows)
                 /\ result_'.phone # Absent => result_'.waba = WabaOf[result_'.phone]
      <3> DEFINE chosen == windows[r.of]
      <3>1. chosen \in Number
        BY <1>0, ElementOfSeq
      <3>2. WabaOf[chosen] \in Business /\ n \in {chosen, Absent}
        BY <2>3, <3>1 DEF Business, OnFinish
      <3>3. result_' = [result_ EXCEPT !.waba = WabaOf[chosen], !.phone = n]
        BY <2>3 DEF OnFinish
      <3> HIDE DEF chosen
      <3>4. /\ result_' \in ResultRec /\ result_'.code = result_.code
            /\ result_'.waba = WabaOf[chosen] /\ result_'.phone = n
        BY <1>0, <3>2, <3>3, IdsChanged, Zenon
      <3>5. QED
        BY <1>0, <3>2, <3>4
    <2>4. QED
      BY <2>1, <2>2, <2>3 DEF OnReport
  <1>3. QED
    BY <1>1, <1>2 DEF SignupInv, PageInv, OnReport

LEMMA LaunchKeepsSignup ==
  ASSUME SignupInv, NEW n \in Number, LaunchSignup(n)
  PROVE  SignupInv'
  <1>0. /\ windows \in Seq(Number) /\ Len(windows) \in Nat
        /\ windows' = Append(windows, n)
        /\ UNCHANGED <<result_, pending, completes, traded, accounts>>
    BY LenProperties DEF SignupInv, PageInv, LaunchSignup
  <1>1. /\ windows' \in Seq(Number) /\ Len(windows') = Len(windows) + 1
        /\ \A k \in 1 .. Len(windows) : windows'[k] = windows[k]
    BY <1>0, AppendProperties
  <1>2. PageInv'
    <2>1. \A r \in reports' : r.of \in 1 .. Len(windows')
      <3>1. \A r \in reports' : r \in reports \/ r.of = Len(windows) + 1
        BY DEF LaunchSignup
      <3>2. QED
        BY <1>0, <1>1, <3>1 DEF SignupInv, PageInv
    <2>2. QED
      BY <1>0, <1>1, <2>1 DEF SignupInv, PageInv
  <1>3. RequestsInv'
    <2>1. ASSUME NEW i \in DOMAIN completes
          PROVE  SoundRequest(completes[i])'
      <3>1. SoundRequest(completes[i])
        BY DEF SignupInv, RequestsInv
      <3>2. QED
        BY <1>0, <1>1, <3>1 DEF SoundRequest
    <2>2. ASSUME NEW i \in DOMAIN completes, completes[i].step \in Holding
          PROVE  OwnsCode(i)'
      BY <1>0, <2>2 DEF SignupInv, RequestsInv, OwnsCode
    <2>3. QED
      BY <1>0, <2>1, <2>2 DEF SignupInv, RequestsInv
  <1>4. AccountsInv'
    <2>1. ASSUME NEW a \in accounts
          PROVE  SoundAccount(a)'
      <3>1. SoundAccount(a)
        BY DEF SignupInv, AccountsInv
      <3>2. QED
        BY <1>0, <1>1, <3>1 DEF SoundAccount
    <2>2. QED
      BY <1>0, <2>1 DEF SignupInv, AccountsInv
  <1>5. QED
    BY <1>2, <1>3, <1>4 DEF SignupInv

LEMMA FinishKeepsSignup ==
  ASSUME SignupInv, Finish
  PROVE  SignupInv'
  <1> DEFINE c == [step |-> "exchange", code |-> result_.code, waba |-> result_.waba,
                   phone |-> result_.phone, reported |-> FALSE]
  <1>0. /\ completes \in Seq(CompleteRec) /\ Len(completes) \in Nat
        /\ DOMAIN completes = 1 .. Len(completes)
        /\ completes' = Append(completes, c)
        /\ UNCHANGED <<windows, reports, result_, traded, accounts>>
    BY LenProperties DEF SignupInv, RequestsInv, Finish
  <1>1. /\ c \in CompleteRec /\ c.step = "exchange"
        /\ c.code \in 1 .. Len(windows) /\ c.waba = WabaOf[c.phone]
    <2>1. /\ result_.code \in 0 .. Len(windows) /\ result_.code # 0 /\ Len(windows) \in Nat
          /\ result_.phone # Absent /\ result_ \in ResultRec
          /\ result_.waba = WabaOf[result_.phone]
      BY LenProperties DEF SignupInv, PageInv, Finish, Ready
    <2>2. QED
      BY <2>1 DEF ResultRec, CompleteRec, SignupSteps
  <1> HIDE DEF c
  <1>2. /\ completes' \in Seq(CompleteRec) /\ DOMAIN completes' = 1 .. Len(completes) + 1
        /\ completes'[Len(completes) + 1] = c
        /\ \A i \in 1 .. Len(completes) : completes'[i] = completes[i]
    BY <1>0, <1>1, AppendProperties
  <1>3. ASSUME NEW i \in DOMAIN completes'
        PROVE  /\ SoundRequest(completes[i])'
               /\ completes'[i].step \in Holding => OwnsCode(i)'
    <2>1. CASE i = Len(completes) + 1
      BY <1>0, <1>1, <1>2, <2>1 DEF SoundRequest, Holding
    <2>2. CASE i \in DOMAIN completes
      <3>1. SoundRequest(completes[i])' /\ completes'[i] = completes[i]
        BY <1>0, <1>2, <2>2 DEF SignupInv, RequestsInv, SoundRequest
      <3>2. ASSUME completes'[i].step \in Holding
            PROVE  OwnsCode(i)'
        <4>1. OwnsCode(i)
          BY <2>2, <3>1, <3>2 DEF SignupInv, RequestsInv
        <4>2. ASSUME NEW j \in DOMAIN completes', completes'[j].step \in Holding,
                     completes'[j].code = completes[i].code
              PROVE  j = i
          <5>1. j # Len(completes) + 1
            BY <1>1, <1>2, <4>2 DEF Holding
          <5>2. j \in DOMAIN completes /\ completes'[j] = completes[j]
            BY <1>0, <1>2, <5>1
          <5>3. QED
            BY <4>1, <4>2, <5>2 DEF OwnsCode
        <4>3. QED
          BY <1>0, <3>1, <4>1, <4>2 DEF OwnsCode
      <3>3. QED
        BY <3>1, <3>2
    <2>3. QED
      BY <1>0, <1>2, <2>1, <2>2
  <1>4. PageInv' /\ AccountsInv'
    BY <1>0 DEF SignupInv, PageInv, AccountsInv, SoundAccount
  <1>5. QED
    BY <1>2, <1>3, <1>4 DEF SignupInv, RequestsInv

LEMMA LeaveKeepsSignup ==
  ASSUME SignupInv, LeaveSignup
  PROVE  SignupInv'
  <1>1. RequestsInv' /\ AccountsInv'
    BY PageKeepsRequests DEF LeaveSignup
  <1>2. result_' \in ResultRec /\ result_'.code = 0 /\ result_'.phone = Absent
    BY NothingKnown DEF LeaveSignup
  <1>3. PageInv'
    BY <1>2, LenProperties DEF SignupInv, PageInv, LeaveSignup
  <1>4. QED
    BY <1>1, <1>3 DEF SignupInv

\* A request that moves keeps the page's result or clears it.
PageWaits == (UNCHANGED <<reports, result_>>) \/ (result_' = NoResult_ /\ reports' = {})

LEMMA WaitingKeepsPage ==
  ASSUME SignupInv, PageWaits, UNCHANGED windows
  PROVE  PageInv'
  <1>1. CASE UNCHANGED <<reports, result_>>
    BY <1>1 DEF SignupInv, PageInv
  <1>2. CASE result_' = NoResult_ /\ reports' = {}
    <2>1. result_' \in ResultRec /\ result_'.code = 0 /\ result_'.phone = Absent
      BY <1>2, NothingKnown
    <2>2. QED
      BY <1>2, <2>1, LenProperties DEF SignupInv, PageInv
  <1>3. QED
    BY <1>1, <1>2 DEF PageWaits

LEMMA FailureKeepsSignup ==
  ASSUME SignupInv, NEW i \in DOMAIN completes, Fails(i), UNCHANGED <<windows, accounts>>,
         traded' \in {traded, traded \cup {completes[i].code}}
  PROVE  SignupInv'
  <1>1. Moves(i, "failed", completes[i].reported)
    BY RequestMoved DEF SignupInv, RequestsInv, SignupSteps, Fails
  <1>2. RequestsInv' /\ AccountsInv'
    BY <1>1, MoveKeepsRequests DEF Holding
  <1>3. PageInv'
    BY WaitingKeepsPage DEF PageWaits, Fails
  <1>4. QED
    BY <1>2, <1>3 DEF SignupInv

LEMMA RequestKeepsSignup ==
  ASSUME SignupInv, NEW i \in DOMAIN completes,
         \/ ExchangeCode(i) \/ FindDuplicate(i) \/ CompleteThrows(i)
         \/ \E reported \in BOOLEAN : CheckToken(i, reported)
  PROVE  SignupInv'
  <1>0. completes \in Seq(CompleteRec) /\ SoundRequest(completes[i])
    BY DEF SignupInv, RequestsInv
  <1>1. CASE ExchangeCode(i) /\ completes[i].code \notin traded
    <2>1. Moves(i, "check", completes[i].reported)
      BY <1>0, <1>1, RequestMoved DEF SignupSteps, ExchangeCode, Continue
    <2>2. RequestsInv' /\ AccountsInv'
      BY <1>1, <2>1, MoveKeepsRequests DEF ExchangeCode
    <2>3. PageInv'
      BY <1>1, WaitingKeepsPage DEF PageWaits, ExchangeCode, Continue
    <2>4. QED
      BY <2>2, <2>3 DEF SignupInv
  <1>2. CASE ExchangeCode(i) /\ completes[i].code \in traded
    BY <1>2, FailureKeepsSignup DEF ExchangeCode
  <1>3. CASE FindDuplicate(i)
    <2>1. CASE Taken(i)
      BY <1>3, <2>1, FailureKeepsSignup DEF FindDuplicate
    <2>2. CASE ~Taken(i)
      <3>1. Moves(i, "insert", completes[i].reported) /\ completes[i].step = "find"
        BY <1>0, <1>3, <2>2, RequestMoved DEF SignupSteps, FindDuplicate, Continue, CompleteAt
      <3>2. RequestsInv' /\ AccountsInv'
        <4>1. completes[i].code \in traded /\ completes[i].step \in Holding
          BY <3>1 DEF SignupInv, RequestsInv, OwnsCode, Holding
        <4>2. UNCHANGED <<windows, traded, accounts>>
          BY <1>3 DEF FindDuplicate
        <4>3. completes[i].reported => WabaOf[windows[completes[i].code]] = completes[i].waba
          BY <1>0, <3>1 DEF SoundRequest
        <4>4. QED
          BY <3>1, <4>1, <4>2, <4>3, MoveKeepsRequests
      <3>3. PageInv'
        BY <1>3, <2>2, WaitingKeepsPage DEF PageWaits, FindDuplicate, Continue
      <3>4. QED
        BY <3>2, <3>3 DEF SignupInv
    <2>3. QED
      BY <2>1, <2>2
  <1>4. CASE CompleteThrows(i)
    BY <1>4, FailureKeepsSignup DEF CompleteThrows
  <1>5. ASSUME NEW b \in BOOLEAN, CheckToken(i, b)
        PROVE  SignupInv'
    <2>1. CASE ~Granted(completes[i], b)
      BY <1>5, <2>1, FailureKeepsSignup DEF CheckToken
    <2>2. CASE Granted(completes[i], b)
      <3>1. Moves(i, "find", b) /\ completes[i].step = "check"
        BY <1>0, <1>5, <2>2, RequestChecked DEF CheckToken, CompleteAt
      <3>2. RequestsInv' /\ AccountsInv'
        <4>1. completes[i].code \in traded /\ completes[i].step \in Holding
          BY <3>1 DEF SignupInv, RequestsInv, OwnsCode, Holding
        <4>2. UNCHANGED <<windows, traded, accounts>>
          BY <1>5 DEF CheckToken
        <4>3. b => WabaOf[windows[completes[i].code]] = completes[i].waba
          BY <2>2 DEF Granted
        <4>4. QED
          BY <3>1, <4>1, <4>2, <4>3, MoveKeepsRequests
      <3>3. PageInv'
        BY <1>5, <2>2, WaitingKeepsPage DEF PageWaits, CheckToken
      <3>4. QED
        BY <3>2, <3>3 DEF SignupInv
    <2>3. QED
      BY <2>1, <2>2
  <1>6. QED
    BY <1>1, <1>2, <1>3, <1>4, <1>5

LEMMA InsertKeepsSignup ==
  ASSUME SignupInv, NEW i \in DOMAIN completes, InsertAccount(i)
  PROVE  SignupInv'
  <1> DEFINE c == completes[i]
  <1>0. /\ completes \in Seq(CompleteRec) /\ c \in CompleteRec /\ c.step = "insert"
        /\ UNCHANGED <<windows, traded>>
    BY ElementOfSeq, LenProperties DEF SignupInv, RequestsInv, InsertAccount, CompleteAt
  <1>1. CASE Taken(i)
    BY <1>1, FailureKeepsSignup DEF InsertAccount
  <1>2. CASE ~Taken(i)
    <2>0. PICK a : a = [phone |-> c.phone, waba |-> c.waba, code |-> c.code,
                        reported |-> c.reported]
      OBVIOUS
    <2>1. Completes(i) /\ accounts' = accounts \cup {a}
      BY <1>2, <2>0 DEF InsertAccount
    <2>2. Moves(i, "done", c.reported)
      BY <1>0, <2>1, RequestMoved DEF SignupSteps, Completes
    <2>3. /\ a \in AccountRec /\ a.code = c.code /\ a.waba = c.waba /\ a.phone = c.phone
          /\ a.reported = c.reported
      BY <1>0, <2>0 DEF CompleteRec, AccountRec
    <2>4. OwnsCode(i) /\ SoundRequest(c)
      BY <1>0 DEF SignupInv, RequestsInv, Holding
    <2>5. AccountsInv'
      <3>1. ASSUME NEW b \in accounts
            PROVE  SoundAccount(b)'
        BY <1>0, <2>1, <2>3, <2>4, <3>1 DEF SignupInv, AccountsInv, SoundAccount, OwnsCode
      <3>2. SoundAccount(a)'
        <4>1. /\ a.code \in 1 .. Len(windows) /\ a.code \in traded /\ a.waba = WabaOf[a.phone]
              /\ a.reported => WabaOf[windows[a.code]] = a.waba
          BY <1>0, <2>3, <2>4 DEF OwnsCode, SoundRequest
        <4>2. \A b \in accounts : b.code # a.code
          BY <2>3, <2>4 DEF OwnsCode
        <4>3. QED
          BY <1>0, <2>1, <4>1, <4>2 DEF SoundAccount
      <3>3. QED
        BY <2>1, <2>3, <3>1, <3>2 DEF SignupInv, AccountsInv
    <2>6. RequestsInv'
      <3>1. ASSUME NEW j \in DOMAIN completes
            PROVE  SoundRequest(completes[j])' /\ (completes'[j].step \in Holding => OwnsCode(j)')
        <4>1. SoundRequest(completes[j]) /\ (completes[j].step \in Holding => OwnsCode(j))
          BY DEF SignupInv, RequestsInv
        <4>2. CASE j = i
          BY <1>0, <2>2, <2>4, <4>2 DEF SoundRequest, Moves, Holding
        <4>3. CASE j # i
          <5>1. completes'[j] = completes[j]
            BY <2>2, <4>3 DEF Moves
          <5>2. SoundRequest(completes[j])'
            BY <1>0, <4>1, <5>1 DEF SoundRequest
          <5>3. ASSUME completes[j].step \in Holding
                PROVE  OwnsCode(j)'
            <6>1. OwnsCode(j) /\ c.code # completes[j].code
              BY <1>0, <4>1, <4>3, <5>3 DEF OwnsCode, Holding
            <6>2. \A k \in DOMAIN completes :
                      completes'[k].step \in Holding /\ completes'[k].code = completes[j].code
                          => k = j
              BY <2>2, <5>3, <6>1 DEF OwnsCode, Moves
            <6>3. QED
              BY <1>0, <2>1, <2>2, <2>3, <5>1, <6>1, <6>2 DEF OwnsCode, Moves
          <5>4. QED
            BY <5>1, <5>2, <5>3
        <4>4. QED
          BY <4>2, <4>3
      <3>2. QED
        BY <2>2, <3>1 DEF RequestsInv, Moves
    <2>7. PageInv'
      BY <1>0, <2>1, WaitingKeepsPage DEF PageWaits, Completes
    <2>8. QED
      BY <2>5, <2>6, <2>7 DEF SignupInv
  <1>3. QED
    BY <1>1, <1>2

\* The page may pair a code with the ids of another window; a number is stored
\* with its own business account all the same, and each code gives one token,
\* good for that account when its scopes are reported
\* (EmbeddedSignupService.complete).
THEOREM TokensFit == SignupSpec => []TokenFitsNumber
  <1>1. SignupInit => SignupInv
    <2> SUFFICES ASSUME SignupInit
                 PROVE  SignupInv
      OBVIOUS
    <2>1. result_ \in ResultRec /\ result_.code = 0 /\ result_.phone = Absent
      BY NothingKnown DEF SignupInit
    <2>2. windows \in Seq(Number) /\ Len(windows) = 0
      BY EmptySeq DEF SignupInit
    <2>3. completes \in Seq(CompleteRec) /\ DOMAIN completes = {}
      BY EmptySeq DEF SignupInit
    <2>4. QED
      BY <2>1, <2>2, <2>3 DEF SignupInit, SignupInv, PageInv, RequestsInv, AccountsInv
  <1>2. SignupInv /\ [SignupNext]_signupVars => SignupInv'
    <2>1. ASSUME SignupInv, UNCHANGED signupVars
          PROVE  SignupInv'
      BY <2>1, PageKeepsRequests DEF signupVars, SignupInv, PageInv
    <2>2. QED
      BY <2>1, FinishKeepsSignup, LeaveKeepsSignup, LaunchKeepsSignup, ReportKeepsSignup,
         RequestKeepsSignup, InsertKeepsSignup, Zenon DEF SignupNext
  <1>3. SignupInv => TokenFitsNumber
    BY DEF SignupInv, AccountsInv, SoundAccount, TokenFitsNumber
  <1>4. QED
    BY <1>1, <1>2, <1>3, PTL DEF SignupSpec

-----------------------------------------------------------------------------
(* Integrations. *)

\* A row of credentials, the steps of a request that may hold one, and a grant.
GrantRow == [grant : Nat, fresh : BOOLEAN]
LinkStage == {"idle", "exchange", "connect", "refresh", "rewrite", "call", "touch"}
Grant == [state : Nat, spent : BOOLEAN]

\* The credentials of a request that is about to store some, or to ask for
\* newer ones, come from a grant; those of a refresh are the last connection's
\* unless it has been disconnected or replaced meanwhile.
HeldInv(u) ==
    /\ link[u].at \in {"exchange", "connect", "refresh", "rewrite"} => link[u].creds.grant > 0
    /\ ~overlap /\ link[u].at \in {"refresh", "rewrite"} =>
           link[u].creds.grant = latest \/ latest = 0

LinkInv ==
    /\ store \in GrantRow /\ latest \in Nat
    /\ grants \in Seq(Grant) /\ signed \in Seq(BOOLEAN)
    /\ overlap \in BOOLEAN
    /\ link \in [Owner -> [at : LinkStage, creds : GrantRow]]
    /\ store.grant = 0 => store = Unlinked
    /\ store.grant = 0 <=> latest = 0
    /\ ~overlap => store.grant = latest
    /\ \A u \in Owner : HeldInv(u)

\* A row of a grant is not the row of no grant.
LEMMA RowsOfGrants ==
  ASSUME NEW r \in GrantRow
  PROVE  /\ Unlinked \in GrantRow /\ Unlinked.grant = 0
         /\ r.grant > 0 => r # Unlinked
  BY DEF GrantRow, Unlinked

\* A request goes to step s holding credentials c.
LEMMA LinkMoves ==
  ASSUME LinkInv, NEW u \in Owner, NEW s \in LinkStage, NEW c \in GrantRow, LinkGoto(u, s, c)
  PROVE  /\ link' \in [Owner -> [at : LinkStage, creds : GrantRow]]
         /\ link'[u].at = s /\ link'[u].creds = c
         /\ \A v \in Owner \ {u} : link'[v] = link[v]
  BY DEF LinkInv, LinkGoto

\* A step that keeps the row, the history and the grants, and moves a request
\* to a step that holds what HeldInv asks.
LEMMA QuietLinkStep ==
  ASSUME LinkInv, NEW u \in Owner, NEW s \in LinkStage, NEW c \in GrantRow, LinkGoto(u, s, c),
         UNCHANGED <<store, signed, latest, overlap>>,
         grants' \in Seq(Grant),
         s \in {"exchange", "connect", "refresh", "rewrite"} => c.grant > 0,
         ~overlap /\ s \in {"refresh", "rewrite"} => c.grant = latest \/ latest = 0
  PROVE  LinkInv'
  <1>1. /\ link' \in [Owner -> [at : LinkStage, creds : GrantRow]]
        /\ link'[u].at = s /\ link'[u].creds = c
        /\ \A v \in Owner \ {u} : link'[v] = link[v]
    BY LinkMoves
  <1>2. HeldInv(u)'
    BY <1>1 DEF HeldInv
  <1>3. ASSUME NEW v \in Owner \ {u}
        PROVE  HeldInv(v)'
    BY <1>1, <1>3 DEF HeldInv, LinkInv
  <1>4. QED
    BY <1>1, <1>2, <1>3 DEF LinkInv

\* A code is spent.
LEMMA GrantSpent ==
  ASSUME grants \in Seq(Grant), NEW g, grants' = [grants EXCEPT ![g].spent = TRUE]
  PROVE  grants' \in Seq(Grant)
  <1>1. CASE g \in DOMAIN grants
    <2> DEFINE r == [grants[g] EXCEPT !.spent = TRUE]
    <2>1. grants[g] \in Grant /\ g \in 1 .. Len(grants)
      BY <1>1, ElementOfSeq, LenProperties
    <2>2. r \in Grant
      BY <2>1 DEF Grant
    <2>3. grants' = [grants EXCEPT ![g] = r]
      OBVIOUS
    <2> HIDE DEF r
    <2>4. [grants EXCEPT ![g] = r] \in Seq(Grant)
      BY <2>1, <2>2, ExceptSeq
    <2>5. QED
      BY <2>3, <2>4
  <1>2. CASE g \notin DOMAIN grants
    <2>1. grants = [i \in DOMAIN grants |-> grants[i]]
      OBVIOUS
    <2>2. grants' = [i \in DOMAIN grants |-> grants[i]]
      BY <1>2
    <2>3. QED
      BY <2>1, <2>2
  <1>3. QED
    BY <1>1, <1>2

\* The request that had read the row ends or goes on; the row is gone or holds
\* the refreshed credentials.
LEMMA RewriteKeepsLink ==
  ASSUME LinkInv, NEW u \in Owner, RewriteCredentials(u)
  PROVE  LinkInv'
  <1> DEFINE c == link[u].creds
  <1>1. c \in GrantRow /\ c.grant > 0 /\ (~overlap => c.grant = latest \/ latest = 0)
    BY DEF LinkInv, HeldInv, RewriteCredentials, LinkAt
  <1>2. CASE store = Unlinked
    BY <1>2, QuietLinkStep, RowsOfGrants DEF RewriteCredentials, LinkEnd, LinkInv, LinkStage
  <1>3. CASE store # Unlinked
    <2>1. LinkGoto(u, "call", c) /\ store' = c
      BY <1>3 DEF RewriteCredentials
    <2>2. /\ link' \in [Owner -> [at : LinkStage, creds : GrantRow]]
          /\ link'[u].at = "call"
          /\ \A v \in Owner \ {u} : link'[v] = link[v]
      BY <1>1, <2>1, LinkMoves DEF LinkStage
    <2>3. latest # 0
      BY <1>3 DEF LinkInv
    <2>4. UNCHANGED <<signed, grants, latest, overlap>>
      BY DEF RewriteCredentials
    <2>5. \A v \in Owner : HeldInv(v)'
      BY <2>2, <2>4 DEF HeldInv, LinkInv
    <2>6. store' \in GrantRow /\ (~overlap => store'.grant = latest) /\ store'.grant # 0
      BY <1>1, <2>1, <2>3
    <2>7. QED
      BY <2>2, <2>3, <2>4, <2>5, <2>6 DEF LinkInv
  <1>4. QED
    BY <1>2, <1>3

\* A connection is stored; refreshes that are under way have read an older row.
LEMMA ConnectKeepsLink ==
  ASSUME LinkInv, NEW u \in Owner, UpsertIntegration(u)
  PROVE  LinkInv'
  <1> DEFINE c == link[u].creds
  <1>1. c \in GrantRow /\ c.grant > 0
    BY DEF LinkInv, HeldInv, UpsertIntegration, LinkAt
  <1>2. /\ link' \in [Owner -> [at : LinkStage, creds : GrantRow]]
        /\ link'[u].at = "idle"
        /\ \A v \in Owner \ {u} : link'[v] = link[v]
    BY RowsOfGrants, LinkMoves, <1>1 DEF UpsertIntegration, LinkEnd, LinkStage
  <1>3. /\ store' = c /\ latest' = c.grant /\ overlap' = (overlap \/ Refreshing)
        /\ UNCHANGED <<signed, grants>>
    BY DEF UpsertIntegration
  <1>4. ASSUME NEW v \in Owner
        PROVE  HeldInv(v)'
    <2>1. CASE v = u
      BY <1>2, <2>1 DEF HeldInv
    <2>2. CASE v # u
      <3>1. link'[v] = link[v]
        BY <1>2, <2>2
      <3>2. link[v].at \in {"refresh", "rewrite"} => overlap'
        BY <1>3 DEF Refreshing
      <3>3. QED
        BY <3>1, <3>2 DEF HeldInv, LinkInv
    <2>3. QED
      BY <2>1, <2>2
  <1>5. c.grant \in Nat /\ overlap' \in BOOLEAN
    BY <1>1, <1>3 DEF GrantRow, LinkInv
  <1>6. QED
    BY <1>1, <1>2, <1>3, <1>4, <1>5 DEF LinkInv

\* Every other step of a request leaves the row as it is.
LEMMA RequestKeepsLink ==
  ASSUME LinkInv, NEW u \in Owner,
         \/ TradeCode(u) \/ ConnectApiKey(u) \/ GetCredentials(u) \/ RefreshToken(u)
         \/ CallProvider(u) \/ TouchSync(u) \/ LinkThrows(u)
         \/ \E g \in DOMAIN grants : Callback(u, g)
  PROVE  LinkInv'
  <1> DEFINE c == link[u].creds
  <1>0. c \in GrantRow /\ c.grant \in Nat /\ HeldInv(u)
    BY DEF LinkInv, GrantRow
  <1>1. Unlinked \in GrantRow
    BY RowsOfGrants, <1>0
  <1>2. CASE TradeCode(u)
    <2>1. grants' \in Seq(Grant)
      BY <1>2, GrantSpent DEF TradeCode, LinkInv
    <2>2. c.grant > 0
      BY <1>0, <1>2 DEF TradeCode, LinkAt, HeldInv
    <2>3. LinkGoto(u, "idle", Unlinked) \/ LinkGoto(u, "connect", c)
      BY <1>2 DEF TradeCode, LinkEnd
    <2>4. UNCHANGED <<store, signed, latest, overlap>>
      BY <1>2 DEF TradeCode
    <2>5. QED
      BY <1>0, <1>1, <2>1, <2>2, <2>3, <2>4, QuietLinkStep DEF LinkStage
  <1>3. CASE ConnectApiKey(u)
    <2> DEFINE k == [grant |-> Len(grants) + 1, fresh |-> FALSE]
    <2>1. Len(grants) \in Nat
      BY DEF LinkInv
    <2>2. k \in GrantRow /\ k.grant > 0
      BY <2>1 DEF GrantRow
    <2>3. grants' \in Seq(Grant)
      <3>1. [state |-> 0, spent |-> TRUE] \in Grant
        BY DEF Grant
      <3>2. QED
        BY <1>3, <3>1, AppendProperties DEF ConnectApiKey, LinkInv
    <2>4. LinkGoto(u, "connect", k) /\ UNCHANGED <<store, signed, latest, overlap>>
      BY <1>3 DEF ConnectApiKey
    <2>5. QED
      BY <2>2, <2>3, <2>4, QuietLinkStep DEF LinkStage
  <1>4. CASE GetCredentials(u)
    <2>1. store \in GrantRow /\ store.grant > 0 /\ (~overlap => store.grant = latest)
      BY <1>4, RowsOfGrants DEF GetCredentials, LinkInv, GrantRow
    <2>2. /\ LinkGoto(u, "call", store) \/ LinkGoto(u, "refresh", store)
          /\ UNCHANGED <<store, signed, grants, latest, overlap>>
      BY <1>4 DEF GetCredentials
    <2>3. grants' \in Seq(Grant)
      BY <2>2 DEF LinkInv
    <2>4. QED
      BY <2>1, <2>2, <2>3, QuietLinkStep DEF LinkStage
  <1>5. CASE RefreshToken(u)
    <2> DEFINE r == [c EXCEPT !.fresh = TRUE]
    <2>1. r \in GrantRow /\ r.grant = c.grant
      BY <1>0 DEF GrantRow
    <2>2. /\ link[u].at = "refresh" /\ LinkGoto(u, "rewrite", r)
          /\ UNCHANGED <<store, signed, grants, latest, overlap>>
      BY <1>5 DEF RefreshToken, LinkAt
    <2>3. c.grant > 0 /\ (~overlap => c.grant = latest \/ latest = 0)
      BY <1>0, <2>2 DEF HeldInv
    <2>4. grants' \in Seq(Grant)
      BY <2>2 DEF LinkInv
    <2> HIDE DEF r
    <2>5. QED
      BY <2>1, <2>2, <2>3, <2>4, QuietLinkStep DEF LinkStage
  <1>6. CASE \E g \in DOMAIN grants : Callback(u, g)
    <2>1. PICK g \in DOMAIN grants : Callback(u, g)
      BY <1>6
    <2> DEFINE k == [grant |-> g, fresh |-> FALSE]
    <2>2. k \in GrantRow /\ k.grant > 0
      BY DEF GrantRow, LinkInv
    <2>3. LinkGoto(u, "exchange", k) /\ UNCHANGED <<store, signed, grants, latest, overlap>>
      BY <2>1 DEF Callback
    <2>4. grants' \in Seq(Grant)
      BY <2>3 DEF LinkInv
    <2>5. QED
      BY <2>2, <2>3, <2>4, QuietLinkStep DEF LinkStage
  <1>7. CASE CallProvider(u) \/ TouchSync(u) \/ LinkThrows(u)
    <2>1. /\ LinkGoto(u, "idle", Unlinked) \/ LinkGoto(u, "touch", Unlinked)
          /\ UNCHANGED <<store, signed, grants, latest, overlap>>
      BY <1>7 DEF CallProvider, TouchSync, LinkThrows, LinkEnd
    <2>2. grants' \in Seq(Grant)
      BY <2>1 DEF LinkInv
    <2>3. QED
      BY <1>1, <2>1, <2>2, QuietLinkStep DEF LinkStage
  <1>8. QED
    BY <1>2, <1>3, <1>4, <1>5, <1>6, <1>7

\* Steps of no request.
LEMMA OutsideKeepsLink ==
  ASSUME LinkInv,
         \/ StartOauth \/ Disconnect \/ TokenExpires
         \/ \E s \in DOMAIN signed : Consent(s) \/ ExpireState(s)
  PROVE  LinkInv'
  <1>1. CASE StartOauth
    <2>1. signed' \in Seq(BOOLEAN)
      BY <1>1, AppendProperties DEF StartOauth, LinkInv
    <2>2. UNCHANGED <<store, grants, link, latest, overlap>>
      BY <1>1 DEF StartOauth
    <2>3. QED
      BY <2>1, <2>2 DEF LinkInv, HeldInv
  <1>2. CASE Disconnect
    <2>1. /\ store' = Unlinked /\ latest' = 0
          /\ UNCHANGED <<signed, grants, link, overlap>>
      BY <1>2 DEF Disconnect
    <2>2. Unlinked \in GrantRow /\ Unlinked.grant = 0
      BY DEF GrantRow, Unlinked
    <2>3. QED
      BY <2>1, <2>2 DEF LinkInv, HeldInv
  <1>3. CASE TokenExpires
    <2>1. store' = [store EXCEPT !.fresh = FALSE]
      BY <1>3 DEF TokenExpires
    <2>2. store' \in GrantRow /\ store'.grant = store.grant /\ store.grant # 0
      BY <1>3, <2>1 DEF TokenExpires, LinkInv, GrantRow, Unlinked
    <2>3. UNCHANGED <<signed, grants, link, latest, overlap>>
      BY <1>3 DEF TokenExpires
    <2>4. QED
      BY <2>2, <2>3 DEF LinkInv, HeldInv
  <1>4. CASE \E s \in DOMAIN signed : Consent(s)
    <2>1. PICK s \in DOMAIN signed : Consent(s)
      BY <1>4
    <2>2. [state |-> s, spent |-> FALSE] \in Grant
      <3>1. s \in Nat
        BY LenProperties DEF LinkInv
      <3>2. QED
        BY <3>1 DEF Grant
    <2>3. grants' \in Seq(Grant)
      BY <2>1, <2>2, AppendProperties DEF Consent, LinkInv
    <2>4. UNCHANGED <<store, signed, link, latest, overlap>>
      BY <2>1 DEF Consent
    <2>5. QED
      BY <2>3, <2>4 DEF LinkInv, HeldInv
  <1>5. CASE \E s \in DOMAIN signed : ExpireState(s)
    <2>1. PICK s \in DOMAIN signed : ExpireState(s)
      BY <1>5
    <2>2. signed \in Seq(BOOLEAN) /\ s \in 1 .. Len(signed)
      BY LenProperties DEF LinkInv
    <2>3. signed' \in Seq(BOOLEAN)
      BY <2>1, <2>2, ExceptSeq DEF ExpireState
    <2>4. UNCHANGED <<store, grants, link, latest, overlap>>
      BY <2>1 DEF ExpireState
    <2>5. QED
      BY <2>3, <2>4 DEF LinkInv, HeldInv
  <1>6. QED
    BY <1>1, <1>2, <1>3, <1>4, <1>5

\* A disconnected integration stays disconnected until someone connects it
\* again, whatever refresh was on its way, and a row holds the credentials of
\* the last connection (IntegrationsService, GoogleCalendarService).
THEOREM CredentialsConnected == LinkSpec => []CredentialsAreConnected
  <1>1. LinkInit => LinkInv
    <2> SUFFICES ASSUME LinkInit
                 PROVE  LinkInv
      OBVIOUS
    <2>1. Unlinked \in GrantRow /\ Unlinked.grant = 0
      BY DEF GrantRow, Unlinked
    <2>2. grants \in Seq(Grant) /\ signed \in Seq(BOOLEAN)
      BY EmptySeq DEF LinkInit
    <2>3. /\ link \in [Owner -> [at : LinkStage, creds : GrantRow]]
          /\ \A u \in Owner : link[u].at = "idle"
      BY <2>1 DEF LinkInit, Rest, LinkStage
    <2>4. QED
      BY <2>1, <2>2, <2>3 DEF LinkInit, LinkInv, HeldInv
  <1>2. LinkInv /\ [LinkNext]_linkVars => LinkInv'
    <2>1. ASSUME LinkInv, UNCHANGED linkVars
          PROVE  LinkInv'
      BY <2>1 DEF linkVars, LinkInv, HeldInv
    <2>2. ASSUME LinkInv, NEW u \in Owner, LinkStep(u)
          PROVE  LinkInv'
      BY <2>2, RewriteKeepsLink, ConnectKeepsLink, RequestKeepsLink, Zenon DEF LinkStep
    <2>3. QED
      BY <2>1, <2>2, OutsideKeepsLink, Zenon DEF LinkNext
  <1>3. LinkInv => CredentialsAreConnected
    BY DEF LinkInv, CredentialsAreConnected, Unlinked
  <1>4. QED
    BY <1>1, <1>2, <1>3, PTL DEF LinkSpec
-----------------------------------------------------------------------------
(* The knowledge base. *)

Chunk  == [from : Nat, to : Nat]
DocRec == [from : Nat, to : Nat, vector : BOOLEAN]
IngestRec ==
    [step : {"idle", "cut", "row", "vector", "done"}, i : Nat, chunks : Seq(Chunk)]

KnowTypes ==
    /\ embeds \in BOOLEAN /\ base \in BOOLEAN /\ intact \in BOOLEAN /\ kept \in BOOLEAN
    /\ len \in Nat \ {0} /\ breaks \subseteq 1 .. len - 1
    /\ docs \in Seq(DocRec) /\ ingest \in IngestRec
    /\ bundle \in [of : {"none"} \cup Vertical, part : Nat]

Spans(r, at) == r.from <= at /\ at < r.to
InChunks(at) == \E k \in DOMAIN ingest.chunks : Spans(ingest.chunks[k], at)
InDocs(at)   == \E d \in Retrievable : Spans(docs[d], at)

\* The text is in the chunks as far as it is cut; then what is not retrievable
\* yet is in a chunk still to be stored, and at last all of it is retrievable.
TextInv ==
    /\ ingest.step = "cut" =>
          \A at \in 0 .. len - 1 : at < ingest.i => InChunks(at)
    /\ ingest.step \in {"row", "vector"} /\ intact =>
          \A at \in 0 .. len - 1 : InDocs(at) \/ InChunks(at)
    /\ ingest.step = "vector" =>
          /\ ingest.chunks # <<>>
          /\ intact => /\ docs # <<>>
                       /\ docs[Len(docs)].from = Head(ingest.chunks).from
                       /\ docs[Len(docs)].to = Head(ingest.chunks).to
    /\ ingest.step = "done" /\ intact => AllRetrievable

\* A seed is ingested into a base before the agent is created, and stays.
SeedInv ==
    kept /\ bundle.part > 0 /\ VERTICAL_TEMPLATES[bundle.of].knowledge > 0 =>
        /\ base
        /\ bundle.part = 1 /\ ingest.step \in {"cut", "row", "vector"} => intact
        /\ bundle.part > 1 /\ embeds => AllRetrievable

KnowInv == KnowTypes /\ TextInv /\ SeedInv

-----------------------------------------------------------------------------

\* A set of positions has a last one.
LEMMA LastOne ==
  ASSUME NEW n \in Nat, NEW S, S \subseteq 1 .. n, S # {}
  PROVE  \E m \in S : \A j \in S : j <= m
  <1> DEFINE T == {n - i : i \in S}
  <1>1. T \subseteq Nat /\ T # {}
    <2>1. PICK i \in S : TRUE
      OBVIOUS
    <2>2. n - i \in T
      BY <2>1
    <2>3. \A j \in S : n - j \in Nat
      OBVIOUS
    <2>4. QED
      BY <2>2, <2>3
  <1>2. PICK x \in T : \A y \in T : <<y, x>> \notin OpToRel(<, Nat)
    <2> HIDE DEF T
    <2>1. IsWellFoundedOn(OpToRel(<, Nat), Nat)
      BY NatLessThanWellFounded
    <2>2. QED
      BY <1>1, <2>1, WFMin
  <1>3. PICK m \in S : x = n - m
    OBVIOUS
  <1>4. ASSUME NEW j \in S
        PROVE  j <= m
    <2>1. n - j \in T /\ n - j \in Nat /\ x \in Nat
      BY <1>1
    <2>2. ~(n - j < x)
      BY <1>2, <2>1 DEF OpToRel
    <2>3. QED
      BY <1>3, <2>2
  <1>5. QED
    BY <1>4

\* A window ends somewhere, and a text of one chunk is not cut.
LEMMA WindowEnds ==
    ASSUME KnowTypes, NEW i \in Nat, i < len
    PROVE  End(i) \in Nat /\ (len <= Size => End(i) = len)
  <1> DEFINE end  == IF i + Size < len THEN i + Size ELSE len
             late == {b \in breaks : b - i - 1 > Size \div 2 /\ b < end}
  <1>1. Size \in Nat \ {0} /\ len \in Nat \ {0} /\ breaks \subseteq 1 .. len - 1
    BY KnowledgeAssumption DEF KnowTypes
  <1>2. end \in Nat /\ (len <= Size => end = len)
    BY <1>1
  <1>3. End(i) = IF end < len /\ late # {} THEN CHOOSE b \in late : \A c \in late : c <= b
                 ELSE end
    BY DEF End
  <1>4. CASE end < len /\ late # {}
    <2>1. late \subseteq 1 .. len - 1
      <3>1. late \subseteq breaks
        BY Zenon
      <3>2. QED
        BY <1>1, <3>1, Zenon
    <2>2. len - 1 \in Nat
      BY <1>1
    <2> HIDE DEF late, end
    <2>3. \E b \in late : \A c \in late : c <= b
      BY <1>4, <2>1, <2>2, LastOne
    <2>4. End(i) = CHOOSE b \in late : \A c \in late : c <= b
      BY <1>3, <1>4
    <2>5. End(i) \in late
      BY <2>3, <2>4
    <2>6. \A n \in 1 .. len - 1 : n \in Nat
      BY <2>2
    <2>7. End(i) \in Nat
      BY <2>1, <2>5, <2>6, Zenon
    <2>8. QED
      BY <1>1, <1>2, <1>4, <2>7
  <1>5. CASE ~(end < len /\ late # {})
    <2> HIDE DEF late, end
    <2>1. QED
      BY <1>2, <1>3, <1>5
  <1>6. QED
    BY <1>4, <1>5

\* A row or a vector is added: what could be retrieved still can.
LEMMA DocsGrow ==
    ASSUME KnowTypes, UNCHANGED len, DOMAIN docs \subseteq DOMAIN docs',
           \A d \in DOMAIN docs :
              /\ docs'[d].from = docs[d].from /\ docs'[d].to = docs[d].to
              /\ docs[d].vector => docs'[d].vector
    PROVE  /\ \A at \in 0 .. len - 1 : InDocs(at) => InDocs(at)'
           /\ AllRetrievable => AllRetrievable'
  <1>1. ASSUME NEW at \in 0 .. len - 1, NEW d \in Retrievable, Spans(docs[d], at)
        PROVE  d \in Retrievable' /\ Spans(docs[d], at)'
    BY <1>1 DEF Retrievable, Spans
  <1>2. QED
    BY <1>1 DEF InDocs, AllRetrievable, Spans

LEMMA Retrieved == AllRetrievable <=> \A at \in 0 .. len - 1 : InDocs(at)
  BY DEF AllRetrievable, InDocs, Spans

\* One chunk more, which spans what the text is cut by.
LEMMA CutKeepsText ==
    ASSUME KnowInv, Cut
    PROVE  KnowInv'
  <1>0. /\ ingest.step = "cut" /\ UNCHANGED <<textVars, base, docs, bundle, intact, kept>>
        /\ ingest \in IngestRec /\ ingest.i \in Nat /\ ingest.chunks \in Seq(Chunk)
        /\ len \in Nat \ {0} /\ Size \in Nat /\ Overlap \in Nat
    BY KnowledgeAssumption DEF Cut, KnowInv, KnowTypes, IngestRec
  <1>1. CASE ingest.i >= len
    <2>1. ingest' = [ingest EXCEPT !.step = "row"]
      BY <1>1 DEF Cut
    <2>2. /\ ingest' \in IngestRec /\ ingest'.step = "row" /\ ingest'.chunks = ingest.chunks
      BY <1>0, <2>1 DEF IngestRec
    <2>3. \A at \in 0 .. len - 1 : InChunks(at)
      BY <1>0, <1>1 DEF KnowInv, TextInv
    <2>4. \A at \in 0 .. len - 1 : InChunks(at)'
      BY <2>2, <2>3 DEF InChunks
    <2>5. TextInv'
      BY <1>0, <2>2, <2>4 DEF TextInv, textVars
    <2>6. SeedInv'
      BY <1>0, <2>2 DEF KnowInv, SeedInv, textVars, AllRetrievable, Retrievable
    <2>7. QED
      BY <1>0, <2>2, <2>5, <2>6 DEF KnowInv, KnowTypes, textVars
  <1>2. CASE ingest.i < len
    <2> DEFINE i == ingest.i
               end == End(i)
               next == IF len <= Size THEN len ELSE Advance(i, end)
               chunk == [from |-> i, to |-> end]
    <2>1. end \in Nat /\ (len <= Size => end = len)
      BY <1>0, <1>2, WindowEnds DEF KnowInv
    <2>2. Advance(i, end) \in Nat /\ Advance(i, end) <= end
      <3>1. i \in Nat /\ Overlap \in Nat /\ end \in Nat
        BY <1>0, <2>1
      <3> HIDE DEF i, end
      <3>2. QED
        BY <3>1 DEF Advance
    <2>3. next \in Nat /\ next <= end
      <3>1. len \in Nat
        BY <1>0
      <3> HIDE DEF end
      <3>2. QED
        BY <2>1, <2>2, <3>1
    <2>4. ingest' = [ingest EXCEPT !.chunks = Append(ingest.chunks, chunk), !.i = next]
      BY <1>0, <1>2 DEF Cut
    <2>5. chunk \in Chunk
      BY <1>0, <2>1 DEF Chunk
    <2>6. chunk.from = i /\ chunk.to = end
      OBVIOUS
    <2> HIDE DEF chunk, next, end
    <2>7. /\ Append(ingest.chunks, chunk) \in Seq(Chunk)
          /\ Len(Append(ingest.chunks, chunk)) = Len(ingest.chunks) + 1
          /\ \A k \in 1 .. Len(ingest.chunks) : Append(ingest.chunks, chunk)[k] = ingest.chunks[k]
          /\ Append(ingest.chunks, chunk)[Len(ingest.chunks) + 1] = chunk
      BY <1>0, <2>5, AppendProperties
    <2>8. /\ ingest' \in IngestRec /\ ingest'.step = "cut" /\ ingest'.i = next
          /\ ingest'.chunks = Append(ingest.chunks, chunk)
      BY <1>0, <2>3, <2>4, <2>7 DEF IngestRec
    <2>9. /\ DOMAIN ingest.chunks = 1 .. Len(ingest.chunks) /\ Len(ingest.chunks) \in Nat
          /\ DOMAIN ingest'.chunks = 1 .. Len(ingest.chunks) + 1
      BY <1>0, <2>7, <2>8, LenProperties
    <2>10. ASSUME NEW at \in 0 .. len - 1, at < next
           PROVE  InChunks(at)'
      <3>1. CASE at < i
        <4>1. PICK k \in DOMAIN ingest.chunks : Spans(ingest.chunks[k], at)
          BY <1>0, <3>1 DEF KnowInv, TextInv, InChunks
        <4>2. k \in DOMAIN ingest'.chunks /\ ingest'.chunks[k] = ingest.chunks[k]
          BY <2>7, <2>8, <2>9
        <4>3. QED
          BY <4>1, <4>2 DEF InChunks, Spans
      <3>2. CASE at >= i
        <4>1. Spans(chunk, at)
          BY <1>0, <2>1, <2>3, <2>6, <2>10, <3>2 DEF Spans
        <4>2. /\ Len(ingest.chunks) + 1 \in DOMAIN ingest'.chunks
              /\ ingest'.chunks[Len(ingest.chunks) + 1] = chunk
          BY <2>7, <2>8, <2>9
        <4>3. QED
          BY <4>1, <4>2 DEF InChunks, Spans
      <3>3. QED
        BY <1>0, <3>1, <3>2
    <2>11. TextInv'
      BY <1>0, <2>8, <2>10 DEF TextInv, textVars
    <2>12. SeedInv'
      BY <1>0, <2>8 DEF KnowInv, SeedInv, textVars, AllRetrievable, Retrievable
    <2>13. QED
      BY <1>0, <2>8, <2>11, <2>12 DEF KnowInv, KnowTypes, textVars
  <1>3. QED
    BY <1>0, <1>1, <1>2


\* Nothing is being ingested any more; a bundle whose seed fails fails.
LEMMA StoppingKeeps ==
    ASSUME KnowInv, ingest' = Idle_, bundle' = bundle \/ SeedFails,
           UNCHANGED <<textVars, base, docs, intact, kept>>
    PROVE  KnowInv'
  <1>1. Idle_ \in IngestRec /\ Idle_.step = "idle"
    BY EmptySeq DEF Idle_, IngestRec
  <1>2. NoBundle \in [of : {"none"} \cup Vertical, part : Nat] /\ NoBundle.part = 0
    BY DEF NoBundle
  <1>3. KnowTypes'
    BY <1>1, <1>2 DEF KnowInv, KnowTypes, textVars, SeedFails
  <1>4. TextInv'
    BY <1>1 DEF TextInv
  <1>5. bundle' = bundle \/ bundle'.part = 0
    BY <1>2 DEF SeedFails
  <1>6. SeedInv'
    BY <1>1, <1>5 DEF KnowInv, SeedInv, textVars, AllRetrievable, Retrievable
  <1>7. QED
    BY <1>3, <1>4, <1>6 DEF KnowInv

\* The row of a chunk; its vector is still to come.
LEMMA RowKeepsText ==
    ASSUME KnowInv, StoreRow
    PROVE  KnowInv'
  <1>0. /\ ingest.step = "row" /\ ingest.chunks # <<>>
        /\ UNCHANGED <<textVars, base, intact, kept>>
        /\ ingest \in IngestRec /\ ingest.chunks \in Seq(Chunk) /\ docs \in Seq(DocRec)
        /\ KnowTypes
    BY DEF StoreRow, KnowInv, KnowTypes, IngestRec
  <1>1. CASE ~base
    <2>1. ingest' = Idle_ /\ SeedFails /\ UNCHANGED <<textVars, base, docs, intact, kept>>
      BY <1>0, <1>1 DEF StoreRow
    <2>2. QED
      BY <2>1, StoppingKeeps
  <1>2. CASE base
    <2> DEFINE head == Head(ingest.chunks)
               new == [from |-> head.from, to |-> head.to, vector |-> FALSE]
    <2>1. /\ docs' = Append(docs, new) /\ ingest' = [ingest EXCEPT !.step = "vector"]
          /\ UNCHANGED bundle
      BY <1>2 DEF StoreRow
    <2>2. new \in DocRec /\ new.from = head.from /\ new.to = head.to
      <3>1. head \in Chunk
        BY <1>0, HeadTailProperties
      <3> HIDE DEF head
      <3>2. QED
        BY <3>1 DEF Chunk, DocRec
    <2> HIDE DEF new
    <2>3. /\ docs' \in Seq(DocRec) /\ Len(docs') = Len(docs) + 1 /\ Len(docs) \in Nat
          /\ \A d \in 1 .. Len(docs) : docs'[d] = docs[d]
          /\ docs'[Len(docs) + 1] = new
          /\ DOMAIN docs = 1 .. Len(docs) /\ DOMAIN docs' = 1 .. Len(docs) + 1
      BY <1>0, <2>1, <2>2, AppendProperties, LenProperties
    <2>4. docs' # <<>>
      BY <2>3
    <2>5. ingest' \in IngestRec /\ ingest'.step = "vector" /\ ingest'.chunks = ingest.chunks
      BY <1>0, <2>1 DEF IngestRec
    <2>6. UNCHANGED len
      BY <1>0 DEF textVars
    <2>7. /\ DOMAIN docs \subseteq DOMAIN docs'
          /\ \A d \in DOMAIN docs :
                /\ docs'[d].from = docs[d].from /\ docs'[d].to = docs[d].to
                /\ docs[d].vector => docs'[d].vector
      BY <2>3
    <2>8. /\ \A at \in 0 .. len - 1 : InDocs(at) => InDocs(at)'
          /\ AllRetrievable => AllRetrievable'
      BY <1>0, <2>6, <2>7, DocsGrow
    <2>9. TextInv'
      <3>1. intact => \A at \in 0 .. len - 1 : InDocs(at) \/ InChunks(at)
        BY <1>0 DEF KnowInv, TextInv
      <3>2. \A at \in 0 .. len - 1 : InChunks(at) => InChunks(at)'
        BY <2>5 DEF InChunks
      <3>3. intact' => \A at \in 0 .. len' - 1 : InDocs(at)' \/ InChunks(at)'
        BY <1>0, <2>6, <2>8, <3>1, <3>2
      <3>4. /\ docs'[Len(docs')].from = Head(ingest'.chunks).from
            /\ docs'[Len(docs')].to = Head(ingest'.chunks).to
        BY <2>2, <2>3, <2>5
      <3>5. QED
        BY <1>0, <2>4, <2>5, <3>3, <3>4 DEF TextInv
    <2>10. SeedInv'
      BY <1>0, <2>1, <2>5, <2>8 DEF KnowInv, SeedInv, textVars
    <2>11. QED
      BY <1>0, <2>1, <2>3, <2>5, <2>9, <2>10 DEF KnowInv, KnowTypes, textVars
  <1>3. QED
    BY <1>0, <1>1, <1>2 DEF KnowTypes

\* Its vector: the chunk can be retrieved, the others are still to be stored.
LEMMA VectorKeepsText ==
    ASSUME KnowInv, StoreVector
    PROVE  KnowInv'
  <1>0. /\ ingest.step = "vector" /\ ingest.chunks # <<>>
        /\ UNCHANGED <<textVars, base, bundle, intact, kept>>
        /\ ingest' = [ingest EXCEPT !.step = "row", !.chunks = Tail(ingest.chunks)]
        /\ ingest \in IngestRec /\ ingest.chunks \in Seq(Chunk) /\ docs \in Seq(DocRec)
        /\ KnowTypes
    BY DEF StoreVector, KnowInv, KnowTypes, IngestRec, TextInv
  <1>1. /\ Tail(ingest.chunks) \in Seq(Chunk) /\ Len(ingest.chunks) \in Nat
        /\ Len(Tail(ingest.chunks)) = Len(ingest.chunks) - 1
        /\ \A k \in 1 .. Len(Tail(ingest.chunks)) : Tail(ingest.chunks)[k] = ingest.chunks[k + 1]
        /\ DOMAIN ingest.chunks = 1 .. Len(ingest.chunks)
        /\ DOMAIN Tail(ingest.chunks) = 1 .. Len(Tail(ingest.chunks))
        /\ Head(ingest.chunks) = ingest.chunks[1]
    BY <1>0, HeadTailProperties, LenProperties
  <1>2. ingest' \in IngestRec /\ ingest'.step = "row" /\ ingest'.chunks = Tail(ingest.chunks)
    BY <1>0, <1>1 DEF IngestRec
  <1>3. UNCHANGED len
    BY <1>0 DEF textVars
  <1>4. CASE docs = <<>>
    <2>1. UNCHANGED docs
      BY <1>4 DEF StoreVector
    <2>2. ~intact
      BY <1>0, <1>4 DEF KnowInv, TextInv
    <2>3. TextInv'
      BY <1>0, <1>2, <2>2 DEF TextInv
    <2>4. SeedInv'
      BY <1>0, <1>2, <2>1 DEF KnowInv, SeedInv, textVars, AllRetrievable, Retrievable
    <2>5. QED
      BY <1>0, <1>2, <2>1, <2>3, <2>4 DEF KnowInv, KnowTypes, textVars
  <1>5. CASE docs # <<>>
    <2> DEFINE last == Len(docs)
               row == [docs[last] EXCEPT !.vector = TRUE]
    <2>1. last \in Nat \ {0} /\ last \in 1 .. Len(docs) /\ DOMAIN docs = 1 .. Len(docs)
      BY <1>0, <1>5, LenProperties, EmptySeq
    <2>2. docs' = [docs EXCEPT ![last] = row]
      BY <1>5 DEF StoreVector
    <2>3. docs[last] \in DocRec
      BY <1>0, <2>1, ElementOfSeq
    <2>4. /\ row \in DocRec /\ row.vector = TRUE
          /\ row.from = docs[last].from /\ row.to = docs[last].to
      BY <2>3 DEF DocRec
    <2> HIDE DEF row, last
    <2>5. docs' \in Seq(DocRec) /\ DOMAIN docs' = DOMAIN docs /\ docs'[last] = row
          /\ \A d \in DOMAIN docs \ {last} : docs'[d] = docs[d]
      BY <1>0, <2>1, <2>2, <2>4, ExceptSeq, LenProperties
    <2>6. /\ DOMAIN docs \subseteq DOMAIN docs'
          /\ \A d \in DOMAIN docs :
                /\ docs'[d].from = docs[d].from /\ docs'[d].to = docs[d].to
                /\ docs[d].vector => docs'[d].vector
      BY <2>4, <2>5
    <2>7. /\ \A at \in 0 .. len - 1 : InDocs(at) => InDocs(at)'
          /\ AllRetrievable => AllRetrievable'
      BY <1>0, <1>3, <2>6, DocsGrow
    <2>8. ASSUME intact, NEW at \in 0 .. len - 1
          PROVE  InDocs(at)' \/ InChunks(at)'
      <3>1. CASE InDocs(at)
        BY <2>7, <3>1
      <3>2. CASE InChunks(at)
        <4>1. PICK k \in DOMAIN ingest.chunks : Spans(ingest.chunks[k], at)
          BY <3>2 DEF InChunks
        <4>2. CASE k = 1
          <5>1. /\ docs[last].from = ingest.chunks[1].from
                /\ docs[last].to = ingest.chunks[1].to
            BY <1>0, <1>1, <2>8 DEF KnowInv, TextInv, last
          <5>2. Spans(docs'[last], at)
            BY <2>4, <2>5, <4>1, <4>2, <5>1 DEF Spans
          <5>3. last \in Retrievable'
            BY <2>1, <2>4, <2>5 DEF Retrievable
          <5>4. QED
            BY <5>2, <5>3 DEF InDocs, Spans
        <4>3. CASE k # 1
          <5>1. k - 1 \in DOMAIN ingest'.chunks /\ ingest'.chunks[k - 1] = ingest.chunks[k]
            BY <1>1, <1>2, <4>3
          <5>2. QED
            BY <4>1, <5>1 DEF InChunks, Spans
        <4>4. QED
          BY <4>2, <4>3
      <3>3. QED
        BY <1>0, <2>8, <3>1, <3>2 DEF KnowInv, TextInv
    <2>9. TextInv'
      BY <1>0, <1>2, <1>3, <2>8 DEF TextInv
    <2>10. SeedInv'
      BY <1>0, <1>2, <2>7 DEF KnowInv, SeedInv, textVars
    <2>11. QED
      BY <1>0, <1>2, <2>5, <2>9, <2>10 DEF KnowInv, KnowTypes, textVars
  <1>6. QED
    BY <1>4, <1>5

\* A text begins to be ingested, or is stored whole without an embeddings client.
LEMMA StartKeepsText ==
    ASSUME KnowInv, StartIngest
    PROVE  KnowInv'
  <1>0. /\ base /\ intact' = TRUE /\ UNCHANGED <<textVars, base, kept>>
        /\ docs \in Seq(DocRec) /\ KnowTypes /\ len \in Nat
        /\ bundle \in [of : {"none"} \cup Vertical, part : Nat]
    BY DEF StartIngest, KnowInv, KnowTypes
  <1>1. CASE embeds
    <2>1. ingest' = [Idle_ EXCEPT !.step = "cut"] /\ UNCHANGED <<docs, bundle>>
      BY <1>1 DEF StartIngest
    <2>2. ingest' \in IngestRec /\ ingest'.step = "cut" /\ ingest'.i = 0
      BY <2>1, EmptySeq DEF Idle_, IngestRec
    <2>3. TextInv'
      BY <2>2 DEF TextInv
    <2>4. SeedInv'
      BY <1>0, <2>1 DEF KnowInv, SeedInv, textVars, AllRetrievable, Retrievable
    <2>5. QED
      BY <1>0, <2>1, <2>2, <2>3, <2>4 DEF KnowInv, KnowTypes, textVars
  <1>2. CASE ~embeds
    <2> DEFINE new == [from |-> 0, to |-> len, vector |-> FALSE]
    <2>1. docs' = Append(docs, new) /\ ingest' = Idle_ /\ SeedDone
      BY <1>2 DEF StartIngest
    <2>2. new \in DocRec
      BY <1>0 DEF DocRec
    <2> HIDE DEF new
    <2>3. docs' \in Seq(DocRec)
      BY <1>0, <2>1, <2>2, AppendProperties
    <2>4. Idle_ \in IngestRec /\ Idle_.step = "idle"
      BY EmptySeq DEF Idle_, IngestRec
    <2>5. bundle' \in [of : {"none"} \cup Vertical, part : Nat]
      BY <1>0, <2>1 DEF SeedDone
    <2>6. TextInv'
      BY <2>1, <2>4 DEF TextInv
    <2>7. SeedInv'
      BY <1>0, <1>2, <2>1, <2>4 DEF SeedInv, textVars
    <2>8. QED
      BY <1>0, <2>1, <2>3, <2>4, <2>5, <2>6, <2>7 DEF KnowInv, KnowTypes, textVars
  <1>3. QED
    BY <1>1, <1>2

\* All chunks are stored: all of the text is retrievable, the agent may follow.
LEMMA EndKeepsText ==
    ASSUME KnowInv, EndIngest
    PROVE  KnowInv'
  <1>0. /\ ingest.step = "row" /\ ingest.chunks = <<>> /\ SeedDone
        /\ ingest' = [ingest EXCEPT !.step = "done"]
        /\ UNCHANGED <<textVars, base, docs, intact, kept>>
        /\ ingest \in IngestRec /\ bundle \in [of : {"none"} \cup Vertical, part : Nat]
    BY DEF EndIngest, KnowInv, KnowTypes
  <1>1. ingest' \in IngestRec /\ ingest'.step = "done"
    BY <1>0 DEF IngestRec
  <1>2. \A at : ~InChunks(at)
    BY <1>0 DEF InChunks
  <1>3. intact => AllRetrievable
    BY <1>0, <1>2, Retrieved DEF KnowInv, TextInv
  <1>4. AllRetrievable' <=> AllRetrievable
    BY <1>0 DEF AllRetrievable, Retrievable, textVars
  <1>5. TextInv'
    BY <1>0, <1>1, <1>3, <1>4 DEF TextInv
  <1>6. /\ bundle' \in [of : {"none"} \cup Vertical, part : Nat] /\ bundle'.of = bundle.of
        /\ bundle'.part = IF bundle.part = 1 THEN 2 ELSE bundle.part
    BY <1>0 DEF SeedDone
  <1>7. SeedInv'
    BY <1>0, <1>1, <1>3, <1>4, <1>6 DEF KnowInv, SeedInv, textVars
  <1>8. QED
    BY <1>0, <1>1, <1>5, <1>6, <1>7 DEF KnowInv, KnowTypes, textVars

\* The base and its rows are created and removed.
LEMMA BaseKeepsText ==
    ASSUME KnowInv, CreateBase \/ RemoveBase \/ \E d \in DOMAIN docs : RemoveDocument(d)
    PROVE  KnowInv'
  <1>1. CASE CreateBase
    <2>1. base' = TRUE /\ UNCHANGED <<textVars, docs, ingest, bundle, intact, kept>>
      BY <1>1 DEF CreateBase
    <2>2. KnowTypes'
      BY <2>1 DEF KnowInv, KnowTypes, textVars
    <2>3. TextInv'
      BY <2>1 DEF KnowInv, TextInv, textVars, AllRetrievable, Retrievable, InDocs, InChunks, Spans
    <2>4. SeedInv'
      BY <2>1 DEF KnowInv, SeedInv, textVars, AllRetrievable, Retrievable
    <2>5. QED
      BY <2>2, <2>3, <2>4 DEF KnowInv
  <1>2. CASE RemoveBase
    <2>1. /\ base' = FALSE /\ docs' = <<>> /\ intact' = FALSE /\ kept' = FALSE
          /\ UNCHANGED <<textVars, ingest, bundle>>
      BY <1>2 DEF RemoveBase
    <2>2. KnowTypes'
      BY <2>1, EmptySeq DEF KnowInv, KnowTypes, textVars
    <2>3. TextInv'
      BY <2>1 DEF KnowInv, TextInv, textVars, InChunks, Spans
    <2>4. SeedInv'
      BY <2>1 DEF SeedInv
    <2>5. QED
      BY <2>2, <2>3, <2>4 DEF KnowInv
  <1>3. ASSUME NEW d \in DOMAIN docs, RemoveDocument(d)
        PROVE  KnowInv'
    <2>1. /\ docs' = [i \in 1 .. Len(docs) - 1 |-> docs[IF i < d THEN i ELSE i + 1]]
          /\ intact' = FALSE /\ kept' = FALSE
          /\ UNCHANGED <<textVars, base, ingest, bundle>>
      BY <1>3 DEF RemoveDocument
    <2>2. Len(docs) \in Nat /\ DOMAIN docs = 1 .. Len(docs) /\ d \in 1 .. Len(docs)
          /\ docs \in Seq(DocRec)
      BY LenProperties DEF KnowInv, KnowTypes
    <2>3. Len(docs) - 1 \in Nat
      BY <2>2
    <2>4. \A i \in 1 .. Len(docs) - 1 : docs[IF i < d THEN i ELSE i + 1] \in DocRec
      <3>1. ASSUME NEW i \in 1 .. Len(docs) - 1
            PROVE  (IF i < d THEN i ELSE i + 1) \in 1 .. Len(docs)
        BY <2>2
      <3>2. QED
        BY <2>2, <3>1, ElementOfSeq
    <2>5. docs' \in [1 .. Len(docs) - 1 -> DocRec]
      BY <2>1, <2>4
    <2>6. docs' \in Seq(DocRec)
      BY <2>3, <2>5, SeqDef
    <2>7. KnowTypes'
      BY <2>1, <2>6 DEF KnowInv, KnowTypes, textVars
    <2>8. TextInv'
      BY <2>1 DEF KnowInv, TextInv, textVars, InChunks, Spans
    <2>9. SeedInv'
      BY <2>1 DEF SeedInv
    <2>10. QED
      BY <2>7, <2>8, <2>9 DEF KnowInv
  <1>4. QED
    BY <1>1, <1>2, <1>3

\* The parts of a bundle are created one after the other.
LEMMA BundleKeepsText ==
    ASSUME KnowInv,
           \/ \E v \in Vertical : StartBundle(v)
           \/ BundlePart \/ BundleThrows \/ BundleApplied
    PROVE  KnowInv'
  <1>0. /\ bundle \in [of : {"none"} \cup Vertical, part : Nat]
        /\ NoBundle \in [of : {"none"} \cup Vertical, part : Nat] /\ NoBundle.part = 0
    BY DEF KnowInv, KnowTypes, NoBundle
  <1>a. ASSUME bundle' \in [of : {"none"} \cup Vertical, part : Nat],
               bundle'.part = 0 \/ (bundle'.of = bundle.of /\ bundle.part > 1 /\ bundle'.part > 1),
               UNCHANGED <<textVars, base, docs, ingest, intact, kept>>
        PROVE  KnowInv'
    <2>1. KnowTypes'
      BY <1>a DEF KnowInv, KnowTypes, textVars
    <2>2. TextInv'
      BY <1>a DEF KnowInv, TextInv, textVars, AllRetrievable, Retrievable, InDocs, InChunks, Spans
    <2>3. AllRetrievable' <=> AllRetrievable
      BY <1>a DEF AllRetrievable, Retrievable, textVars
    <2>4. SeedInv'
      <3>1. CASE bundle'.part = 0
        BY <3>1 DEF SeedInv
      <3>2. CASE bundle'.of = bundle.of /\ bundle.part > 1 /\ bundle'.part > 1
        BY <1>a, <1>0, <2>3, <3>2 DEF KnowInv, SeedInv, textVars
      <3>3. QED
        BY <1>a, <3>1, <3>2
    <2>5. QED
      BY <2>1, <2>2, <2>4 DEF KnowInv
  <1>1. ASSUME NEW v \in Vertical, StartBundle(v)
        PROVE  KnowInv'
    <2> DEFINE seeded == VERTICAL_TEMPLATES[v].knowledge > 0
    <2>1. /\ bundle' = [of |-> v, part |-> IF seeded THEN 1 ELSE 2]
          /\ seeded => base' = TRUE
          /\ \/ base' = TRUE /\ docs' = <<>>
             \/ UNCHANGED <<base, docs>>
          /\ kept' = TRUE /\ ingest' = Idle_ /\ UNCHANGED <<textVars, intact>>
      BY <1>1 DEF StartBundle, StartsAt
    <2>2. Idle_ \in IngestRec /\ Idle_.step = "idle"
      BY EmptySeq DEF Idle_, IngestRec
    <2>3. seeded \in BOOLEAN
      OBVIOUS
    <2>4. /\ bundle' \in [of : {"none"} \cup Vertical, part : Nat] /\ bundle'.of = v
          /\ bundle'.part = IF seeded THEN 1 ELSE 2
      BY <2>1
    <2>5. KnowTypes'
      <3>1. base' \in BOOLEAN /\ docs' \in Seq(DocRec)
        BY <2>1, EmptySeq DEF KnowInv, KnowTypes
      <3>2. QED
        BY <2>1, <2>2, <2>4, <3>1 DEF KnowInv, KnowTypes, textVars
    <2>6. TextInv'
      BY <2>1, <2>2 DEF TextInv
    <2>7. SeedInv'
      <3>1. VERTICAL_TEMPLATES[bundle'.of].knowledge > 0 => base' /\ bundle'.part = 1
        BY <2>1, <2>4
      <3>2. ingest'.step = "idle"
        BY <2>1, <2>2
      <3> HIDE DEF seeded
      <3>3. QED
        BY <3>1, <3>2 DEF SeedInv
    <2>8. QED
      BY <2>5, <2>6, <2>7 DEF KnowInv
  <1>2. CASE BundlePart
    <2>1. /\ bundle.part > 1 /\ bundle' = [bundle EXCEPT !.part = @ + 1]
          /\ UNCHANGED <<textVars, base, docs, ingest, intact, kept>>
      BY <1>2 DEF BundlePart
    <2>2. /\ bundle' \in [of : {"none"} \cup Vertical, part : Nat] /\ bundle'.of = bundle.of
          /\ bundle'.part > 1
      <3>1. PICK n \in Nat : n = bundle.part + 1 /\ n > 1
        BY <1>0, <2>1
      <3>2. bundle' = [bundle EXCEPT !.part = n]
        BY <2>1, <3>1
      <3>3. QED
        BY <1>0, <3>1, <3>2
    <2>3. QED
      BY <1>a, <2>1, <2>2
  <1>3. CASE BundleThrows \/ BundleApplied
    <2>1. bundle' = NoBundle /\ UNCHANGED <<textVars, base, docs, ingest, intact, kept>>
      BY <1>3 DEF BundleThrows, BundleApplied
    <2>2. QED
      BY <1>0, <1>a, <2>1
  <1>4. QED
    BY <1>1, <1>2, <1>3

LEMMA KnowStep == KnowInv /\ [KnowNext]_knowVars => KnowInv'
  <1> SUFFICES ASSUME KnowInv, [KnowNext]_knowVars
               PROVE  KnowInv'
    OBVIOUS
  <1>1. CASE IngestThrows
    <2>1. ingest' = Idle_ /\ SeedFails /\ UNCHANGED <<textVars, base, docs, intact, kept>>
      BY <1>1 DEF IngestThrows
    <2>2. QED
      BY <2>1, StoppingKeeps
  <1>2. CASE UNCHANGED knowVars
    BY <1>2 DEF knowVars, KnowInv, KnowTypes, TextInv, SeedInv, AllRetrievable, Retrievable,
                InDocs, InChunks, Spans
  <1>3. CASE CreateBase \/ RemoveBase \/ \E d \in DOMAIN docs : RemoveDocument(d)
    BY <1>3, BaseKeepsText
  <1>4. CASE \/ \E v \in Vertical : StartBundle(v)
             \/ BundlePart \/ BundleThrows \/ BundleApplied
    BY <1>4, BundleKeepsText
  <1>5. QED
    BY <1>1, <1>2, <1>3, <1>4, StartKeepsText, CutKeepsText, RowKeepsText, VectorKeepsText,
       EndKeepsText DEF KnowNext

LEMMA KnowStart == KnowInit => KnowInv
  <1> SUFFICES ASSUME KnowInit
               PROVE  KnowInv
    OBVIOUS
  <1>1. Idle_ \in IngestRec /\ Idle_.step = "idle"
    BY EmptySeq DEF Idle_, IngestRec
  <1>2. NoBundle \in [of : {"none"} \cup Vertical, part : Nat] /\ NoBundle.part = 0
    BY DEF NoBundle
  <1>3. len \in Nat \ {0} /\ breaks \subseteq 1 .. len - 1 /\ docs \in Seq(DocRec)
    BY KnowledgeAssumption, EmptySeq DEF KnowInit
  <1>4. QED
    BY <1>1, <1>2, <1>3 DEF KnowInit, KnowInv, KnowTypes, TextInv, SeedInv

\* When an ingest has answered, every position of its text lies in a chunk that
\* can be retrieved, for texts of any length, any sentences and any sizes of
\* windows and overlaps (rag.service.ts: chunk, ingest).
THEOREM IngestIsComplete == KnowSpec => []IngestComplete
  <1>1. KnowInv => IngestComplete
    BY DEF KnowInv, TextInv, IngestComplete
  <1>2. QED
    BY <1>1, KnowStart, KnowStep, PTL DEF KnowSpec

\* No agent of a starter bundle is created before all of its seed can be
\* retrieved, whatever failed before (template.service.ts: apply).
THEOREM BundlesAreBacked == KnowSpec => []BundleBacked
  <1>1. KnowInv => BundleBacked
    BY DEF KnowInv, KnowTypes, SeedInv, BundleBacked
  <1>2. QED
    BY <1>1, KnowStart, KnowStep, PTL DEF KnowSpec

-----------------------------------------------------------------------------
(* Message templates. *)

TemplateRec ==
    [id : Nat, body : Body \cup {<<>>}, status : {"none", "PENDING"} \cup Verdicts]

\* Templates that claim an approval which Meta has given, or claim none.
Vouched ==
    {r \in TemplateRec : r.status = "APPROVED" => <<r.id, r.body>> \in approved}

SubmitRec ==
    [at : {"idle", "upsert", "copy"}, title : SUBSET Title,
     row : Vouched, list : [Title -> Vouched]]

\* Whatever is stored or on its way is vouched for: at Meta, in the rows, in
\* the row a request will write and in the list it copies.
MetaInv ==
    /\ ids \in Nat
    /\ meta \in [Title -> Vouched] /\ local \in [Title -> Vouched]
    /\ submit \in [Author -> SubmitRec]

LEMMA NothingVouched == NoTemplate \in Vouched /\ NoSubmit \in SubmitRec
  <1>1. NoTemplate \in Vouched
    BY DEF NoTemplate, Vouched, TemplateRec
  <1>2. [t \in Title |-> NoTemplate] \in [Title -> Vouched]
    BY <1>1
  <1>3. QED
    BY <1>1, <1>2 DEF NoSubmit, SubmitRec

\* What was approved stays approved, so a copy stays vouched for.
LEMMA ApprovalsStay ==
    ASSUME approved \subseteq approved'
    PROVE  Vouched \subseteq Vouched' /\ SubmitRec \subseteq SubmitRec'
  <1>1. Vouched \subseteq Vouched'
    BY DEF Vouched
  <1>2. [Title -> Vouched] \subseteq [Title -> Vouched']
    BY <1>1
  <1>3. ASSUME NEW s \in SubmitRec
        PROVE  s \in SubmitRec'
    <2>1. s.list \in [Title -> Vouched'] /\ s.row \in Vouched'
      BY <1>1, <1>2, <1>3 DEF SubmitRec
    <2>2. QED
      BY <1>3, <2>1 DEF SubmitRec
  <1>4. QED
    BY <1>1, <1>3

\* Meta holds another template: an approval is in the history at once.
LEMMA HoldsKeepsVouched ==
    ASSUME MetaInv, NEW t \in Title, NEW template \in TemplateRec, Holds(t, template)
    PROVE  /\ approved \subseteq approved'
           /\ template \in Vouched'
           /\ meta' \in [Title -> Vouched']
  <1>1. approved \subseteq approved'
    BY DEF Holds
  <1>2. template \in Vouched'
    BY DEF Holds, Vouched
  <1>3. meta \in [Title -> Vouched']
    BY <1>1, ApprovalsStay DEF MetaInv
  <1>4. QED
    BY <1>1, <1>2, <1>3 DEF Holds

\* A step at Meta moves no row and no request.
LEMMA MetaKeepsVouched ==
    ASSUME MetaInv, NEW t \in Title, NEW template \in TemplateRec, Holds(t, template),
           UNCHANGED <<ids, local, submit>>
    PROVE  MetaInv'
  <1>1. /\ approved \subseteq approved'
        /\ meta' \in [Title -> Vouched']
    BY HoldsKeepsVouched
  <1>2. Vouched \subseteq Vouched' /\ SubmitRec \subseteq SubmitRec'
    BY <1>1, ApprovalsStay
  <1>3. local \in [Title -> Vouched'] /\ submit \in [Author -> SubmitRec']
    BY <1>2 DEF MetaInv
  <1>4. QED
    BY <1>1, <1>3 DEF MetaInv

\* A step of a request that Meta takes no part in.
LEMMA RequestKeepsVouched ==
    ASSUME MetaInv, NEW a \in Author, NEW s \in SubmitRec,
           submit' = [submit EXCEPT ![a] = s], UNCHANGED <<meta, ids, approved>>,
           local' \in [Title -> Vouched]
    PROVE  MetaInv'
  <1>1. Vouched' = Vouched
    BY DEF Vouched
  <1>2. SubmitRec' = SubmitRec
    BY <1>1 DEF SubmitRec
  <1>3. submit' \in [Author -> SubmitRec]
    BY DEF MetaInv
  <1>4. QED
    BY <1>1, <1>2, <1>3 DEF MetaInv

LEMMA TemplatesKeepVouched == MetaInv /\ [MetaNext]_metaVars => MetaInv'
  <1> SUFFICES ASSUME MetaInv, [MetaNext]_metaVars
               PROVE  MetaInv'
    OBVIOUS
  <1>0. /\ \A t \in Title : meta[t] \in TemplateRec /\ local[t] \in Vouched
        /\ \A a \in Author : submit[a] \in SubmitRec
        /\ ids \in Nat /\ local \in [Title -> Vouched] /\ meta \in [Title -> Vouched]
    BY DEF MetaInv, Vouched
  <1>a. NoTemplate \in TemplateRec
    BY NothingVouched DEF Vouched
  <1>1. ASSUME NEW t \in Title, Review(t)
        PROVE  MetaInv'
    <2>1. PICK v \in Verdicts : Holds(t, [meta[t] EXCEPT !.status = v])
      BY <1>1 DEF Review
    <2>2. [meta[t] EXCEPT !.status = v] \in TemplateRec
      BY <1>0 DEF TemplateRec
    <2>3. UNCHANGED <<ids, local, submit>>
      BY <1>1 DEF Review
    <2>4. QED
      BY <2>1, <2>2, <2>3, MetaKeepsVouched
  <1>2. ASSUME NEW t \in Title, DeleteAtMeta(t)
        PROVE  MetaInv'
    <2>1. Holds(t, NoTemplate) /\ UNCHANGED <<ids, local, submit>>
      BY <1>2 DEF DeleteAtMeta
    <2>2. QED
      BY <1>a, <2>1, MetaKeepsVouched
  <1>3. ASSUME NEW t \in Title, NEW b \in Body, EditAtMeta(t, b)
        PROVE  MetaInv'
    <2>1. /\ Holds(t, [meta[t] EXCEPT !.body = b, !.status = "PENDING"])
          /\ UNCHANGED <<ids, local, submit>>
      BY <1>3 DEF EditAtMeta
    <2>2. [meta[t] EXCEPT !.body = b, !.status = "PENDING"] \in TemplateRec
      BY <1>0 DEF TemplateRec
    <2>3. QED
      BY <2>1, <2>2, MetaKeepsVouched
  <1>4. ASSUME NEW a \in Author, UpsertRow(a)
        PROVE  MetaInv'
    <2>1. PICK t \in submit[a].title : local' = [local EXCEPT ![t] = submit[a].row]
      BY <1>4 DEF UpsertRow
    <2>2. submit[a].row \in Vouched
      BY <1>0 DEF SubmitRec
    <2>3. local' \in [Title -> Vouched]
      BY <1>0, <2>1, <2>2
    <2>4. submit' = [submit EXCEPT ![a] = NoSubmit] /\ UNCHANGED <<meta, ids, approved>>
      BY <1>4 DEF UpsertRow
    <2>5. QED
      BY <2>3, <2>4, NothingVouched, RequestKeepsVouched
  <1>5. ASSUME NEW a \in Author, AnswerLost(a)
        PROVE  MetaInv'
    <2> DEFINE row == [submit[a].row EXCEPT !.id = 0, !.status = "REJECTED"]
               s == [submit[a] EXCEPT !.row = row]
    <2>1. submit' = [submit EXCEPT ![a] = s]
      BY <1>5 DEF AnswerLost
    <2>2. row \in Vouched
      <3>1. submit[a].row \in TemplateRec
        BY <1>0 DEF SubmitRec, Vouched
      <3>2. row \in TemplateRec /\ row.status = "REJECTED"
        BY <3>1 DEF TemplateRec, Verdicts
      <3>3. QED
        BY <3>2 DEF Vouched
    <2> HIDE DEF row
    <2>3. s \in SubmitRec
      BY <1>0, <2>2 DEF SubmitRec
    <2>4. UNCHANGED <<meta, ids, local, approved>>
      BY <1>5 DEF AnswerLost
    <2> HIDE DEF s
    <2>5. QED
      BY <1>0, <2>1, <2>3, <2>4, RequestKeepsVouched
  <1>6. ASSUME NEW a \in Author, FetchList(a)
        PROVE  MetaInv'
    <2> DEFINE s == [at |-> "copy", title |-> {t \in Title : meta[t] # NoTemplate},
                     row |-> NoTemplate, list |-> meta]
    <2>1. submit' = [submit EXCEPT ![a] = s] /\ UNCHANGED <<meta, ids, local, approved>>
      BY <1>6 DEF FetchList
    <2>2. s \in SubmitRec
      BY <1>0, NothingVouched DEF SubmitRec
    <2> HIDE DEF s
    <2>3. QED
      BY <1>0, <2>1, <2>2, RequestKeepsVouched
  <1>7. ASSUME NEW a \in Author, SubmitEnds(a)
        PROVE  MetaInv'
    <2>1. submit' = [submit EXCEPT ![a] = NoSubmit] /\ UNCHANGED <<meta, ids, local, approved>>
      BY <1>7 DEF SubmitEnds
    <2>2. QED
      BY <1>0, <2>1, NothingVouched, RequestKeepsVouched
  <1>8. ASSUME NEW a \in Author, NEW t \in Title, CopyRow(a, t)
        PROVE  MetaInv'
    <2> DEFINE s == [submit[a] EXCEPT !.title = @ \ {t}]
    <2>1. submit' = [submit EXCEPT ![a] = s] /\ UNCHANGED <<meta, ids, approved>>
      BY <1>0, <1>8 DEF CopyRow
    <2>2. s \in SubmitRec /\ submit[a].list[t] \in Vouched
      BY <1>0 DEF SubmitRec
    <2>3. local' \in [Title -> Vouched]
      BY <1>0, <1>8, <2>2 DEF CopyRow
    <2> HIDE DEF s
    <2>4. QED
      BY <2>1, <2>2, <2>3, RequestKeepsVouched
  <1>9. ASSUME NEW a \in Author, NEW t \in Title, NEW b \in Body, PostTaken(a, t, b)
        PROVE  MetaInv'
    <2>1. PICK status \in {"PENDING", "APPROVED"} :
              LET template == [id |-> ids + 1, body |-> b, status |-> status] IN
              /\ Holds(t, template)
              /\ submit' = [submit EXCEPT ![a] =
                    [at |-> "upsert", title |-> {t}, row |-> template, list |-> NoSubmit.list]]
      BY <1>9 DEF PostTaken
    <2> DEFINE template == [id |-> ids + 1, body |-> b, status |-> status]
               s == [at |-> "upsert", title |-> {t}, row |-> template, list |-> NoSubmit.list]
    <2>2. template \in TemplateRec
      BY <1>0 DEF TemplateRec, Verdicts
    <2>3. Holds(t, template) /\ submit' = [submit EXCEPT ![a] = s]
      BY <2>1
    <2>4. ids' \in Nat /\ UNCHANGED local
      BY <1>0, <1>9 DEF PostTaken
    <2> HIDE DEF template
    <2>5. approved \subseteq approved' /\ template \in Vouched' /\ meta' \in [Title -> Vouched']
      BY <2>2, <2>3, HoldsKeepsVouched
    <2>6. Vouched \subseteq Vouched' /\ SubmitRec \subseteq SubmitRec'
      BY <2>5, ApprovalsStay
    <2>7. NoSubmit.list \in [Title -> Vouched]
      BY NothingVouched DEF SubmitRec
    <2>8. s \in SubmitRec'
      BY <2>5, <2>6, <2>7 DEF SubmitRec
    <2> HIDE DEF s
    <2>9. submit' \in [Author -> SubmitRec'] /\ local' \in [Title -> Vouched']
      BY <2>3, <2>4, <2>6, <2>8 DEF MetaInv
    <2>10. QED
      BY <2>4, <2>5, <2>9 DEF MetaInv
  <1>10. ASSUME NEW a \in Author, NEW t \in Title, NEW b \in Body, PostRefused(a, t, b)
        PROVE  MetaInv'
    <2> DEFINE s == [at |-> "upsert", title |-> {t},
                     row |-> [id |-> 0, body |-> b, status |-> "REJECTED"],
                     list |-> NoSubmit.list]
    <2>1. submit' = [submit EXCEPT ![a] = s] /\ UNCHANGED <<meta, ids, local, approved>>
      BY <1>10 DEF PostRefused
    <2>2. [id |-> 0, body |-> b, status |-> "REJECTED"] \in Vouched
      BY DEF Vouched, TemplateRec, Verdicts
    <2>3. NoSubmit.list \in [Title -> Vouched]
      BY NothingVouched DEF SubmitRec
    <2>4. s \in SubmitRec
      BY <2>2, <2>3 DEF SubmitRec
    <2> HIDE DEF s
    <2>5. QED
      BY <1>0, <2>1, <2>4, RequestKeepsVouched
  <1>11. CASE UNCHANGED metaVars
    BY <1>11 DEF metaVars, MetaInv, Vouched, SubmitRec
  <1>12. QED
    BY <1>1, <1>2, <1>3, <1>4, <1>5, <1>6, <1>7, <1>8, <1>9, <1>10, <1>11 DEF MetaNext

\* A local row that says APPROVED carries the id and the content of a template
\* Meta approved, for any number of requests, names and forms at a time
\* (templates-meta.service.ts: submit, syncFromMeta).
THEOREM ApprovedRowsAreApproved == MetaSpec => []ApprovedAsSent
  <1>1. MetaInit => MetaInv
    <2> SUFFICES ASSUME MetaInit
                 PROVE  MetaInv
      OBVIOUS
    <2>1. \A n \in {NoTemplate} : n \in Vouched
      BY NothingVouched
    <2>2. [t \in Title |-> NoTemplate] \in [Title -> Vouched]
      BY <2>1
    <2>3. [a \in Author |-> NoSubmit] \in [Author -> SubmitRec]
      BY NothingVouched
    <2>4. QED
      BY <2>2, <2>3 DEF MetaInit, MetaInv
  <1>2. MetaInv => ApprovedAsSent
    BY DEF MetaInv, Vouched, ApprovedAsSent
  <1>3. QED
    BY <1>1, <1>2, TemplatesKeepVouched, PTL DEF MetaSpec

-----------------------------------------------------------------------------
(* The flow editor. *)

FlowRec == [loaded : BOOLEAN, nodes : SUBSET Nat, version : Nat]
CanvasRec == [open : BOOLEAN, nodes : SUBSET Nat, base : Nat, last : Nat]
SaveRec == [id : Nat \ {0}, tab : Tab, nodes : SUBSET Nat]

EditorTypes ==
    /\ flow \in FlowRec /\ added \in Nat /\ posted \in Nat /\ crossed \in BOOLEAN
    /\ editor \in [Tab -> CanvasRec] /\ query \in [Tab -> FlowRec]
    /\ answer \in [Tab -> [at : {"none", "asked", "answered"}, data : FlowRec]]
    /\ saves \subseteq SaveRec /\ \A s \in saves : s.id <= posted
    /\ \A s, r \in saves : s.id = r.id => s = r

\* Data of the stored flow: of an earlier version, or what is stored now.
Faithful(d) ==
    d.version <= flow.version /\ (d.version = flow.version => d.nodes = flow.nodes)

\* A canvas that was filled from the stored flow, or stored by its last save,
\* still has what was not deleted from it; so has one whose save is under way.
CanvasInv(t) ==
    /\ editor[t].base <= flow.version
    /\ editor[t].base = flow.version => flow.nodes \ deleted \subseteq editor[t].nodes
    /\ \A s \in saves : s.tab = t /\ s.id = editor[t].last =>
          s.nodes \ deleted \subseteq editor[t].nodes

\* While nobody saved from an outdated canvas, one save at a time is under way,
\* and it has all that was saved before.
SavedInv ==
    ~crossed => \/ saves = {} /\ saved \ deleted \subseteq flow.nodes
                \/ \E s \in saves : saves = {s} /\ saved \ deleted \subseteq s.nodes

EditorInv ==
    /\ EditorTypes
    /\ flow.version = 0 => flow.nodes = {}
    /\ \A t \in Tab : Faithful(query[t]) /\ Faithful(answer[t].data) /\ CanvasInv(t)
    /\ SavedInv

\* A field of a canvas, of the stored flow, is written.
LEMMA FieldsWritten ==
    /\ \A c \in CanvasRec, n \in Nat :
          /\ [c EXCEPT !.last = n] \in CanvasRec /\ [c EXCEPT !.last = n].last = n
          /\ [c EXCEPT !.last = n].base = c.base /\ [c EXCEPT !.last = n].nodes = c.nodes
    /\ \A f \in FlowRec :
          /\ [f EXCEPT !.loaded = TRUE] \in FlowRec
          /\ [f EXCEPT !.loaded = TRUE].nodes = f.nodes
          /\ [f EXCEPT !.loaded = TRUE].version = f.version /\ f.version \in Nat
  BY DEF CanvasRec, FlowRec

\* What fills a canvas is faithful, and so is the empty canvas.
LEMMA FilledCanvas ==
    ASSUME EditorInv, NEW d \in FlowRec, Faithful(d)
    PROVE  /\ Filled(d) \in CanvasRec /\ Filled(d).last = 0
           /\ Filled(d).base <= flow.version
           /\ Filled(d).base = flow.version => flow.nodes \subseteq Filled(d).nodes
  BY DEF EditorInv, EditorTypes, Faithful, Filled, FlowRec, CanvasRec

LEMMA NothingLoaded ==
    ASSUME EditorInv
    PROVE  /\ NoData \in FlowRec /\ Faithful(NoData)
           /\ Closed \in CanvasRec /\ Closed.last = 0 /\ Closed.base = 0
           /\ NoAnswer = [at |-> "none", data |-> NoData]
  BY DEF EditorInv, EditorTypes, Faithful, NoData, NoAnswer, Closed, FlowRec, CanvasRec

\* A page asks, reads or forgets: no canvas changes.
LEMMA ReadKeepsEditor ==
    ASSUME EditorInv, query' \in [Tab -> FlowRec],
           answer' \in [Tab -> [at : {"none", "asked", "answered"}, data : FlowRec]],
           \A t \in Tab : Faithful(query'[t]) /\ Faithful(answer'[t].data),
           UNCHANGED <<flow, added, saves, posted, saved, deleted, crossed>>,
           \/ UNCHANGED editor
           \/ \E t \in Tab, c \in CanvasRec :
                 /\ editor' = [editor EXCEPT ![t] = c]
                 /\ c.last = 0 /\ c.base <= flow.version
                 /\ c.base = flow.version => flow.nodes \subseteq c.nodes
    PROVE  EditorInv'
  <1>1. EditorTypes' /\ \A t \in Tab : CanvasInv(t)'
    <2>1. CASE UNCHANGED editor
      BY <2>1 DEF EditorInv, EditorTypes, CanvasInv
    <2>2. ASSUME NEW t \in Tab, NEW c \in CanvasRec, editor' = [editor EXCEPT ![t] = c],
                 c.last = 0, c.base <= flow.version,
                 c.base = flow.version => flow.nodes \subseteq c.nodes
          PROVE  EditorTypes' /\ \A u \in Tab : CanvasInv(u)'
      <3>1. editor' \in [Tab -> CanvasRec]
        BY <2>2 DEF EditorInv, EditorTypes
      <3>2. EditorTypes'
        BY <3>1 DEF EditorInv, EditorTypes
      <3>3. ASSUME NEW u \in Tab
            PROVE  CanvasInv(u)'
        <4>1. CASE u = t
          <5>1. editor'[u] = c
            BY <2>2, <4>1 DEF EditorInv, EditorTypes
          <5>2. \A s \in saves : s.id # 0
            BY DEF EditorInv, EditorTypes, SaveRec
          <5>3. QED
            BY <2>2, <5>1, <5>2 DEF CanvasInv
        <4>2. CASE u # t
          <5>1. editor'[u] = editor[u]
            BY <2>2, <4>2 DEF EditorInv, EditorTypes
          <5>2. QED
            BY <5>1 DEF EditorInv, CanvasInv
        <4>3. QED
          BY <4>1, <4>2
      <3>4. QED
        BY <3>2, <3>3
    <2>3. QED
      BY <2>1, <2>2
  <1>2. \A t \in Tab : Faithful(query[t])' /\ Faithful(answer[t].data)'
    BY DEF Faithful
  <1>3. SavedInv' /\ (flow.version = 0 => flow.nodes = {})'
    BY DEF EditorInv, SavedInv
  <1>4. QED
    BY <1>1, <1>2, <1>3 DEF EditorInv

\* A node is added to a canvas, changed or deleted.
LEMMA EditKeepsEditor ==
    ASSUME EditorInv, NEW t \in Tab, NEW N \in SUBSET Nat,
           editor' = [editor EXCEPT ![t].nodes = N], added' \in Nat,
           deleted \subseteq deleted', editor[t].nodes \ deleted' \subseteq N,
           UNCHANGED <<flow, query, answer, saves, posted, saved, crossed>>
    PROVE  EditorInv'
  <1> USE DEF EditorInv, EditorTypes
  <1>1. editor'[t] = [editor[t] EXCEPT !.nodes = N] /\ editor[t] \in CanvasRec
    OBVIOUS
  <1>2. editor' \in [Tab -> CanvasRec]
    BY <1>1 DEF CanvasRec
  <1>3. /\ editor'[t].base = editor[t].base /\ editor'[t].last = editor[t].last
        /\ editor'[t].nodes = N
    BY <1>1 DEF CanvasRec
  <1>4. ASSUME NEW u \in Tab
        PROVE  CanvasInv(u)'
    <2>1. CASE u = t
      BY <1>3, <2>1 DEF CanvasInv
    <2>2. CASE u # t
      <3>1. editor'[u] = editor[u]
        BY <2>2
      <3>2. QED
        BY <3>1 DEF CanvasInv
    <2>3. QED
      BY <2>1, <2>2
  <1>5. SavedInv'
    <2>1. saved \ deleted' \subseteq saved \ deleted
      OBVIOUS
    <2>2. QED
      BY <2>1 DEF SavedInv
  <1>6. QED
    BY <1>2, <1>4, <1>5 DEF Faithful

LEMMA PersistKeepsEditor ==
    ASSUME EditorInv, NEW t \in Tab, Persist(t)
    PROVE  EditorInv'
  <1> USE DEF EditorInv, EditorTypes
  <1> DEFINE save == [id |-> posted + 1, tab |-> t, nodes |-> editor[t].nodes]
  <1>1. /\ saves' = saves \cup {save} /\ posted' = posted + 1
        /\ saved' = saved \cup editor[t].nodes
        /\ crossed' = (crossed \/ editor[t].base # flow.version \/ saves # {})
        /\ editor' = [editor EXCEPT ![t].last = posted + 1]
        /\ UNCHANGED <<flow, added, query, answer, deleted>>
    BY DEF Persist
  <1>2. save \in SaveRec /\ save.id = posted + 1 /\ save.tab = t /\ save.nodes = editor[t].nodes
    BY DEF SaveRec, CanvasRec
  <1> HIDE DEF save
  <1>3. editor'[t] = [editor[t] EXCEPT !.last = posted + 1] /\ editor[t] \in CanvasRec
    BY <1>1
  <1>4. editor' \in [Tab -> CanvasRec]
    <2>1. PICK c \in CanvasRec, n \in Nat : c = editor[t] /\ n = posted + 1
      BY <1>3
    <2>2. [c EXCEPT !.last = n] \in CanvasRec
      BY FieldsWritten
    <2>3. editor' = [editor EXCEPT ![t] = [c EXCEPT !.last = n]]
      BY <1>1, <2>1
    <2>4. QED
      BY <2>2, <2>3
  <1>5. /\ editor'[t].base = editor[t].base /\ editor'[t].last = posted + 1
        /\ editor'[t].nodes = editor[t].nodes
    BY <1>3, FieldsWritten
  <1>6. \A s \in saves : s.id <= posted /\ s.id \in Nat
    BY DEF SaveRec
  <1>7. EditorTypes'
    <2>1. saves' \subseteq SaveRec
      BY <1>1, <1>2
    <2>2. /\ \A s \in saves' : s.id <= posted'
          /\ \A s, r \in saves' : s.id = r.id => s = r
      BY <1>1, <1>2, <1>6
    <2>3. crossed' \in BOOLEAN
      BY <1>1
    <2>4. QED
      BY <1>1, <1>4, <2>1, <2>2, <2>3
  <1>8. ASSUME NEW u \in Tab
        PROVE  CanvasInv(u)'
    <2>1. CASE u = t
      BY <1>1, <1>2, <1>5, <1>6, <2>1 DEF CanvasInv
    <2>2. CASE u # t
      <3>1. editor'[u] = editor[u]
        BY <1>1, <2>2
      <3>2. QED
        BY <1>1, <1>2, <2>2, <3>1 DEF CanvasInv
    <2>3. QED
      BY <2>1, <2>2
  <1>9. SavedInv'
    <2> SUFFICES ASSUME ~crossed'
                 PROVE  saves' = {save} /\ saved' \ deleted' \subseteq save.nodes
      BY <1>1 DEF SavedInv
    <2>1. ~crossed /\ editor[t].base = flow.version /\ saves = {}
      BY <1>1
    <2>2. saved \ deleted \subseteq flow.nodes
      BY <2>1 DEF SavedInv
    <2>3. flow.nodes \ deleted \subseteq editor[t].nodes
      BY <2>1 DEF CanvasInv
    <2>4. QED
      BY <1>1, <1>2, <2>1, <2>2, <2>3
  <1>10. QED
    BY <1>1, <1>7, <1>8, <1>9 DEF Faithful

LEMMA UpdateKeepsEditor ==
    ASSUME EditorInv, NEW save \in saves, UpdateFlow(save)
    PROVE  EditorInv'
  <1> USE DEF EditorInv, EditorTypes
  <1> DEFINE t == save.tab
  <1>1. /\ saves' = saves \ {save}
        /\ flow' = [flow EXCEPT !.nodes = save.nodes, !.version = @ + 1]
        /\ editor' = IF editor[t].last = save.id
                     THEN [editor EXCEPT ![t].base = flow.version + 1] ELSE editor
        /\ UNCHANGED <<added, query, answer, posted, saved, deleted, crossed>>
    BY DEF UpdateFlow
  <1>2. t \in Tab /\ save.nodes \in SUBSET Nat
    BY DEF SaveRec
  <1>3. flow' \in FlowRec /\ flow'.nodes = save.nodes /\ flow'.version = flow.version + 1
    <2> DEFINE written == [flow EXCEPT !.nodes = save.nodes]
    <2>1. written \in FlowRec /\ written.nodes = save.nodes /\ written.version = flow.version
      BY <1>2 DEF FlowRec
    <2>2. flow' = [written EXCEPT !.version = flow.version + 1] /\ flow.version \in Nat
      BY <1>1 DEF FlowRec
    <2> HIDE DEF written
    <2>3. QED
      BY <2>1, <2>2 DEF FlowRec
  <1>4. flow.version \in Nat /\ \A u \in Tab : editor[u] \in CanvasRec /\ editor[u].base \in Nat
    BY DEF FlowRec, CanvasRec
  <1>5. ASSUME editor[t].last = save.id
        PROVE  /\ editor'[t] = [editor[t] EXCEPT !.base = flow.version + 1]
               /\ editor'[t].nodes = editor[t].nodes /\ editor'[t].last = editor[t].last
               /\ editor'[t].base = flow.version + 1 /\ editor'[t] \in CanvasRec
    <2>1. editor'[t] = [editor[t] EXCEPT !.base = flow.version + 1]
      BY <1>1, <1>2, <1>5
    <2>2. QED
      BY <1>2, <1>4, <2>1 DEF CanvasRec
  <1>6. ASSUME NEW u \in Tab, u # t \/ editor[t].last # save.id
        PROVE  editor'[u] = editor[u]
    BY <1>1, <1>6
  <1>7. EditorTypes'
    <2>1. \A u \in Tab : editor'[u] \in CanvasRec
      BY <1>4, <1>5, <1>6
    <2>2. DOMAIN editor' = Tab /\ editor' = [u \in Tab |-> editor'[u]]
      BY <1>1
    <2>3. editor' \in [Tab -> CanvasRec]
      BY <2>1, <2>2
    <2>4. QED
      BY <1>1, <1>3, <2>3
  <1>8. ASSUME NEW d \in FlowRec, Faithful(d)
        PROVE  Faithful(d)'
    BY <1>3, <1>4, <1>8 DEF Faithful, FlowRec
  <1>9. ASSUME NEW u \in Tab
        PROVE  CanvasInv(u)'
    <2>1. CASE u = t /\ editor[t].last = save.id
      <3>1. save.nodes \ deleted \subseteq editor[t].nodes
        BY <1>2, <2>1 DEF CanvasInv
      <3>2. \A s \in saves' : s.id # save.id
        BY <1>1
      <3>3. QED
        BY <1>1, <1>3, <1>4, <1>5, <2>1, <3>1, <3>2 DEF CanvasInv
    <2>2. CASE u # t \/ editor[t].last # save.id
      <3>1. editor'[u] = editor[u] /\ editor[u].base <= flow.version
        BY <1>6, <2>2 DEF CanvasInv
      <3>2. editor'[u].base < flow'.version
        BY <1>3, <1>4, <3>1
      <3>3. editor'[u].base <= flow'.version /\ editor'[u].base # flow'.version
        BY <1>3, <1>4, <3>1
      <3>4. QED
        BY <1>1, <3>1, <3>3 DEF CanvasInv
    <2>3. QED
      BY <2>1, <2>2
  <1>10. SavedInv'
    BY <1>1, <1>3 DEF SavedInv
  <1>11. \A u \in Tab : Faithful(query[u])' /\ Faithful(answer[u].data)'
    <2>1. \A u \in Tab : /\ query[u] \in FlowRec /\ answer[u].data \in FlowRec
                         /\ Faithful(query[u]) /\ Faithful(answer[u].data)
      OBVIOUS
    <2>2. UNCHANGED <<query, answer>>
      BY <1>1
    <2>3. QED
      BY <1>8, <2>1, <2>2 DEF Faithful
  <1>12. flow'.version # 0
    BY <1>3, <1>4
  <1>13. QED
    BY <1>7, <1>9, <1>10, <1>11, <1>12

LEMMA EditorStep == EditorInv /\ [EditNext]_editVars => EditorInv'
  <1> SUFFICES ASSUME EditorInv, [EditNext]_editVars
               PROVE  EditorInv'
    OBVIOUS
  <1>a. /\ \A t \in Tab : /\ editor[t] \in CanvasRec /\ query[t] \in FlowRec
                          /\ answer[t].data \in FlowRec
                          /\ Faithful(query[t]) /\ Faithful(answer[t].data)
        /\ flow \in FlowRec /\ added \in Nat
        /\ query \in [Tab -> FlowRec]
        /\ answer \in [Tab -> [at : {"none", "asked", "answered"}, data : FlowRec]]
    BY DEF EditorInv, EditorTypes
  <1>b. NoData \in FlowRec /\ Faithful(NoData)
    BY NothingLoaded
  <1>c. ASSUME NEW t \in Tab, NEW at \in {"none", "asked", "answered"},
               NEW d \in FlowRec, Faithful(d),
               answer' = [answer EXCEPT ![t] = [at |-> at, data |-> d]]
        PROVE  /\ answer' \in [Tab -> [at : {"none", "asked", "answered"}, data : FlowRec]]
               /\ \A u \in Tab : Faithful(answer'[u].data)
    <2>1. [at |-> at, data |-> d] \in [at : {"none", "asked", "answered"}, data : FlowRec]
      OBVIOUS
    <2>2. answer' \in [Tab -> [at : {"none", "asked", "answered"}, data : FlowRec]]
      BY <1>a, <1>c, <2>1
    <2>3. answer'[t].data = d /\ \A u \in Tab \ {t} : answer'[u] = answer[u]
      BY <1>a, <1>c
    <2>4. QED
      BY <1>a, <1>c, <2>2, <2>3
  <1>1. ASSUME NEW t \in Tab, OpenEditor(t)
        PROVE  EditorInv'
    <2>1. /\ editor' = [editor EXCEPT ![t] = Filled(query[t])]
          /\ UNCHANGED <<flow, added, query, saves, posted, saved, deleted, crossed>>
          /\ AskFlow(t) \/ UNCHANGED answer
      BY <1>1 DEF OpenEditor
    <2>2. /\ answer' \in [Tab -> [at : {"none", "asked", "answered"}, data : FlowRec]]
          /\ \A u \in Tab : Faithful(answer'[u].data)
      BY <1>a, <1>b, <1>c, <2>1 DEF AskFlow
    <2>3. /\ Filled(query[t]) \in CanvasRec /\ Filled(query[t]).last = 0
          /\ Filled(query[t]).base <= flow.version
          /\ Filled(query[t]).base = flow.version => flow.nodes \subseteq Filled(query[t]).nodes
      BY <1>a, FilledCanvas
    <2>4. QED
      BY <1>a, <2>1, <2>2, <2>3, ReadKeepsEditor
  <1>2. ASSUME NEW t \in Tab, Refetch(t)
        PROVE  EditorInv'
    <2>1. /\ AskFlow(t)
          /\ UNCHANGED <<flow, added, editor, query, saves, posted, saved, deleted, crossed>>
      BY <1>2 DEF Refetch
    <2>2. /\ answer' \in [Tab -> [at : {"none", "asked", "answered"}, data : FlowRec]]
          /\ \A u \in Tab : Faithful(answer'[u].data)
      BY <1>b, <1>c, <2>1 DEF AskFlow
    <2>3. QED
      BY <1>a, <2>1, <2>2, ReadKeepsEditor
  <1>3. ASSUME NEW t \in Tab, GetFlow(t)
        PROVE  EditorInv'
    <2> DEFINE d == [flow EXCEPT !.loaded = TRUE]
    <2>1. /\ answer' = [answer EXCEPT ![t] = [at |-> "answered", data |-> d]]
          /\ UNCHANGED <<flow, added, editor, query, saves, posted, saved, deleted, crossed>>
      BY <1>3 DEF GetFlow
    <2>2. d \in FlowRec /\ Faithful(d)
      <3>1. flow \in FlowRec
        BY <1>a
      <3>2. QED
        BY <3>1, FieldsWritten DEF Faithful
    <2> HIDE DEF d
    <2>3. /\ answer' \in [Tab -> [at : {"none", "asked", "answered"}, data : FlowRec]]
          /\ \A u \in Tab : Faithful(answer'[u].data)
      BY <1>c, <2>1, <2>2
    <2>4. QED
      BY <1>a, <2>1, <2>3, ReadKeepsEditor
  <1>4. ASSUME NEW t \in Tab, DataArrives(t)
        PROVE  EditorInv'
    <2> DEFINE d == answer[t].data
    <2>1. /\ query' = [query EXCEPT ![t] = d]
          /\ editor' = editor \/ editor' = [editor EXCEPT ![t] = Filled(d)]
          /\ answer' = [answer EXCEPT ![t] = NoAnswer]
          /\ UNCHANGED <<flow, added, saves, posted, saved, deleted, crossed>>
      BY <1>4 DEF DataArrives
    <2>2. d \in FlowRec /\ Faithful(d)
      BY <1>a
    <2>3. /\ answer' \in [Tab -> [at : {"none", "asked", "answered"}, data : FlowRec]]
          /\ \A u \in Tab : Faithful(answer'[u].data)
      BY <1>b, <1>c, <2>1 DEF NoAnswer
    <2>4. /\ Filled(d) \in CanvasRec /\ Filled(d).last = 0
          /\ Filled(d).base <= flow.version
          /\ Filled(d).base = flow.version => flow.nodes \subseteq Filled(d).nodes
      BY <2>2, FilledCanvas
    <2> HIDE DEF d
    <2>5. query' \in [Tab -> FlowRec] /\ \A u \in Tab : Faithful(query'[u])
      BY <1>a, <2>1, <2>2
    <2>6. QED
      BY <2>1, <2>3, <2>4, <2>5, ReadKeepsEditor
  <1>5. ASSUME NEW t \in Tab, FlowFetchFails(t)
        PROVE  EditorInv'
    <2>1. /\ answer' = [answer EXCEPT ![t] = NoAnswer]
          /\ UNCHANGED <<flow, added, editor, query, saves, posted, saved, deleted, crossed>>
      BY <1>5 DEF FlowFetchFails
    <2>2. /\ answer' \in [Tab -> [at : {"none", "asked", "answered"}, data : FlowRec]]
          /\ \A u \in Tab : Faithful(answer'[u].data)
      BY <1>b, <1>c, <2>1 DEF NoAnswer
    <2>3. QED
      BY <1>a, <2>1, <2>2, ReadKeepsEditor
  <1>6. ASSUME NEW t \in Tab, ForgetFlow(t)
        PROVE  EditorInv'
    <2>1. /\ query' = [query EXCEPT ![t] = NoData]
          /\ UNCHANGED <<flow, added, editor, answer, saves, posted, saved, deleted, crossed>>
      BY <1>6 DEF ForgetFlow
    <2>2. query' \in [Tab -> FlowRec] /\ \A u \in Tab : Faithful(query'[u])
      BY <1>a, <1>b, <2>1
    <2>3. QED
      BY <1>a, <2>1, <2>2, ReadKeepsEditor
  <1>7. ASSUME NEW t \in Tab, AddNode(t)
        PROVE  EditorInv'
    <2>1. /\ editor' = [editor EXCEPT ![t].nodes = editor[t].nodes \cup {added + 1}]
          /\ added' = added + 1
          /\ UNCHANGED <<flow, query, answer, saves, posted, saved, deleted, crossed>>
      BY <1>7 DEF AddNode
    <2>2. editor[t].nodes \cup {added + 1} \in SUBSET Nat
      BY <1>a DEF CanvasRec
    <2>3. QED
      BY <1>a, <2>1, <2>2, EditKeepsEditor
  <1>8. ASSUME NEW t \in Tab, NEW n \in 1 .. added, EditData(t, n)
        PROVE  EditorInv'
    <2> DEFINE N == (editor[t].nodes \ {n}) \cup {added + 1}
    <2>1. /\ editor' = [editor EXCEPT ![t].nodes = N]
          /\ added' = added + 1 /\ deleted' = deleted \cup {n}
          /\ UNCHANGED <<flow, query, answer, saves, posted, saved, crossed>>
      BY <1>8 DEF EditData
    <2>2. N \in SUBSET Nat
      BY <1>a DEF CanvasRec
    <2>3. /\ deleted \subseteq deleted' /\ added' \in Nat
          /\ editor[t].nodes \ deleted' \subseteq N
      BY <1>a, <2>1
    <2> HIDE DEF N
    <2>4. QED
      BY <2>1, <2>2, <2>3, EditKeepsEditor
  <1>9. ASSUME NEW t \in Tab, NEW n \in 1 .. added, DeleteNode(t, n)
        PROVE  EditorInv'
    <2>1. /\ editor' = [editor EXCEPT ![t].nodes = editor[t].nodes \ {n}]
          /\ deleted' = deleted \cup {n}
          /\ UNCHANGED <<flow, added, query, answer, saves, posted, saved, crossed>>
      BY <1>9 DEF DeleteNode
    <2>2. editor[t].nodes \ {n} \in SUBSET Nat
      BY <1>a DEF CanvasRec
    <2>3. /\ deleted \subseteq deleted' /\ added' \in Nat
          /\ editor[t].nodes \ deleted' \subseteq editor[t].nodes \ {n}
      BY <1>a, <2>1
    <2>4. QED
      BY <2>1, <2>2, <2>3, EditKeepsEditor
  <1>10. ASSUME NEW t \in Tab, LeaveEditor(t)
         PROVE  EditorInv'
    <2>1. /\ editor' = [editor EXCEPT ![t] = Closed]
          /\ UNCHANGED <<flow, added, query, answer, saves, posted, saved, deleted, crossed>>
      BY <1>10 DEF LeaveEditor
    <2>2. /\ Closed \in CanvasRec /\ Closed.last = 0 /\ Closed.base <= flow.version
          /\ Closed.base = flow.version => flow.nodes \subseteq Closed.nodes
      BY <1>a, NothingLoaded DEF EditorInv, FlowRec
    <2>3. QED
      BY <1>a, <2>1, <2>2, ReadKeepsEditor
  <1>11. ASSUME NEW save \in saves, UpdateFails(save)
         PROVE  EditorInv'
    <2>1. /\ saves' = saves \ {save} /\ saved' = flow.nodes
          /\ UNCHANGED <<flow, added, editor, query, answer, posted, deleted, crossed>>
      BY <1>11 DEF UpdateFails
    <2>2. EditorTypes'
      BY <2>1 DEF EditorInv, EditorTypes
    <2>3. \A t \in Tab : CanvasInv(t)'
      BY <2>1 DEF EditorInv, CanvasInv
    <2>4. SavedInv'
      BY <2>1 DEF EditorInv, SavedInv
    <2>5. QED
      BY <2>1, <2>2, <2>3, <2>4 DEF EditorInv, Faithful
  <1>12. CASE UNCHANGED editVars
    BY <1>12 DEF editVars, EditorInv, EditorTypes, CanvasInv, SavedInv, Faithful
  <1>13. QED
    BY <1>1, <1>2, <1>3, <1>4, <1>5, <1>6, <1>7, <1>8, <1>9, <1>10, <1>11, <1>12,
       PersistKeepsEditor, UpdateKeepsEditor DEF EditNext

\* While no save is sent from an outdated canvas, no saved node is lost, for
\* any number of tabs, edits and saves (flows/[id]/page.tsx, flow.service.ts).
THEOREM SavesLoseNothing == EditSpec => []SavedNodesKept
  <1>1. EditInit => EditorInv
    <2> SUFFICES ASSUME EditInit
                 PROVE  EditorInv
      OBVIOUS
    <2>1. /\ flow = NoData /\ added = 0 /\ saves = {} /\ posted = 0 /\ saved = {}
          /\ crossed = FALSE
          /\ \A t \in Tab : /\ editor[t] = Closed /\ query[t] = NoData
                            /\ answer[t].data = NoData
      BY DEF EditInit, NoAnswer
    <2>2. NoData \in FlowRec /\ NoData.nodes = {} /\ NoData.version = 0
      BY DEF NoData, FlowRec
    <2>3. Closed \in CanvasRec /\ Closed.base = 0
      BY DEF Closed, CanvasRec
    <2>4. NoAnswer \in [at : {"none", "asked", "answered"}, data : FlowRec]
      BY <2>2 DEF NoAnswer
    <2>5. EditorTypes
      <3>1. /\ editor \in [Tab -> CanvasRec] /\ query \in [Tab -> FlowRec]
            /\ answer \in [Tab -> [at : {"none", "asked", "answered"}, data : FlowRec]]
        BY <2>2, <2>3, <2>4 DEF EditInit
      <3>2. QED
        BY <2>1, <2>2, <3>1 DEF EditorTypes
    <2>6. \A t \in Tab : Faithful(query[t]) /\ Faithful(answer[t].data) /\ CanvasInv(t)
      BY <2>1, <2>2, <2>3 DEF Faithful, CanvasInv
    <2>7. QED
      BY <2>1, <2>2, <2>5, <2>6 DEF EditorInv, SavedInv
  <1>2. EditorInv => SavedNodesKept
    BY DEF EditorInv, SavedInv, SavedNodesKept
  <1>3. QED
    BY <1>1, <1>2, EditorStep, PTL DEF EditSpec

-----------------------------------------------------------------------------
(* The inbox page. *)

MessageRow == [chat : Chat, own : BOOLEAN]
ListData   == [loaded : BOOLEAN, list : SUBSET Nat, twice : SUBSET Nat]
FetchRec   == [at : {"none", "asked", "answered"}, list : SUBSET Nat]

PaymentRec == [step : {"none", "asked", "stored"}, chat : Chat \cup {Nobody}, message : Nat]
PaymentInv == pay \in PaymentRec /\ (pay.step # "none" => pay.chat \in Chat)

PageTypes ==
    /\ scope \in Scopes /\ stored \in Seq(MessageRow)
    /\ unsent \subseteq DOMAIN stored /\ post \subseteq DOMAIN stored
    /\ wire \in Seq(Nat) /\ Range(wire) \subseteq DOMAIN stored
    /\ open \in Chat \cup {Nobody} /\ PaymentInv
    /\ cache \in [Chat -> ListData] /\ fetch \in [Chat -> FetchRec]

OwnMessages == {m \in DOMAIN stored : stored[m].own}

\* Where a message is that no list needs to show.
Elsewhere == unsent \cup Range(wire) \cup hidden

\* A list, and an answer on its way, lack only messages that are elsewhere.
ListInv(c) ==
    /\ cache[c].twice \subseteq OwnMessages
    /\ cache[c].loaded => Stored(c) \subseteq cache[c].list \cup Elsewhere
AnswerInv(c) ==
    fetch[c].at = "answered" => Stored(c) \subseteq fetch[c].list \cup Elsewhere

PageDataInv ==
    /\ PageTypes /\ post \subseteq OwnMessages
    /\ \A c \in Chat : ListInv(c) /\ AnswerInv(c)

\* A step that stores nothing, after which a message is elsewhere that was.
LEMMA PageMoves ==
    ASSUME PageDataInv, UNCHANGED <<scope, stored>>, Elsewhere \subseteq Elsewhere',
           unsent' \subseteq unsent, post' \subseteq post,
           wire' \in Seq(Nat), Range(wire') \subseteq DOMAIN stored,
           open' \in Chat \cup {Nobody}, PaymentInv',
           cache' \in [Chat -> ListData], fetch' \in [Chat -> FetchRec],
           \A c \in Chat : cache'[c] = cache[c] \/ ListInv(c)',
           \A c \in Chat : fetch'[c] = fetch[c] \/ AnswerInv(c)'
    PROVE  PageDataInv'
  <1>1. PageTypes'
    BY DEF PageDataInv, PageTypes
  <1>2. OwnMessages' = OwnMessages /\ \A c \in Chat : Stored(c)' = Stored(c)
    BY DEF OwnMessages, Stored, ChatOf
  <1>3. ASSUME NEW c \in Chat
        PROVE  ListInv(c)' /\ AnswerInv(c)'
    <2>1. ListInv(c) /\ AnswerInv(c)
      BY DEF PageDataInv
    <2>2. ListInv(c)'
      <3>1. CASE cache'[c] = cache[c]
        BY <1>2, <2>1, <3>1 DEF ListInv
      <3>2. QED
        BY <3>1
    <2>3. AnswerInv(c)'
      <3>1. CASE fetch'[c] = fetch[c]
        BY <1>2, <2>1, <3>1 DEF AnswerInv
      <3>2. QED
        BY <3>1
    <2>4. QED
      BY <2>2, <2>3
  <1>4. QED
    BY <1>1, <1>2, <1>3 DEF PageDataInv

\* A message is stored: it is to be emitted.
LEMMA StoreKeepsPage ==
    ASSUME PageDataInv, NEW row \in MessageRow,
           stored' = Append(stored, row), unsent' = unsent \cup {Len(stored) + 1},
           UNCHANGED <<scope, open, cache, fetch, wire, hidden>>,
           post' = post \/ (row.own /\ post' = post \cup {Len(stored) + 1}),
           PaymentInv'
    PROVE  PageDataInv'
  <1> DEFINE n == Len(stored) + 1
  <1>1. /\ stored' \in Seq(MessageRow) /\ Len(stored) \in Nat
        /\ DOMAIN stored = 1 .. Len(stored) /\ DOMAIN stored' = 1 .. Len(stored) + 1
        /\ \A m \in DOMAIN stored : stored'[m] = stored[m]
        /\ stored'[n] = row
    <2>1. stored \in Seq(MessageRow)
      BY DEF PageDataInv, PageTypes
    <2>2. QED
      BY <2>1, AppendProperties, LenProperties
  <1>2. DOMAIN stored' = DOMAIN stored \cup {n} /\ n \notin DOMAIN stored
    BY <1>1
  <1> HIDE DEF n
  <1>3. unsent' = unsent \cup {n} /\ (post' = post \/ (row.own /\ post' = post \cup {n}))
    BY DEF n
  <1>4. PageTypes'
    BY <1>1, <1>2, <1>3 DEF PageDataInv, PageTypes
  <1>5. OwnMessages \subseteq OwnMessages' /\ (row.own => n \in OwnMessages')
    BY <1>1, <1>2 DEF OwnMessages
  <1>6. post' \subseteq OwnMessages'
    BY <1>3, <1>5 DEF PageDataInv
  <1>7. Elsewhere \subseteq Elsewhere' /\ n \in Elsewhere'
    BY <1>3 DEF Elsewhere
  <1>8. \A c \in Chat : Stored(c)' \subseteq Stored(c) \cup {n}
    BY <1>1, <1>2 DEF Stored, ChatOf
  <1>9. ASSUME NEW c \in Chat
        PROVE  ListInv(c)' /\ AnswerInv(c)'
    BY <1>5, <1>7, <1>8 DEF PageDataInv, ListInv, AnswerInv
  <1>10. QED
    BY <1>4, <1>6, <1>9 DEF PageDataInv

\* The first of the events on the way is handled, or more are sent.
LEMMA WireMoves ==
    ASSUME NEW events \in Seq(Nat)
    PROVE  /\ events # <<>> => /\ Tail(events) \in Seq(Nat) /\ Head(events) \in Range(events)
                               /\ Range(events) = {Head(events)} \cup Range(Tail(events))
           /\ \A more \in Seq(Nat) : /\ events \o more \in Seq(Nat)
                                     /\ Range(events \o more) = Range(events) \cup Range(more)
  <1>1. ASSUME events # <<>>
        PROVE  /\ Tail(events) \in Seq(Nat) /\ Head(events) \in Range(events)
               /\ Range(events) = {Head(events)} \cup Range(Tail(events))
    <2>1. /\ Tail(events) \in Seq(Nat) /\ Len(Tail(events)) = Len(events) - 1
          /\ \A i \in 1 .. Len(Tail(events)) : Tail(events)[i] = events[i + 1]
          /\ Len(events) \in Nat \ {0} /\ Head(events) = events[1]
          /\ DOMAIN events = 1 .. Len(events)
          /\ DOMAIN Tail(events) = 1 .. Len(Tail(events))
      BY <1>1, HeadTailProperties, LenProperties, EmptySeq
    <2>2. Head(events) \in Range(events)
      BY <2>1 DEF Range
    <2>3. ASSUME NEW i \in DOMAIN events
          PROVE  events[i] \in {Head(events)} \cup Range(Tail(events))
      <3>1. CASE i = 1
        BY <2>1, <3>1
      <3>2. CASE i # 1
        <4>1. i - 1 \in DOMAIN Tail(events) /\ Tail(events)[i - 1] = events[i]
          BY <2>1, <3>2
        <4>2. QED
          BY <4>1 DEF Range
      <3>3. QED
        BY <3>1, <3>2
    <2>4. ASSUME NEW i \in DOMAIN Tail(events)
          PROVE  Tail(events)[i] \in Range(events)
      <3>1. i + 1 \in DOMAIN events /\ Tail(events)[i] = events[i + 1]
        BY <2>1
      <3>2. QED
        BY <3>1 DEF Range
    <2>5. QED
      BY <2>1, <2>2, <2>3, <2>4 DEF Range
  <1>2. ASSUME NEW more \in Seq(Nat)
        PROVE  /\ events \o more \in Seq(Nat)
               /\ Range(events \o more) = Range(events) \cup Range(more)
    <2>1. /\ events \o more \in Seq(Nat) /\ Len(events \o more) = Len(events) + Len(more)
          /\ \A i \in 1 .. Len(events) + Len(more) : (events \o more)[i] =
                IF i <= Len(events) THEN events[i] ELSE more[i - Len(events)]
          /\ Len(events) \in Nat /\ Len(more) \in Nat
          /\ DOMAIN events = 1 .. Len(events) /\ DOMAIN more = 1 .. Len(more)
          /\ DOMAIN (events \o more) = 1 .. Len(events) + Len(more)
      BY ConcatProperties, LenProperties
    <2>2. ASSUME NEW i \in DOMAIN (events \o more)
          PROVE  (events \o more)[i] \in Range(events) \cup Range(more)
      <3>1. CASE i <= Len(events)
        <4>1. i \in DOMAIN events /\ (events \o more)[i] = events[i]
          BY <2>1, <3>1
        <4>2. QED
          BY <4>1 DEF Range
      <3>2. CASE ~(i <= Len(events))
        <4>1. i - Len(events) \in DOMAIN more /\ (events \o more)[i] = more[i - Len(events)]
          BY <2>1, <3>2
        <4>2. QED
          BY <4>1 DEF Range
      <3>3. QED
        BY <3>1, <3>2
    <2>3. ASSUME NEW i \in DOMAIN events
          PROVE  events[i] \in Range(events \o more)
      <3>1. i \in DOMAIN (events \o more) /\ (events \o more)[i] = events[i]
        BY <2>1
      <3>2. QED
        BY <3>1 DEF Range
    <2>4. ASSUME NEW i \in DOMAIN more
          PROVE  more[i] \in Range(events \o more)
      <3>1. /\ Len(events) + i \in DOMAIN (events \o more)
            /\ (events \o more)[Len(events) + i] = more[i]
        <4>1. i \in 1 .. Len(more)
          BY <2>1
        <4>2. PICK k \in Int : k = Len(events) + i
          BY <2>1
        <4>3. k \in 1 .. Len(events) + Len(more) /\ ~(k <= Len(events)) /\ k - Len(events) = i
          BY <2>1, <4>1, <4>2
        <4>4. (events \o more)[k] = more[k - Len(events)]
          BY <2>1, <4>3
        <4>5. QED
          BY <2>1, <4>2, <4>3, <4>4
      <3>2. QED
        BY <3>1 DEF Range
    <2>5. QED
      BY <2>1, <2>2, <2>3, <2>4 DEF Range
  <1>3. QED
    BY <1>1, <1>2


\* The socket moves, a conversation is left, a link is asked for: no list, no
\* answer and no message moves.
LEMMA SocketKeepsPage ==
    ASSUME PageDataInv,
           \/ HandleConnection \/ Mount \/ EmitTyping \/ Unmount
           \/ AskPaymentLink \/ PaymentFails \/ \E m \in DOMAIN stored : SendFails(m)
    PROVE  PageDataInv'
  <1>0. PageTypes /\ Nobody \notin Chat
    BY InboxPageAssumption DEF PageDataInv
  <1>1. /\ UNCHANGED <<scope, stored, unsent, cache, fetch, wire, hidden>>
        /\ post' \subseteq post
        /\ open' = open \/ open' = Nobody
        /\ \/ pay' = pay \/ pay' = NoPayment
           \/ open # Nobody /\ pay' = [step |-> "asked", chat |-> open, message |-> 0]
    BY DEF HandleConnection, Mount, EmitTyping, Unmount, AskPaymentLink, PaymentFails, SendFails
  <1>2. NoPayment.step = "none" /\ NoPayment \in PaymentRec
    BY DEF NoPayment, PaymentRec
  <1>3. PaymentInv'
    <2>1. CASE pay' = pay \/ pay' = NoPayment
      BY <1>0, <1>2, <2>1 DEF PageTypes, PaymentInv
    <2>2. CASE open # Nobody /\ pay' = [step |-> "asked", chat |-> open, message |-> 0]
      BY <1>0, <2>2 DEF PageTypes, PaymentInv, PaymentRec
    <2>3. QED
      BY <1>1, <2>1, <2>2
  <1>4. /\ wire' \in Seq(Nat) /\ Range(wire') \subseteq DOMAIN stored
        /\ open' \in Chat \cup {Nobody} /\ unsent' \subseteq unsent
        /\ cache' \in [Chat -> ListData] /\ fetch' \in [Chat -> FetchRec]
    BY <1>0, <1>1 DEF PageTypes
  <1>5. Elsewhere \subseteq Elsewhere'
    BY <1>1 DEF Elsewhere
  <1>6. UNCHANGED <<scope, stored>> /\ UNCHANGED cache /\ UNCHANGED fetch
    BY <1>1
  <1>7. QED
    BY <1>1, <1>3, <1>4, <1>5, <1>6, PageMoves

\* Events are emitted, missed or lost with the connection: what is not on its
\* way any more is noted as missed.
LEMMA EmitKeepsPage ==
    ASSUME PageDataInv,
           Drop \/ \E m \in DOMAIN stored : EmitMessageCreated(m) \/ NeverEmitted(m)
    PROVE  PageDataInv'
  <1>0. PageTypes /\ stored \in Seq(MessageRow) /\ wire \in Seq(Nat)
    BY DEF PageDataInv, PageTypes
  <1>a. UNCHANGED <<scope, stored, open, cache, fetch, post, pay>>
    BY DEF Drop, EmitMessageCreated, NeverEmitted
  <1>b. ASSUME unsent' \subseteq unsent, wire' \in Seq(Nat), Range(wire') \subseteq DOMAIN stored,
               Elsewhere \subseteq Elsewhere'
        PROVE  PageDataInv'
    <2>1. /\ UNCHANGED <<scope, stored>> /\ UNCHANGED cache /\ UNCHANGED fetch
          /\ post' \subseteq post /\ open' \in Chat \cup {Nobody}
          /\ cache' \in [Chat -> ListData] /\ fetch' \in [Chat -> FetchRec]
          /\ PaymentInv'
      BY <1>0, <1>a DEF PageTypes, PaymentInv
    <2>2. QED
      BY <1>b, <2>1, PageMoves
  <1>1. CASE Drop
    <2>1. wire' = <<>> /\ hidden' = hidden \cup Range(wire) /\ UNCHANGED unsent
      BY <1>1 DEF Drop
    <2>2. wire' \in Seq(Nat) /\ Range(wire') = {}
      BY <2>1, EmptySeq DEF Range
    <2>3. Elsewhere \subseteq Elsewhere'
      BY <2>1 DEF Elsewhere
    <2>4. QED
      BY <1>b, <2>1, <2>2, <2>3
  <1>2. ASSUME NEW m \in DOMAIN stored, EmitMessageCreated(m)
        PROVE  PageDataInv'
    <2>1. m \in Nat
      BY <1>0, LenProperties
    <2>2. unsent' = unsent \ {m}
      BY <1>2 DEF EmitMessageCreated
    <2>3. CASE sock = "admitted"
      <3>1. PICK more \in {<<m>>, <<m, m>>} : wire' = wire \o more /\ UNCHANGED hidden
        BY <1>2, <2>3 DEF EmitMessageCreated
      <3>2. more \in Seq(Nat) /\ Range(more) = {m}
        <4>1. <<m>> \in Seq(Nat) /\ Range(<<m>>) = {m}
          BY <2>1 DEF Range
        <4>2. <<m, m>> \in Seq(Nat) /\ Range(<<m, m>>) = {m}
          BY <2>1 DEF Range
        <4>3. QED
          BY <4>1, <4>2
      <3>3. wire' \in Seq(Nat) /\ Range(wire') = Range(wire) \cup {m}
        BY <1>0, <3>1, <3>2, WireMoves
      <3>4. Range(wire') \subseteq DOMAIN stored
        BY <1>0, <3>3 DEF PageTypes
      <3>5. Elsewhere \subseteq Elsewhere'
        BY <2>2, <3>1, <3>3 DEF Elsewhere
      <3>6. QED
        BY <1>b, <2>2, <3>3, <3>4, <3>5
    <2>4. CASE sock # "admitted"
      <3>1. hidden' = hidden \cup {m} /\ UNCHANGED wire
        BY <1>2, <2>4 DEF EmitMessageCreated
      <3>2. Elsewhere \subseteq Elsewhere'
        BY <2>2, <3>1 DEF Elsewhere
      <3>3. QED
        BY <1>0, <1>b, <2>2, <3>1, <3>2 DEF PageTypes
    <2>5. QED
      BY <2>3, <2>4
  <1>3. ASSUME NEW m \in DOMAIN stored, NeverEmitted(m)
        PROVE  PageDataInv'
    <2>1. unsent' = unsent \ {m} /\ hidden' = hidden \cup {m} /\ UNCHANGED wire
      BY <1>3 DEF NeverEmitted
    <2>2. Elsewhere \subseteq Elsewhere'
      BY <2>1 DEF Elsewhere
    <2>3. QED
      BY <1>0, <1>b, <2>1, <2>2 DEF PageTypes
  <1>4. QED
    BY <1>1, <1>2, <1>3

\* A list is asked for, read or given up: an answer has all that is stored but
\* the rows before its oldest, which the page has missed from then on.
LEMMA FetchKeepsPage ==
    ASSUME PageDataInv, NEW c \in Chat, Select(c) \/ ReadList(c) \/ FetchFails(c) \/ PaymentSent
    PROVE  PageDataInv'
  <1>0. /\ PageTypes /\ fetch \in [Chat -> FetchRec] /\ Nobody \notin Chat
        /\ open \in Chat \cup {Nobody}
    BY InboxPageAssumption DEF PageDataInv, PageTypes
  <1>a. /\ UNCHANGED <<scope, stored, unsent, cache, wire, post>>
        /\ hidden \subseteq hidden'
        /\ open' = open \/ open' = c
        /\ pay' = pay \/ pay' = NoPayment
    BY DEF Select, ReadList, FetchFails, PaymentSent
  <1>b. NoPayment.step = "none" /\ NoPayment \in PaymentRec
    BY DEF NoPayment, PaymentRec
  <1>1. \/ UNCHANGED fetch
        \/ \E d \in Chat, f \in FetchRec :
              /\ fetch' = [fetch EXCEPT ![d] = f]
              /\ f.at = "answered" => Stored(d) \subseteq f.list \cup hidden'
    <2>1. /\ NoFetch \in FetchRec /\ NoFetch.at = "none"
          /\ [at |-> "asked", list |-> {}] \in FetchRec
      BY DEF NoFetch, FetchRec
    <2>2. CASE Select(c)
      <3>1. fetch' = [fetch EXCEPT ![c] = [at |-> "asked", list |-> {}]] \/ UNCHANGED fetch
        BY <2>2 DEF Select
      <3>2. QED
        BY <2>1, <3>1
    <2>3. CASE ReadList(c)
      <3>1. Stored(c) \in SUBSET Nat
        BY <1>0, LenProperties DEF Stored, PageTypes
      <3>2. Newest(c) \subseteq Stored(c)
        BY DEF Newest
      <3>3. [at |-> "answered", list |-> Newest(c)] \in FetchRec
        BY <3>1, <3>2 DEF FetchRec
      <3>4. /\ fetch' = [fetch EXCEPT ![c] = [at |-> "answered", list |-> Newest(c)]]
            /\ hidden' = hidden \cup (Stored(c) \ Newest(c))
        BY <2>3 DEF ReadList
      <3>5. QED
        BY <3>3, <3>4
    <2>4. CASE FetchFails(c)
      BY <2>1, <2>4 DEF FetchFails
    <2>5. CASE PaymentSent
      <3>1. \/ UNCHANGED fetch
            \/ open \in Chat /\ fetch' = [fetch EXCEPT ![open] = [at |-> "asked", list |-> {}]]
        <4>1. pay.chat \in Chat
          BY <1>0, <2>5 DEF PaymentSent, PageTypes, PaymentInv
        <4>2. QED
          BY <2>5, <4>1 DEF PaymentSent
      <3>2. QED
        BY <2>1, <3>1
    <2>6. QED
      BY <2>2, <2>3, <2>4, <2>5
  <1>2. UNCHANGED stored /\ \A d \in Chat : Stored(d)' = Stored(d)
    BY <1>a DEF Stored, ChatOf
  <1>3. fetch' \in [Chat -> FetchRec] /\ \A d \in Chat : fetch'[d] = fetch[d] \/ AnswerInv(d)'
    <2>1. CASE UNCHANGED fetch
      BY <1>0, <2>1
    <2>2. ASSUME NEW d \in Chat, NEW f \in FetchRec, fetch' = [fetch EXCEPT ![d] = f],
                 f.at = "answered" => Stored(d) \subseteq f.list \cup hidden'
          PROVE  /\ fetch' \in [Chat -> FetchRec]
                 /\ \A e \in Chat : fetch'[e] = fetch[e] \/ AnswerInv(e)'
      <3>1. fetch' \in [Chat -> FetchRec] /\ fetch'[d] = f
            /\ \A e \in Chat \ {d} : fetch'[e] = fetch[e]
        BY <1>0, <2>2
      <3>2. AnswerInv(d)'
        BY <1>2, <2>2, <3>1 DEF AnswerInv, Elsewhere
      <3>3. QED
        BY <3>1, <3>2
    <2>3. QED
      BY <1>1, <2>1, <2>2
  <1>4. /\ wire' \in Seq(Nat) /\ Range(wire') \subseteq DOMAIN stored
        /\ open' \in Chat \cup {Nobody} /\ unsent' \subseteq unsent /\ post' \subseteq post
        /\ PaymentInv'
        /\ cache' \in [Chat -> ListData]
    BY <1>0, <1>a, <1>b DEF PageTypes, PaymentInv
  <1>5. Elsewhere \subseteq Elsewhere' /\ UNCHANGED <<scope, stored>> /\ UNCHANGED cache
    BY <1>a DEF Elsewhere
  <1>6. QED
    BY <1>3, <1>4, <1>5, PageMoves

\* A list changes: it is filled, forgotten, or gets a message.
LEMMA ListKeepsPage ==
    ASSUME PageDataInv, NEW c \in Chat, NEW data \in ListData,
           cache' = [cache EXCEPT ![c] = data], data.twice \subseteq OwnMessages,
           data.loaded => Stored(c) \subseteq data.list \cup Elsewhere',
           Elsewhere \subseteq Elsewhere',
           fetch' = fetch \/ fetch' = [fetch EXCEPT ![c] = NoFetch],
           wire' \in Seq(Nat), Range(wire') \subseteq DOMAIN stored,
           UNCHANGED <<scope, stored, unsent, open, pay>>, post' \subseteq post
    PROVE  PageDataInv'
  <1>1. PageTypes /\ cache \in [Chat -> ListData] /\ fetch \in [Chat -> FetchRec]
    BY DEF PageDataInv, PageTypes
  <1>2. OwnMessages' = OwnMessages /\ Stored(c)' = Stored(c)
    BY DEF OwnMessages, Stored, ChatOf
  <1>3. cache' \in [Chat -> ListData] /\ cache'[c] = data
        /\ \A d \in Chat \ {c} : cache'[d] = cache[d]
    BY <1>1
  <1>4. ListInv(c)'
    BY <1>2, <1>3 DEF ListInv
  <1>5. NoFetch \in FetchRec /\ NoFetch.at = "none"
    BY DEF NoFetch, FetchRec
  <1>6. fetch' \in [Chat -> FetchRec] /\ \A d \in Chat : fetch'[d] = fetch[d] \/ AnswerInv(d)'
    <2>1. CASE fetch' = fetch
      BY <1>1, <2>1
    <2>2. CASE fetch' = [fetch EXCEPT ![c] = NoFetch]
      <3>1. fetch' \in [Chat -> FetchRec] /\ fetch'[c] = NoFetch
            /\ \A d \in Chat \ {c} : fetch'[d] = fetch[d]
        BY <1>1, <1>5, <2>2
      <3>2. AnswerInv(c)'
        BY <1>5, <3>1 DEF AnswerInv
      <3>3. QED
        BY <3>1, <3>2
    <2>3. QED
      BY <2>1, <2>2
  <1>7. /\ open' \in Chat \cup {Nobody} /\ unsent' \subseteq unsent
        /\ PaymentInv'
        /\ UNCHANGED <<scope, stored>>
        /\ \A d \in Chat : cache'[d] = cache[d] \/ ListInv(d)'
    BY <1>1, <1>3, <1>4 DEF PageTypes, PaymentInv
  <1>8. QED
    BY <1>3, <1>6, <1>7, PageMoves

LEMMA LoadKeepsPage ==
    ASSUME PageDataInv, NEW c \in Chat, Fetched(c) \/ Forget(c)
    PROVE  PageDataInv'
  <1>0. /\ PageTypes /\ fetch[c] \in FetchRec
        /\ UNCHANGED <<scope, stored, unsent, open, pay, post, wire, hidden>>
    BY DEF PageDataInv, PageTypes, Fetched, Forget
  <1>1. /\ wire' \in Seq(Nat) /\ Range(wire') \subseteq DOMAIN stored
        /\ Elsewhere' = Elsewhere /\ post' \subseteq post
        /\ UNCHANGED <<scope, stored, unsent, open, pay>>
    BY <1>0 DEF PageTypes, Elsewhere
  <1>2. CASE Fetched(c)
    <2> DEFINE data == [loaded |-> TRUE, list |-> fetch[c].list, twice |-> {}]
    <2>1. /\ fetch[c].at = "answered" /\ cache' = [cache EXCEPT ![c] = data]
          /\ fetch' = [fetch EXCEPT ![c] = NoFetch]
      BY <1>2 DEF Fetched
    <2>2. data \in ListData
      BY <1>0 DEF ListData, FetchRec
    <2>3. Stored(c) \subseteq fetch[c].list \cup Elsewhere
      BY <2>1 DEF PageDataInv, AnswerInv
    <2>4. data.twice = {} /\ data.list = fetch[c].list
      OBVIOUS
    <2> HIDE DEF data
    <2>5. /\ data.twice \subseteq OwnMessages
          /\ data.loaded => Stored(c) \subseteq data.list \cup Elsewhere'
          /\ Elsewhere \subseteq Elsewhere'
      BY <1>1, <2>3, <2>4
    <2>6. QED
      BY <1>1, <2>1, <2>2, <2>5, ListKeepsPage
  <1>3. CASE Forget(c)
    <2>1. cache' = [cache EXCEPT ![c] = Unloaded] /\ UNCHANGED fetch
      BY <1>3 DEF Forget
    <2>2. Unloaded \in ListData /\ ~Unloaded.loaded /\ Unloaded.twice = {}
      BY DEF Unloaded, ListData
    <2>3. QED
      BY <1>1, <2>1, <2>2, ListKeepsPage
  <1>4. QED
    BY <1>2, <1>3

\* An event: the list that is loaded shows its message from now on.
LEMMA CreatedKeepsPage ==
    ASSUME PageDataInv, OnCreated
    PROVE  PageDataInv'
  <1> DEFINE m == Head(wire)
             c == ChatOf(m)
  <1>0. /\ PageTypes /\ wire # <<>> /\ wire' = Tail(wire)
        /\ UNCHANGED <<scope, stored, unsent, open, fetch, post, pay>>
        /\ cache' = IF ear /\ cache[c].loaded THEN [cache EXCEPT ![c] = MovedUp(cache[c], m)]
                    ELSE cache
        /\ hidden' = hidden \cup (IF ear THEN Outdated(c, m) ELSE {m})
        /\ wire \in Seq(Nat) /\ cache \in [Chat -> ListData] /\ fetch \in [Chat -> FetchRec]
        /\ stored \in Seq(MessageRow)
    BY DEF PageDataInv, PageTypes, OnCreated
  <1>1. /\ wire' \in Seq(Nat) /\ m \in Range(wire) /\ Range(wire) = {m} \cup Range(wire')
        /\ Range(wire') \subseteq DOMAIN stored /\ m \in DOMAIN stored
    BY <1>0, WireMoves DEF PageTypes
  <1>2. m \in Nat /\ c \in Chat
    <2>1. m \in 1 .. Len(stored) /\ Len(stored) \in Nat
      BY <1>0, <1>1, LenProperties
    <2>2. stored[m] \in MessageRow
      BY <1>0, <2>1, ElementOfSeq
    <2>3. QED
      BY <2>1, <2>2 DEF ChatOf, MessageRow
  <1>3. ASSUME NEW d \in Chat
        PROVE  m \in Stored(d) => d = c
    BY DEF Stored
  <1> HIDE DEF m, c
  <1>4. Elsewhere \subseteq Elsewhere' \cup {m} /\ hidden \subseteq hidden'
    BY <1>0, <1>1 DEF Elsewhere
  <1>5. OwnMessages' = OwnMessages /\ \A d \in Chat : Stored(d)' = Stored(d)
    BY <1>0 DEF OwnMessages, Stored, ChatOf
  <1>6. cache[c] \in ListData /\ cache[c].list \in SUBSET Nat /\ cache[c].twice \in SUBSET Nat
    BY <1>0, <1>2 DEF ListData
  <1>7. cache' \in [Chat -> ListData]
    <2>1. MovedUp(cache[c], m) \in ListData
      BY <1>2, <1>6 DEF MovedUp, ListData
    <2>2. QED
      BY <1>0, <1>2, <2>1
  <1>8. ASSUME NEW d \in Chat
        PROVE  ListInv(d)'
    <2>1. ListInv(d)
      BY DEF PageDataInv
    <2>2. CASE d # c
      <3>1. cache'[d] = cache[d] /\ m \notin Stored(d)
        BY <1>0, <1>2, <1>3, <2>2
      <3>2. QED
        BY <1>4, <1>5, <2>1, <3>1 DEF ListInv
    <2>3. CASE d = c /\ ear /\ cache[c].loaded
      <3>1. cache'[c] = MovedUp(cache[c], m)
        BY <1>0, <1>2, <2>3
      <3>2. /\ cache'[c].list = cache[c].list \cup {m}
            /\ cache'[c].twice = cache[c].twice \ {m}
        BY <1>6, <3>1 DEF MovedUp, ListData
      <3>3. QED
        BY <1>4, <1>5, <2>1, <2>3, <3>2 DEF ListInv
    <2>4. CASE d = c /\ ~(ear /\ cache[c].loaded)
      <3>1. UNCHANGED cache
        BY <1>0, <2>4
      <3>2. CASE cache[c].loaded
        <4>1. m \in Elsewhere'
          BY <1>0, <2>4, <3>2 DEF Elsewhere
        <4>2. QED
          BY <1>4, <1>5, <2>1, <3>1, <4>1 DEF ListInv
      <3>3. CASE ~cache[c].loaded
        BY <1>5, <2>1, <2>4, <3>1, <3>3 DEF ListInv
      <3>4. QED
        BY <3>2, <3>3
    <2>5. QED
      BY <2>2, <2>3, <2>4
  <1>9. ASSUME NEW d \in Chat
        PROVE  AnswerInv(d)'
    <2>1. AnswerInv(d) /\ fetch'[d] = fetch[d]
      BY <1>0 DEF PageDataInv
    <2>2. CASE d # c
      BY <1>2, <1>3, <1>4, <1>5, <2>1, <2>2 DEF AnswerInv
    <2>3. CASE d = c
      <3>1. fetch[c].at = "answered" => m \in fetch[c].list \cup hidden'
        BY <1>0 DEF Outdated
      <3>2. fetch[c].at = "answered" => m \in fetch[c].list \cup Elsewhere'
        BY <3>1 DEF Elsewhere
      <3>3. QED
        BY <1>4, <1>5, <2>1, <2>3, <3>2 DEF AnswerInv
    <2>4. QED
      BY <2>2, <2>3
  <1>10. PageTypes'
    BY <1>0, <1>1, <1>7 DEF PageTypes, PaymentInv
  <1>11. post' \subseteq OwnMessages'
    BY <1>0, <1>5 DEF PageDataInv
  <1>12. QED
    BY <1>8, <1>9, <1>10, <1>11 DEF PageDataInv

\* The page's own message, added unchecked: it is the one that may show twice.
LEMMA SentKeepsPage ==
    ASSUME PageDataInv, NEW m \in DOMAIN stored, Sent(m)
    PROVE  PageDataInv'
  <1> DEFINE c == ChatOf(m)
             data == [loaded |-> TRUE, list |-> cache[c].list \cup {m},
                      twice |-> cache[c].twice \cup (cache[c].list \cap {m})]
  <1>0. /\ PageTypes /\ m \in post /\ cache' = [cache EXCEPT ![c] = data]
        /\ hidden' = hidden \cup Outdated(c, m)
                     \cup (IF cache[c].loaded THEN {} ELSE Stored(c) \ {m})
        /\ post' = post \ {m}
        /\ UNCHANGED <<scope, stored, unsent, open, fetch, wire, pay>>
        /\ cache \in [Chat -> ListData] /\ stored \in Seq(MessageRow)
    BY DEF PageDataInv, PageTypes, Sent
  <1>1. m \in Nat /\ c \in Chat
    <2>1. m \in 1 .. Len(stored) /\ Len(stored) \in Nat
      BY <1>0, LenProperties
    <2>2. stored[m] \in MessageRow
      BY <1>0, <2>1, ElementOfSeq
    <2>3. QED
      BY <2>1, <2>2 DEF ChatOf, MessageRow
  <1>2. /\ cache[c] \in ListData /\ cache[c].list \in SUBSET Nat /\ cache[c].twice \in SUBSET Nat
        /\ m \in OwnMessages /\ ListInv(c)
    <2>1. cache[c] \in ListData
      BY <1>0, <1>1
    <2>2. QED
      BY <1>0, <1>1, <2>1 DEF ListData, PageDataInv
  <1>3. /\ data \in ListData /\ data.list = cache[c].list \cup {m}
        /\ data.twice = cache[c].twice \cup (cache[c].list \cap {m})
    BY <1>1, <1>2 DEF ListData
  <1>4. cache' = [cache EXCEPT ![c] = data]
    BY <1>0
  <1> HIDE DEF c, data
  <1>5. data.twice \subseteq OwnMessages
    BY <1>2, <1>3 DEF ListInv
  <1>6. Elsewhere \subseteq Elsewhere'
    BY <1>0 DEF Elsewhere
  <1>7. Stored(c) \subseteq data.list \cup Elsewhere'
    <2>1. CASE cache[c].loaded
      BY <1>2, <1>3, <1>6, <2>1 DEF ListInv
    <2>2. CASE ~cache[c].loaded
      <3>1. Stored(c) \subseteq hidden' \cup {m}
        BY <1>0, <2>2
      <3>2. QED
        BY <1>3, <3>1 DEF Elsewhere
    <2>3. QED
      BY <2>1, <2>2
  <1>8. /\ wire' \in Seq(Nat) /\ Range(wire') \subseteq DOMAIN stored
        /\ UNCHANGED <<scope, stored, unsent, open, pay>> /\ post' \subseteq post
        /\ fetch' = fetch
    BY <1>0 DEF PageTypes
  <1>9. QED
    BY <1>1, <1>3, <1>4, <1>5, <1>6, <1>7, <1>8, ListKeepsPage

LEMMA PageStep == PageDataInv /\ [PageNext]_pageVars => PageDataInv'
  <1> SUFFICES ASSUME PageDataInv, [PageNext]_pageVars
               PROVE  PageDataInv'
    OBVIOUS
  <1>a. /\ PageTypes /\ scope.chats \subseteq Chat /\ Nobody \notin Chat
        /\ PaymentInv
        /\ open \in Chat \cup {Nobody}
    BY InboxPageAssumption DEF PageDataInv, PageTypes
  <1>b. \A d \in Chat : /\ [chat |-> d, own |-> TRUE] \in MessageRow
                        /\ [chat |-> d, own |-> FALSE] \in MessageRow
    BY DEF MessageRow
  <1>1. ASSUME NEW c \in scope.chats, StoreOther(c)
        PROVE  PageDataInv'
    <2> DEFINE row == [chat |-> c, own |-> FALSE]
    <2>1. /\ stored' = Append(stored, row) /\ unsent' = unsent \cup {Len(stored) + 1}
          /\ UNCHANGED <<scope, open, cache, fetch, wire, hidden>>
          /\ post' = post /\ PaymentInv'
      BY <1>a, <1>1 DEF StoreOther, PaymentInv
    <2>2. row \in MessageRow
      BY <1>a, <1>b
    <2> HIDE DEF row
    <2>3. QED
      BY <2>1, <2>2, StoreKeepsPage
  <1>2. CASE Send
    <2> DEFINE row == [chat |-> open, own |-> TRUE]
    <2>1. /\ stored' = Append(stored, row) /\ unsent' = unsent \cup {Len(stored) + 1}
          /\ UNCHANGED <<scope, open, cache, fetch, wire, hidden>>
          /\ post' = post \cup {Len(stored) + 1} /\ PaymentInv'
      BY <1>a, <1>2 DEF Send, PaymentInv
    <2>2. row \in MessageRow /\ row.own
      BY <1>a, <1>b, <1>2 DEF Send
    <2> HIDE DEF row
    <2>3. QED
      BY <2>1, <2>2, StoreKeepsPage
  <1>3. CASE StorePaymentMessage
    <2> DEFINE row == [chat |-> pay.chat, own |-> FALSE]
    <2>1. /\ stored' = Append(stored, row) /\ unsent' = unsent \cup {Len(stored) + 1}
          /\ UNCHANGED <<scope, open, cache, fetch, wire, hidden>>
          /\ post' = post
          /\ pay' = [pay EXCEPT !.step = "stored", !.message = Len(stored) + 1]
          /\ pay.chat \in Chat
      BY <1>a, <1>3 DEF StorePaymentMessage, PaymentInv
    <2>2. row \in MessageRow
      BY <1>b, <2>1
    <2>3. PaymentInv'
      <3>1. Len(stored) + 1 \in Nat /\ pay \in PaymentRec
        BY <1>a, LenProperties DEF PageTypes, PaymentInv
      <3>2. PICK n \in Nat : n = Len(stored) + 1
        BY <3>1
      <3>3. pay' = [pay EXCEPT !.step = "stored", !.message = n]
        BY <2>1, <3>2
      <3>4. pay' \in PaymentRec /\ pay'.chat = pay.chat
        BY <3>1, <3>3 DEF PaymentRec
      <3>5. QED
        BY <2>1, <3>4 DEF PaymentInv
    <2> HIDE DEF row
    <2>4. QED
      BY <2>1, <2>2, <2>3, StoreKeepsPage
  <1>4. CASE \/ HandleConnection \/ Mount \/ EmitTyping \/ Unmount
             \/ AskPaymentLink \/ PaymentFails \/ \E m \in DOMAIN stored : SendFails(m)
    BY <1>4, SocketKeepsPage
  <1>5. CASE Drop \/ \E m \in DOMAIN stored : EmitMessageCreated(m) \/ NeverEmitted(m)
    BY <1>5, EmitKeepsPage
  <1>6. CASE PaymentSent
    <2>1. pay.chat \in Chat
      BY <1>a, <1>6 DEF PaymentSent, PaymentInv
    <2>2. QED
      BY <1>6, <2>1, FetchKeepsPage
  <1>7. ASSUME NEW c \in scope.chats, Select(c) \/ ReadList(c) \/ FetchFails(c)
        PROVE  PageDataInv'
    BY <1>a, <1>7, FetchKeepsPage
  <1>8. ASSUME NEW c \in scope.chats, Fetched(c) \/ Forget(c)
        PROVE  PageDataInv'
    BY <1>a, <1>8, LoadKeepsPage
  <1>9. CASE UNCHANGED pageVars
    BY <1>9 DEF pageVars, PageDataInv, PageTypes, PaymentInv, OwnMessages, Elsewhere, ListInv,
                AnswerInv,
                Stored, ChatOf
  <1>10. QED
    BY <1>1, <1>2, <1>3, <1>4, <1>5, <1>6, <1>7, <1>8, <1>9, CreatedKeepsPage, SentKeepsPage
       DEF PageNext

\* A loaded list shows every message that is not on its way and was not missed
\* for one of the named reasons, to be older than a whole answer among them, and
\* shows none twice but the page's own, for any number of conversations,
\* messages and rows an answer holds (inbox/page.tsx, socket.ts,
\* message.service.ts).
THEOREM ListsLoseNothingQuietly == PageSpec => []NothingLostQuietly
  <1>1. PageInit => PageDataInv
    <2> SUFFICES ASSUME PageInit
                 PROVE  PageDataInv
      OBVIOUS
    <2>1. Unloaded \in ListData /\ ~Unloaded.loaded /\ Unloaded.twice = {}
      BY DEF Unloaded, ListData
    <2>2. NoFetch \in FetchRec /\ NoFetch.at = "none"
      BY DEF NoFetch, FetchRec
    <2>3. /\ stored \in Seq(MessageRow) /\ wire \in Seq(Nat) /\ Range(wire) = {}
          /\ PaymentInv
      BY EmptySeq DEF PageInit, Range, NoPayment, PaymentInv, PaymentRec
    <2>4. PageTypes
      BY <2>1, <2>2, <2>3 DEF PageInit, PageTypes
    <2>5. QED
      BY <2>1, <2>2, <2>4 DEF PageInit, PageDataInv, ListInv, AnswerInv
  <1>2. PageDataInv => NothingLostQuietly
    <2> SUFFICES ASSUME PageDataInv, NEW m \in DOMAIN stored, cache[ChatOf(m)].loaded
                 PROVE  /\ m \in cache[ChatOf(m)].list \/ OnItsWay(m) \/ m \in hidden
                        /\ m \in cache[ChatOf(m)].twice => stored[m].own
      BY DEF NothingLostQuietly
    <2>1. stored \in Seq(MessageRow)
      BY DEF PageDataInv, PageTypes
    <2>2. stored[m] \in MessageRow
      BY <2>1, LenProperties, ElementOfSeq
    <2>3. ChatOf(m) \in Chat /\ m \in Stored(ChatOf(m))
      BY <2>2 DEF ChatOf, MessageRow, Stored
    <2>4. ListInv(ChatOf(m))
      BY <2>3 DEF PageDataInv
    <2>5. QED
      BY <2>3, <2>4 DEF ListInv, OwnMessages, Elsewhere, OnItsWay
  <1>3. QED
    BY <1>1, <1>2, PageStep, PTL DEF PageSpec

=============================================================================
