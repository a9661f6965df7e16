-------------------------- MODULE GuardrailProofs --------------------------
(***************************************************************************)
(* Theorems about Guardrail, for every number of worker slots, accounts    *)
(* and contacts and every value of the limits.                             *)
(***************************************************************************)
EXTENDS Guardrail, FiniteSetTheorems, TLAPS

\* A call of a slot is well formed, and so is the call of an idle slot.
LEMMA NoCallType == NoCall \in Call
  <1>1. /\ (CHOOSE a \in Account : TRUE) \in Account
        /\ (CHOOSE c \in Contact : TRUE) \in Contact
    BY GuardrailAssumption
  <1>2. QED
    BY <1>1 DEF NoCall, Call

\* Every variable keeps its type: in particular no step leaves a counter of
\* an account undefined or a slot outside the steps of sendOutbound.
LEMMA TypeStep == TypeOK /\ [Next]_guardVars => TypeOK'
  <1> SUFFICES ASSUME TypeOK, [Next]_guardVars
               PROVE  TypeOK'
    OBVIOUS
  <1> USE DEF limitVars, historyVars, Goto
  <1>1. ASSUME NEW p \in Caller, Advance(p)
        PROVE  TypeOK'
    <2>a. call[p].acct \in Account
      BY DEF TypeOK, Call
    <2>b. ASSUME NEW v \in {"refused", "failed"},
                 call' = [call EXCEPT ![p].verdict = v]
          PROVE  call' \in [Caller -> Call]
      BY <2>b DEF TypeOK, Call
    <2>1. CASE Preflight(p)
      BY <2>1 DEF TypeOK, Step, Preflight
    <2>2. CASE ConsumeRate(p)
      <3>1. rate' \in [Account -> Int] /\ held' \in [Account -> Int]
        BY <2>2, <2>a DEF TypeOK, ConsumeRate
      <3>2. pc' \in [Caller -> Step] /\ fresh' \in [Caller -> BOOLEAN]
        BY <2>2 DEF TypeOK, Step, ConsumeRate, Granted, Created
      <3>3. QED
        BY <2>2, <3>1, <3>2 DEF TypeOK, ConsumeRate
    <2>3. CASE Expire(p)
      BY <2>3, <2>a DEF TypeOK, Step, Expire
    <2>4. CASE CheckDaily(p)
      BY <2>4, <2>b DEF TypeOK, Step, CheckDaily
    <2>5. CASE IncrementDaily(p)
      BY <2>5, <2>a DEF TypeOK, Step, IncrementDaily
    <2>6. CASE ProviderAccepts(p)
      <3>1. late' \in [Account -> Nat]
        BY <2>6, <2>a DEF TypeOK, ProviderAccepts
      <3>2. QED
        BY <2>6, <2>b, <3>1 DEF TypeOK, Step, ProviderAccepts
    <2>7. CASE ProviderRejects(p)
      BY <2>7, <2>b DEF TypeOK, Step, ProviderRejects
    <2>8. CASE RefundRead(p)
      <3>1. call[p].verdict \in Step
        BY DEF TypeOK, Call, Step
      <3>2. QED
        BY <2>8, <3>1 DEF TypeOK, Step, RefundRead
    <2>9. CASE RefundDecr(p)
      <3>1. call[p].verdict \in Step
        BY DEF TypeOK, Call, Step
      <3>2. /\ rate' \in [Account -> Int] /\ held' \in [Account -> Int]
            /\ stale' \in [Account -> Nat]
        BY <2>9, <2>a DEF TypeOK, RefundDecr
      <3>3. QED
        BY <2>9, <3>1, <3>2 DEF TypeOK, RefundDecr
    <2>10. CASE Return(p)
      BY <2>10, NoCallType DEF TypeOK, Step, Return
    <2>11. QED
      BY <1>1, <2>1, <2>2, <2>3, <2>4, <2>5, <2>6, <2>7, <2>8, <2>9, <2>10
         DEF Advance
  <1>2. ASSUME NEW p \in Caller, NEW a \in Account, NEW c \in Contact,
               NEW tmpl \in BOOLEAN, Load(p, a, c, tmpl)
        PROVE  TypeOK'
    BY <1>2 DEF TypeOK, Step, Call, Load
  <1>3. ASSUME NEW a \in Account, WindowExpires(a)
        PROVE  TypeOK'
    BY <1>3 DEF TypeOK, WindowExpires
  <1>4. ASSUME NEW a \in Account, NEW value \in BOOLEAN,
               SetOutboundPaused(a, value)
        PROVE  TypeOK'
    BY <1>4 DEF TypeOK, SetOutboundPaused
  <1>5. ASSUME NEW c \in Contact, ContactWarms(c) \/ ContactCools(c)
        PROVE  TypeOK'
    BY <1>5 DEF TypeOK, ContactWarms, ContactCools
  <1>6. CASE NewDay
    BY <1>6 DEF TypeOK, NewDay
  <1>7. CASE Crash
    BY <1>7, NoCallType DEF TypeOK, Step, Crash
  <1>8. CASE UNCHANGED guardVars
    BY <1>8 DEF TypeOK, guardVars
  <1>9. QED
    BY <1>1, <1>2, <1>3, <1>4, <1>5, <1>6, <1>7, <1>8 DEF Next

\* TypeOK holds in every reachable state of sendOutbound and its surroundings.
THEOREM TypeCorrect == Spec => []TypeOK
  <1>1. Init => TypeOK
    BY NoCallType DEF Init, TypeOK, Step
  <1>2. QED
    BY <1>1, TypeStep, PTL DEF Spec

-----------------------------------------------------------------------------
(* No account is throttled for good. *)

\* A slot on its way to EXPIRE stays there under every step but its own.
LEMMA ExpireWaits ==
  ASSUME TypeOK, [Next]_guardVars, crashes' = crashes,
         NEW q \in Caller, pc[q] = "expire", ~Expire(q)
  PROVE  pc'[q] = "expire" /\ call'[q].acct = call[q].acct
  <1> USE DEF limitVars, historyVars, Goto
  <1>1. ASSUME NEW p \in Caller, Advance(p)
        PROVE  pc'[q] = "expire" /\ call'[q].acct = call[q].acct
    <2>1. CASE p = q
      BY <1>1, <2>1 DEF Advance, Preflight, ConsumeRate, CheckDaily,
         IncrementDaily, ProviderAccepts, ProviderRejects, RefundRead,
         RefundDecr, Return
    <2>2. CASE p # q
      <3> USE <2>2 DEF TypeOK
      <3>1. CASE Preflight(p) \/ ConsumeRate(p) \/ Expire(p)
        BY <3>1 DEF Preflight, ConsumeRate, Expire
      <3>2. CASE CheckDaily(p) \/ IncrementDaily(p)
        BY <3>2 DEF CheckDaily, IncrementDaily
      <3>3. CASE ProviderAccepts(p) \/ ProviderRejects(p)
        BY <3>3 DEF ProviderAccepts, ProviderRejects
      <3>4. CASE RefundRead(p) \/ RefundDecr(p) \/ Return(p)
        BY <3>4 DEF RefundRead, RefundDecr, Return
      <3>5. QED
        BY <1>1, <3>1, <3>2, <3>3, <3>4 DEF Advance
    <2>3. QED
      BY <2>1, <2>2
  <1>2. ASSUME NEW p \in Caller, NEW a \in Account, NEW c \in Contact,
               NEW tmpl \in BOOLEAN, Load(p, a, c, tmpl)
        PROVE  pc'[q] = "expire" /\ call'[q].acct = call[q].acct
    BY <1>2 DEF TypeOK, Load
  <1>3. CASE ~ \E p \in Caller : Advance(p)
    BY <1>2, <1>3 DEF Next, WindowExpires, SetOutboundPaused, ContactWarms,
       ContactCools, NewDay, Crash, guardVars, TypeOK
  <1>4. QED
    BY <1>1, <1>3

\* The only steps that raise a counter are ConsumeRate's increments, and the
\* only steps that take an expiry away also take the counter to zero.
LEMMA CounterSteps ==
  ASSUME TypeOK, [Next]_guardVars, NEW a \in Account
  PROVE  \/ rate'[a] <= rate[a] /\ (ttl[a] => ttl'[a])
         \/ rate'[a] = 0
         \/ \E p \in Caller : ConsumeRate(p) /\ call[p].acct = a
  <1> USE DEF TypeOK, Call, limitVars, historyVars
  <1>1. ASSUME NEW p \in Caller, ConsumeRate(p), call[p].acct # a
        PROVE  rate'[a] <= rate[a] /\ (ttl[a] => ttl'[a])
    BY <1>1 DEF ConsumeRate
  <1>2. ASSUME NEW p \in Caller, Advance(p), ~ConsumeRate(p)
        PROVE  rate'[a] <= rate[a] /\ (ttl[a] => ttl'[a])
    BY <1>2 DEF Advance, Preflight, Expire, CheckDaily, IncrementDaily,
       ProviderAccepts, ProviderRejects, RefundRead, RefundDecr, Return
  <1>3. ASSUME NEW b \in Account, WindowExpires(b)
        PROVE  rate'[a] = 0 \/ (rate'[a] <= rate[a] /\ (ttl[a] => ttl'[a]))
    BY <1>3 DEF WindowExpires
  <1>4. ASSUME NEW p \in Caller, NEW b \in Account, NEW c \in Contact,
               NEW tmpl \in BOOLEAN, Load(p, b, c, tmpl)
        PROVE  rate'[a] <= rate[a] /\ (ttl[a] => ttl'[a])
    BY <1>4 DEF Load
  <1>5. CASE \/ \E b \in Account, v \in BOOLEAN : SetOutboundPaused(b, v)
             \/ \E c \in Contact : ContactWarms(c) \/ ContactCools(c)
             \/ NewDay \/ Crash \/ UNCHANGED guardVars
    BY <1>5 DEF SetOutboundPaused, ContactWarms, ContactCools, NewDay, Crash,
       guardVars
  <1>6. QED
    BY <1>1, <1>2, <1>3, <1>4, <1>5 DEF Next

\* NoImmortalBucket is inductive: the key that counts always carries an expiry
\* unless its creator is between INCR and EXPIRE.
THEOREM NeverImmortal == Spec => []NoImmortalBucket
  <1>1. Init => NoImmortalBucket
    BY DEF Init, NoImmortalBucket
  <1>2. TypeOK /\ NoImmortalBucket /\ [Next]_guardVars => NoImmortalBucket'
    <2> SUFFICES ASSUME TypeOK, NoImmortalBucket, [Next]_guardVars,
                        crashes' = 0, NEW a \in Account,
                        rate'[a] >= 1, ~ttl'[a]
                 PROVE  \E p \in Caller : pc'[p] = "expire"
                                          /\ call'[p].acct = a
      BY DEF NoImmortalBucket
    <2>1. crashes = 0
      BY GuardrailAssumption
         DEF Next, Advance, Preflight, ConsumeRate, Expire, CheckDaily,
             IncrementDaily, ProviderAccepts, ProviderRejects, RefundRead,
             RefundDecr, Return, Load, WindowExpires, SetOutboundPaused,
             ContactWarms, ContactCools, NewDay, Crash, guardVars, TypeOK
    <2>2. ASSUME NEW p \in Caller, ConsumeRate(p), call[p].acct = a,
                 rate[a] < 1
          PROVE  pc'[p] = "expire" /\ call'[p].acct = a
      BY <2>2, GuardrailAssumption
         DEF ConsumeRate, Granted, Created, Goto, TypeOK, Call
    <2>3. CASE rate[a] >= 1 /\ ~ttl[a]
      <3>1. PICK q \in Caller : pc[q] = "expire" /\ call[q].acct = a
        BY <2>1, <2>3 DEF NoImmortalBucket
      <3>2. ASSUME Expire(q)
            PROVE  FALSE
        <4>1. ttl'[a] = (ttl[a] \/ rate[a] # 0)
          BY <3>1, <3>2 DEF Expire, TypeOK
        <4>2. rate[a] # 0
          BY <2>3 DEF TypeOK
        <4>3. QED
          BY <4>1, <4>2
      <3>3. QED
        BY <2>1, <3>1, <3>2, ExpireWaits
    <2>4. CASE rate[a] < 1 \/ ttl[a]
      <3>1. PICK p \in Caller : ConsumeRate(p) /\ call[p].acct = a
        <4>1. rate'[a] \in Int /\ rate[a] \in Int
          BY TypeStep DEF TypeOK
        <4>2. QED
          BY <2>4, <4>1, CounterSteps
      <3>2. ~ttl[a]
        BY <3>1 DEF ConsumeRate
      <3>3. QED
        BY <2>2, <2>4, <3>1, <3>2
    <2>5. QED
      BY <2>3, <2>4 DEF TypeOK
  <1>3. QED
    BY <1>1, <1>2, TypeCorrect, PTL DEF Spec

-----------------------------------------------------------------------------
(* The daily cap. *)

\* Slots that have compared the daily counter with the cap and have not yet
\* incremented it.
Overtaking(a) == {p \in Caller : pc[p] = "incrDaily" /\ call[p].acct = a}

\* Each of them was let through by a counter below the cap, so counter and
\* overtaking slots together stay below the cap plus the number of slots.
DailyInv ==
    \A a \in Account :
        DailyCap > 0 =>
            daily[a] + Cardinality(Overtaking(a))
                <= DailyCap + Cardinality(Caller) - 1

\* The slots about to pass the daily cap are finitely many, at most all of them.
LEMMA OvertakingFinite ==
  ASSUME NEW a \in Account
  PROVE  /\ IsFiniteSet(Overtaking(a)) /\ IsFiniteSet(Overtaking(a)')
         /\ Cardinality(Overtaking(a)) \in Nat
         /\ Cardinality(Overtaking(a)') \in Nat
         /\ Cardinality(Caller) \in Nat \ {0}
         /\ Cardinality(Overtaking(a)') <= Cardinality(Caller)
  <1>1. Overtaking(a) \in SUBSET Caller /\ Overtaking(a)' \in SUBSET Caller
    BY DEF Overtaking
  <1>2. Cardinality(Caller) \in Nat \ {0}
    BY GuardrailAssumption, FS_CardinalityType, FS_EmptySet
  <1>3. /\ IsFiniteSet(Overtaking(a)) /\ IsFiniteSet(Overtaking(a)')
        /\ Cardinality(Overtaking(a)') <= Cardinality(Caller)
    BY <1>1, GuardrailAssumption, FS_Subset
  <1>4. QED
    BY <1>2, <1>3, FS_CardinalityType

\* Every other step leaves the daily counters alone and lets no slot overtake.
LEMMA DailySteps ==
  ASSUME TypeOK, [Next]_guardVars, NEW a \in Account
  PROVE  \/ daily'[a] = daily[a] /\ Overtaking(a)' \subseteq Overtaking(a)
         \/ daily'[a] = 0
         \/ DailyCap > 0 => daily[a] < DailyCap /\ daily'[a] = daily[a]
         \/ \E p \in Caller : IncrementDaily(p) /\ call[p].acct = a
  <1> USE DEF Overtaking, TypeOK, limitVars, historyVars, Goto
  <1>1. ASSUME NEW p \in Caller, Advance(p), ~CheckDaily(p),
               ~IncrementDaily(p)
        PROVE  daily' = daily /\ Overtaking(a)' \subseteq Overtaking(a)
    <2>1. CASE Preflight(p) \/ ConsumeRate(p) \/ Expire(p)
      BY <2>1 DEF Preflight, ConsumeRate, Expire
    <2>2. CASE ProviderAccepts(p) \/ ProviderRejects(p)
      BY <2>2 DEF ProviderAccepts, ProviderRejects
    <2>3. CASE RefundRead(p) \/ RefundDecr(p) \/ Return(p)
      BY <2>3 DEF RefundRead, RefundDecr, Return, Call
    <2>4. QED
      BY <1>1, <2>1, <2>2, <2>3 DEF Advance
  <1>2. ASSUME NEW p \in Caller, CheckDaily(p)
        PROVE  \/ daily' = daily /\ Overtaking(a)' \subseteq Overtaking(a)
               \/ DailyCap > 0 => daily[a] < DailyCap /\ daily'[a] = daily[a]
    <2>1. CASE Capped(daily[call[p].acct]) \/ ~(DailyCap > 0)
      BY <1>2, <2>1 DEF CheckDaily
    <2>2. CASE call[p].acct # a
      BY <1>2, <2>2 DEF CheckDaily
    <2>3. CASE call[p].acct = a /\ ~Capped(daily[a])
      BY <1>2, <2>3, GuardrailAssumption DEF CheckDaily, Capped
    <2>4. QED
      BY <2>1, <2>2, <2>3
  <1>3. ASSUME NEW p \in Caller, IncrementDaily(p), call[p].acct # a
        PROVE  daily'[a] = daily[a] /\ Overtaking(a)' \subseteq Overtaking(a)
    BY <1>3 DEF IncrementDaily, Call
  <1>4. ASSUME NEW p \in Caller, NEW b \in Account, NEW c \in Contact,
               NEW tmpl \in BOOLEAN, Load(p, b, c, tmpl)
        PROVE  daily' = daily /\ Overtaking(a)' \subseteq Overtaking(a)
    BY <1>4 DEF Load
  <1>5. CASE \/ \E b \in Account : WindowExpires(b)
             \/ \E b \in Account, v \in BOOLEAN : SetOutboundPaused(b, v)
             \/ \E c \in Contact : ContactWarms(c) \/ ContactCools(c)
             \/ Crash \/ UNCHANGED guardVars
    BY <1>5 DEF WindowExpires, SetOutboundPaused, ContactWarms, ContactCools,
       Crash, guardVars
  <1>6. CASE NewDay
    BY <1>6 DEF NewDay
  <1>7. QED
    BY <1>1, <1>2, <1>3, <1>4, <1>5, <1>6 DEF Next

\* The cap can be passed by the slots that read the counter together, by no
\* more than one message each, whatever days begin and calls fail meanwhile.
THEOREM DailyOvershoot == Spec => []DailyOvershootBounded
  <1>1. Init => DailyInv
    <2> SUFFICES ASSUME Init, NEW a \in Account, DailyCap > 0
                 PROVE  daily[a] + Cardinality(Overtaking(a))
                            <= DailyCap + Cardinality(Caller) - 1
      BY DEF DailyInv
    <2>1. Overtaking(a) = {} /\ daily[a] = 0
      BY DEF Init, Overtaking
    <2>2. QED
      BY <2>1, OvertakingFinite, FS_EmptySet, GuardrailAssumption
  <1>2. TypeOK /\ DailyInv /\ [Next]_guardVars => DailyInv'
    <2> SUFFICES ASSUME TypeOK, DailyInv, [Next]_guardVars,
                        NEW a \in Account, DailyCap > 0
                 PROVE  daily'[a] + Cardinality(Overtaking(a)')
                            <= DailyCap + Cardinality(Caller) - 1
      BY DEF DailyInv
    <2>1. /\ daily[a] \in Nat /\ daily'[a] \in Nat /\ DailyCap \in Nat
          /\ daily[a] + Cardinality(Overtaking(a))
                <= DailyCap + Cardinality(Caller) - 1
      BY TypeStep, GuardrailAssumption DEF TypeOK, DailyInv
    <2>2. CASE daily'[a] = daily[a] /\ Overtaking(a)' \subseteq Overtaking(a)
      <3>1. Cardinality(Overtaking(a)') <= Cardinality(Overtaking(a))
        BY <2>2, OvertakingFinite, FS_Subset
      <3>2. QED
        BY <2>1, <2>2, <3>1, OvertakingFinite
    <2>3. CASE daily'[a] = 0 \/ (daily[a] < DailyCap /\ daily'[a] = daily[a])
      BY <2>1, <2>3, OvertakingFinite
    <2>4. ASSUME NEW p \in Caller, IncrementDaily(p), call[p].acct = a
          PROVE  daily'[a] + Cardinality(Overtaking(a)')
                     <= DailyCap + Cardinality(Caller) - 1
      <3>1. /\ daily'[a] = daily[a] + 1
            /\ p \in Overtaking(a)
            /\ Overtaking(a)' = Overtaking(a) \ {p}
        BY <2>4 DEF IncrementDaily, Overtaking, Goto, TypeOK
      <3>2. Cardinality(Overtaking(a)') = Cardinality(Overtaking(a)) - 1
        BY <3>1, OvertakingFinite, FS_RemoveElement
      <3>3. QED
        BY <2>1, <3>1, <3>2, OvertakingFinite
    <2>5. QED
      BY <2>2, <2>3, <2>4, DailySteps
  <1>3. TypeOK /\ DailyInv => DailyOvershootBounded
    <2> SUFFICES ASSUME TypeOK, DailyInv, NEW a \in Account, DailyCap > 0
                 PROVE  daily[a] <= DailyCap + Cardinality(Caller) - 1
      BY DEF DailyOvershootBounded
    <2>1. QED
      BY OvertakingFinite, GuardrailAssumption DEF TypeOK, DailyInv
  <1>4. QED
    BY <1>1, <1>2, <1>3, TypeCorrect, PTL DEF Spec

-----------------------------------------------------------------------------
(* The per-minute rate. *)

\* Granted tokens that were not given back are all still counted, except for
\* the decrements that stale refunds made; refused callers only add to it.
RateInv ==
    \A a \in Account : /\ held[a] <= rate[a] + stale[a]
                       /\ held[a] <= PerMinute + stale[a]

\* A window never grants more than the limit plus its stale refunds.
THEOREM RateBounded == Spec => []RateBoundedUpToStaleRefunds
  <1>1. Init => RateInv
    BY GuardrailAssumption DEF Init, RateInv
  <1>2. TypeOK /\ RateInv /\ [Next]_guardVars => RateInv'
    <2> SUFFICES ASSUME TypeOK, RateInv, [Next]_guardVars,
                        NEW a \in Account
                 PROVE  /\ held'[a] <= rate'[a] + stale'[a]
                        /\ held'[a] <= PerMinute + stale'[a]
      BY DEF RateInv
    <2> USE DEF limitVars, historyVars
    <2>1. /\ held[a] \in Int /\ rate[a] \in Int /\ stale[a] \in Nat
          /\ PerMinute \in Nat
          /\ held[a] <= rate[a] + stale[a]
          /\ held[a] <= PerMinute + stale[a]
      BY GuardrailAssumption DEF TypeOK, RateInv
    <2>2. ASSUME NEW p \in Caller, ConsumeRate(p)
          PROVE  /\ held'[a] <= rate'[a] + stale'[a]
                 /\ held'[a] <= PerMinute + stale'[a]
      BY <2>1, <2>2 DEF ConsumeRate, Granted, TypeOK
    <2>3. ASSUME NEW p \in Caller, RefundDecr(p)
          PROVE  /\ held'[a] <= rate'[a] + stale'[a]
                 /\ held'[a] <= PerMinute + stale'[a]
      BY <2>1, <2>3 DEF RefundDecr, TypeOK
    <2>4. ASSUME NEW b \in Account, WindowExpires(b)
          PROVE  /\ held'[a] <= rate'[a] + stale'[a]
                 /\ held'[a] <= PerMinute + stale'[a]
      BY <2>1, <2>4 DEF WindowExpires, TypeOK
    <2>5. ASSUME NEW p \in Caller, Advance(p), ~ConsumeRate(p),
                 ~RefundDecr(p)
          PROVE  UNCHANGED <<held, rate, stale>>
      BY <2>5 DEF Advance, Preflight, Expire, CheckDaily, IncrementDaily,
         ProviderAccepts, ProviderRejects, RefundRead, Return
    <2>6. ASSUME NEW p \in Caller, NEW b \in Account, NEW c \in Contact,
                 NEW tmpl \in BOOLEAN, Load(p, b, c, tmpl)
          PROVE  UNCHANGED <<held, rate, stale>>
      BY <2>6 DEF Load
    <2>7. CASE \/ \E b \in Account, v \in BOOLEAN : SetOutboundPaused(b, v)
               \/ \E c \in Contact : ContactWarms(c) \/ ContactCools(c)
               \/ NewDay \/ Crash \/ UNCHANGED guardVars
      BY <2>1, <2>7 DEF SetOutboundPaused, ContactWarms, ContactCools, NewDay,
         Crash, guardVars
    <2>8. QED
      BY <2>1, <2>2, <2>3, <2>4, <2>5, <2>6, <2>7 DEF Next
  <1>3. RateInv => RateBoundedUpToStaleRefunds
    BY DEF RateInv, RateBoundedUpToStaleRefunds
  <1>4. QED
    BY <1>1, <1>2, <1>3, TypeCorrect, PTL DEF Spec

-----------------------------------------------------------------------------
(* Pausing an account. *)

BeforeSend == {"preflight", "consume", "expire", "daily", "incrDaily", "send"}

\* Calls on a whose account row was read while a was not paused.
Unaware(a) ==
    {p \in Caller : /\ pc[p] \in BeforeSend
                    /\ call[p].acct = a
                    /\ ~call[p].paused}

\* Past the pause check every call is unaware; while an account is paused each
\* message that slips out uses up one unaware call, and none is added.
PauseInv ==
    /\ \A p \in Caller : pc[p] \in BeforeSend \ {"preflight"} => ~call[p].paused
    /\ \A a \in Account :
           IF paused[a]
           THEN late[a] + Cardinality(Unaware(a)) <= Cardinality(Caller)
           ELSE late[a] = 0

\* The calls that carry a row read before the pause are at most all slots.
LEMMA UnawareFinite ==
  ASSUME NEW a \in Account
  PROVE  /\ IsFiniteSet(Unaware(a)) /\ IsFiniteSet(Unaware(a)')
         /\ Cardinality(Unaware(a)) \in Nat
         /\ Cardinality(Unaware(a)') \in Nat
         /\ Cardinality(Caller) \in Nat
         /\ Cardinality(Unaware(a)') <= Cardinality(Caller)
  <1>1. Unaware(a) \in SUBSET Caller /\ Unaware(a)' \in SUBSET Caller
    BY DEF Unaware
  <1>2. QED
    BY <1>1, GuardrailAssumption, FS_Subset, FS_CardinalityType

\* Every step but the provider's acceptance and the pause switch adds no unaware
\* call to a paused account and does not touch the history of late messages.
LEMMA PauseSteps ==
  ASSUME TypeOK, PauseInv, [Next]_guardVars, NEW a \in Account
  PROVE  \/ /\ late'[a] = late[a] /\ paused'[a] = paused[a]
            /\ paused[a] => Unaware(a)' \subseteq Unaware(a)
         \/ \E p \in Caller : ProviderAccepts(p) /\ call[p].acct = a
         \/ \E v \in BOOLEAN : SetOutboundPaused(a, v)
  <1> USE DEF Unaware, BeforeSend, TypeOK, limitVars, historyVars, Goto
  <1>1. ASSUME NEW p \in Caller, Advance(p), ~ProviderAccepts(p)
        PROVE  /\ late' = late /\ paused' = paused
               /\ Unaware(a)' \subseteq Unaware(a)
    <2>1. CASE Preflight(p) \/ ConsumeRate(p) \/ Expire(p)
      BY <2>1 DEF Preflight, ConsumeRate, Expire
    <2>2. CASE CheckDaily(p)
      BY <2>2 DEF CheckDaily, Call
    <2>3. CASE IncrementDaily(p) \/ ProviderRejects(p)
      BY <2>3 DEF IncrementDaily, ProviderRejects, Call
    <2>4. CASE RefundRead(p) \/ RefundDecr(p) \/ Return(p)
      BY <2>4 DEF RefundRead, RefundDecr, Return, Call
    <2>5. QED
      BY <1>1, <2>1, <2>2, <2>3, <2>4 DEF Advance
  <1>2. ASSUME NEW p \in Caller, ProviderAccepts(p), call[p].acct # a
        PROVE  /\ late'[a] = late[a] /\ paused' = paused
               /\ Unaware(a)' \subseteq Unaware(a)
    BY <1>2 DEF ProviderAccepts, Call
  <1>3. ASSUME NEW p \in Caller, NEW b \in Account, NEW c \in Contact,
               NEW tmpl \in BOOLEAN, Load(p, b, c, tmpl)
        PROVE  /\ late' = late /\ paused' = paused
               /\ paused[a] => Unaware(a)' \subseteq Unaware(a)
    BY <1>3 DEF Load
  <1>4. ASSUME NEW b \in Account, NEW v \in BOOLEAN, SetOutboundPaused(b, v),
               b # a
        PROVE  /\ late'[a] = late[a] /\ paused'[a] = paused[a]
               /\ Unaware(a)' \subseteq Unaware(a)
    BY <1>4 DEF SetOutboundPaused
  <1>5. CASE \/ \E b \in Account : WindowExpires(b)
             \/ \E c \in Contact : ContactWarms(c) \/ ContactCools(c)
             \/ NewDay \/ Crash \/ UNCHANGED guardVars
    BY <1>5 DEF WindowExpires, ContactWarms, ContactCools, NewDay, Crash,
       guardVars
  <1>6. QED
    BY <1>1, <1>2, <1>3, <1>4, <1>5 DEF Next

\* No call gets past the pause check with a row that says paused.
LEMMA PauseChecked ==
  ASSUME TypeOK, PauseInv, [Next]_guardVars, NEW q \in Caller,
         pc'[q] \in BeforeSend \ {"preflight"}
  PROVE  ~call'[q].paused
  <1> USE DEF PauseInv, BeforeSend, TypeOK, limitVars, historyVars, Goto
  <1>1. ASSUME NEW p \in Caller, Advance(p)
        PROVE  ~call'[q].paused
    <2>1. CASE Preflight(p) \/ ConsumeRate(p) \/ Expire(p)
      BY <2>1 DEF Preflight, ConsumeRate, Expire
    <2>2. CASE CheckDaily(p) \/ IncrementDaily(p)
      BY <2>2 DEF CheckDaily, IncrementDaily, Call
    <2>3. CASE ProviderAccepts(p) \/ ProviderRejects(p)
      BY <2>3 DEF ProviderAccepts, ProviderRejects, Call
    <2>4. CASE RefundRead(p) \/ RefundDecr(p) \/ Return(p)
      BY <2>4 DEF RefundRead, RefundDecr, Return, Call, NoCall
    <2>5. QED
      BY <1>1, <2>1, <2>2, <2>3, <2>4 DEF Advance
  <1>2. ASSUME NEW p \in Caller, NEW b \in Account, NEW c \in Contact,
               NEW tmpl \in BOOLEAN, Load(p, b, c, tmpl)
        PROVE  ~call'[q].paused
    BY <1>2 DEF Load
  <1>3. CASE \/ \E b \in Account : WindowExpires(b)
             \/ \E b \in Account, v \in BOOLEAN : SetOutboundPaused(b, v)
             \/ \E c \in Contact : ContactWarms(c) \/ ContactCools(c)
             \/ NewDay \/ Crash \/ UNCHANGED guardVars
    BY <1>3 DEF WindowExpires, SetOutboundPaused, ContactWarms, ContactCools,
       NewDay, Crash, guardVars
  <1>4. QED
    BY <1>1, <1>2, <1>3 DEF Next

\* After a pause at most one message per worker slot still goes out.
THEOREM PauseLeak == Spec => []PauseLeakBounded
  <1>1. Init => PauseInv
    BY DEF Init, PauseInv, BeforeSend
  <1>2. TypeOK /\ PauseInv /\ [Next]_guardVars => PauseInv'
    <2> SUFFICES ASSUME TypeOK, PauseInv, [Next]_guardVars,
                        NEW a \in Account
                 PROVE  IF paused'[a]
                        THEN late'[a] + Cardinality(Unaware(a)')
                                 <= Cardinality(Caller)
                        ELSE late'[a] = 0
      BY PauseChecked DEF PauseInv
    <2>1. /\ late[a] \in Nat /\ late'[a] \in Nat
          /\ IF paused[a]
             THEN late[a] + Cardinality(Unaware(a)) <= Cardinality(Caller)
             ELSE late[a] = 0
      BY TypeStep DEF TypeOK, PauseInv
    <2>2. CASE /\ late'[a] = late[a] /\ paused'[a] = paused[a]
               /\ paused[a] => Unaware(a)' \subseteq Unaware(a)
      <3>1. CASE paused[a]
        <4>1. Cardinality(Unaware(a)') <= Cardinality(Unaware(a))
          BY <2>2, <3>1, UnawareFinite, FS_Subset
        <4>2. QED
          BY <2>1, <2>2, <3>1, <4>1, UnawareFinite
      <3>2. QED
        BY <2>1, <2>2, <3>1
    <2>3. ASSUME NEW p \in Caller, ProviderAccepts(p), call[p].acct = a
          PROVE  IF paused'[a]
                 THEN late'[a] + Cardinality(Unaware(a)')
                          <= Cardinality(Caller)
                 ELSE late'[a] = 0
      <3>1. /\ p \in Unaware(a)
            /\ Unaware(a)' = Unaware(a) \ {p}
        BY <2>3 DEF ProviderAccepts, Unaware, BeforeSend, Goto, TypeOK,
           PauseInv, Call
      <3>2. Cardinality(Unaware(a)') = Cardinality(Unaware(a)) - 1
        BY <3>1, UnawareFinite, FS_RemoveElement
      <3>3. paused'[a] = paused[a]
        BY <2>3 DEF ProviderAccepts
      <3>4. late'[a] = IF paused[a] THEN late[a] + 1 ELSE late[a]
        BY <2>3 DEF ProviderAccepts, TypeOK
      <3>5. QED
        BY <2>1, <3>2, <3>3, <3>4, UnawareFinite
    <2>4. ASSUME NEW v \in BOOLEAN, SetOutboundPaused(a, v)
          PROVE  IF paused'[a]
                 THEN late'[a] + Cardinality(Unaware(a)')
                          <= Cardinality(Caller)
                 ELSE late'[a] = 0
      <3>1. Unaware(a)' = Unaware(a)
        BY <2>4 DEF SetOutboundPaused, Unaware
      <3>2. /\ paused'[a] = v
            /\ late'[a] = IF paused[a] /\ v THEN late[a] ELSE 0
        BY <2>4 DEF SetOutboundPaused, TypeOK
      <3>3. CASE paused[a] /\ v
        BY <2>1, <3>1, <3>2, <3>3
      <3>4. CASE ~(paused[a] /\ v)
        BY <3>2, <3>4, UnawareFinite
      <3>5. QED
        BY <3>3, <3>4
    <2>5. QED
      BY <2>2, <2>3, <2>4, PauseSteps
  <1>3. TypeOK /\ PauseInv => PauseLeakBounded
    <2> SUFFICES ASSUME TypeOK, PauseInv, NEW a \in Account
                 PROVE  late[a] <= Cardinality(Caller)
      BY DEF PauseLeakBounded
    <2>1. late[a] \in Nat
      BY DEF TypeOK
    <2>2. QED
      BY <2>1, UnawareFinite DEF PauseInv
  <1>4. QED
    BY <1>1, <1>2, <1>3, TypeCorrect, PTL DEF Spec
=============================================================================
