--------------------------- MODULE SessionsProofs ---------------------------
(***************************************************************************)
(* Theorems about Sessions, for every number of tokens, browsers and       *)
(* concurrent requests.                                                    *)
(***************************************************************************)
EXTENDS Sessions, TLAPS

\* A request that is over, whatever it was, leaves every request well formed.
LEMMA EndType ==
  ASSUME TypeOK, NEW r \in Request, End(r)
  PROVE  /\ step' \in [Request -> Step] /\ step'[r] = "idle"
         /\ from' \in [Request -> Device \cup {NoDevice}]
         /\ sent' \in [Request -> issued \cup {NoToken}]
         /\ given' \in [Request -> issued \cup {NoToken}]
         /\ \A q \in Request : step'[q] # "idle" =>
               /\ q # r /\ step'[q] = step[q]
               /\ from'[q] = from[q] /\ sent'[q] = sent[q]
         /\ \A q \in Request : step'[q] # "idle" => from'[q] \in Device
         /\ \A q \in Request : step'[q] \in Rotation => sent'[q] \in issued
  <1>1. /\ step' \in [Request -> Step] /\ step'[r] = "idle"
        /\ from' \in [Request -> Device \cup {NoDevice}]
        /\ sent' \in [Request -> issued \cup {NoToken}]
        /\ given' \in [Request -> issued \cup {NoToken}]
    BY DEF TypeOK, End, Goto, Step
  <1>2. \A q \in Request : step'[q] # "idle" =>
           /\ q # r /\ step'[q] = step[q]
           /\ from'[q] = from[q] /\ sent'[q] = sent[q]
    BY DEF TypeOK, End, Goto
  <1>3. "idle" \notin Rotation
    BY DEF Rotation
  <1>4. QED
    BY <1>1, <1>2, <1>3 DEF TypeOK

\* The same for a request that goes on to its next query.
LEMMA ContinueType ==
  ASSUME TypeOK, NEW r \in Request, NEW s \in Step, step[r] # "idle",
         s \in Rotation => step[r] \in Rotation, Continue(r, s)
  PROVE  /\ step' \in [Request -> Step] /\ step'[r] = s
         /\ from' = from /\ sent' = sent
         /\ \A q \in Request : q # r => step'[q] = step[q]
         /\ \A q \in Request : step'[q] # "idle" => from[q] \in Device
         /\ \A q \in Request : step'[q] \in Rotation => sent[q] \in issued
  BY DEF TypeOK, Continue, Goto

\* A new row keeps every reference to a token valid.
LEMMA InsertType ==
  ASSUME TypeOK, NEW r \in Request, NEW s \in Step, step[r] # "idle",
         s \in Rotation => step[r] \in Rotation,
         NEW t \in Token \ issued, NEW f \in Token, Insert(r, t, f, s),
         UNCHANGED <<revoked, expired, active, cookie, dead, fenced>>
  PROVE  TypeOK'
  <1>1. /\ step' \in [Request -> Step] /\ from' = from /\ sent' = sent
        /\ \A q \in Request : step'[q] # "idle" => from[q] \in Device
        /\ \A q \in Request : step'[q] \in Rotation => sent[q] \in issued
    BY ContinueType DEF Insert
  <1>2. /\ issued' = issued \cup {t}
        /\ given' = [given EXCEPT ![r] = t]
        /\ family' = [family EXCEPT ![t] = f]
        /\ rough' = rough
    BY DEF Insert
  <1>3. /\ cookie \in [Device -> issued' \cup {NoToken}]
        /\ sent \in [Request -> issued' \cup {NoToken}]
        /\ given' \in [Request -> issued' \cup {NoToken}]
        /\ family' \in [Token -> Token]
    BY <1>2 DEF TypeOK
  <1>4. /\ issued' \subseteq Token /\ revoked' \subseteq issued'
        /\ expired' \subseteq issued'
    <2>1. issued \subseteq Token /\ revoked \subseteq issued
          /\ expired \subseteq issued
      BY DEF TypeOK
    <2>2. t \in Token /\ revoked' = revoked /\ expired' = expired
      OBVIOUS
    <2>3. QED
      BY <1>2, <2>1, <2>2
  <1>9. \A q \in Request : step'[q] \in Rotation => sent'[q] \in issued'
    BY <1>1, <1>2
  <1>5. active' \in BOOLEAN
    BY Zenon DEF TypeOK
  <1>8. /\ dead' \subseteq Token /\ fenced' \subseteq Token
        /\ rough' \subseteq Device /\ cookie' = cookie
    BY <1>2 DEF TypeOK
  <1>6. /\ from' \in [Request -> Device \cup {NoDevice}]
        /\ \A q \in Request : step'[q] # "idle" => from'[q] \in Device
    BY <1>1 DEF TypeOK
  <1>7. QED
    BY <1>1, <1>3, <1>4, <1>5, <1>6, <1>8, <1>9 DEF TypeOK

\* A request comes in only from a browser, with that browser's cookie.
LEMMA BeginType ==
  ASSUME TypeOK, NEW r \in Request, NEW d \in Device, NEW s \in Step,
         NEW t \in issued \cup {NoToken}, s \in Rotation => t \in issued,
         Begin(r, s, d, t)
  PROVE  /\ step' \in [Request -> Step] /\ step'[r] = s
         /\ from' \in [Request -> Device \cup {NoDevice}]
         /\ sent' \in [Request -> issued \cup {NoToken}] /\ sent'[r] = t
         /\ given' = given
         /\ \A q \in Request : step'[q] # "idle" => from'[q] \in Device
         /\ \A q \in Request : q # r => step'[q] = step[q] /\ sent'[q] = sent[q]
         /\ \A q \in Request : step'[q] \in Rotation => sent'[q] \in issued
  BY DEF TypeOK, Begin, Goto

\* A failing request is over.
LEMMA FailsType ==
  ASSUME TypeOK, NEW r \in Request, step[r] # "idle", Fails(r),
         UNCHANGED <<issued, family, expired, active, cookie>>,
         revoked' \subseteq issued, dead' \subseteq Token, fenced' \subseteq Token
  PROVE  TypeOK'
  <1>1. End(r) /\ rough' \subseteq Device
    BY DEF Fails, TypeOK
  <1>2. QED
    BY <1>1, EndType DEF TypeOK

\* Every step keeps every variable typed; in particular a cookie, a request or
\* an answer never holds a token without a row.
LEMMA TypeStep == TypeOK /\ [Next]_vars => TypeOK'
  <1> SUFFICES ASSUME TypeOK, [Next]_vars
               PROVE  TypeOK'
    OBVIOUS
  <1> USE DEF tokenVars, reqVars, histVars
  <1>1. ASSUME NEW r \in Request, Handle(r)
        PROVE  TypeOK'
    <2>0. step[r] # "idle"
      BY <1>1 DEF Handle, Find, Issue, RevokeOld, CheckPrincipal,
                  RevokeFamily, Respond, StartFamily, Revoke
    <2>a. ASSUME NEW s \in Step, Continue(r, s),
                 s \in Rotation => step[r] \in Rotation,
                 UNCHANGED <<issued, family, expired, active, cookie, given,
                             dead, fenced, rough>>,
                 revoked' \subseteq issued
          PROVE  TypeOK'
      BY <2>0, <2>a, ContinueType DEF TypeOK
    <2>b. revoked \subseteq issued /\ dead \subseteq Token
          /\ fenced \subseteq Token /\ issued \subseteq Token
      BY DEF TypeOK
    <2>c. step[r] \in Rotation => sent[r] \in issued /\ family[sent[r]] \in Token
      BY DEF TypeOK
    <2>1. CASE Find(r)
      BY <2>0, <2>1, <2>a, <2>b, FailsType DEF Find, Step, Rotation
    <2>2. CASE Issue(r)
      <3>1. CASE Fails(r) /\ UNCHANGED <<issued, family>>
        BY <2>0, <2>2, <3>1, <2>b, FailsType DEF Issue
      <3>2. ASSUME NEW t \in Token \ issued,
                   Insert(r, t, family[sent[r]], "revokeOld")
            PROVE  TypeOK'
        BY <2>0, <2>2, <2>c, <3>2, InsertType DEF Issue, Step, Rotation
      <3>3. QED
        BY <2>2, <3>1, <3>2 DEF Issue
    <2>3. CASE RevokeOld(r)
      <3>1. revoked \cup {sent[r]} \subseteq issued
        BY <2>3, <2>b, <2>c DEF RevokeOld, Rotation
      <3>2. QED
        BY <2>0, <2>3, <3>1, <2>a, <2>b, FailsType DEF RevokeOld, Step, Rotation
    <2>4. CASE CheckPrincipal(r)
      BY <2>0, <2>4, <2>a, <2>b, FailsType DEF CheckPrincipal, Step, Rotation
    <2>5. CASE RevokeFamily(r)
      <3>1. /\ revoked \cup Members(family[sent[r]]) \subseteq issued
            /\ dead \cup {family[sent[r]]} \subseteq Token
        BY <2>5, <2>b, <2>c DEF RevokeFamily, Members, Rotation
      <3>2. revoked' \subseteq issued /\ dead' \subseteq Token
        BY <2>5, <3>1, <2>b DEF RevokeFamily
      <3>3. QED
        BY <2>0, <2>5, <3>2, <2>b, FailsType DEF RevokeFamily
    <2>6. CASE Respond(r)
      <3>1. CASE Fails(r) /\ UNCHANGED cookie
        BY <2>0, <2>6, <3>1, <2>b, FailsType DEF Respond
      <3>2. CASE /\ cookie' = [cookie EXCEPT ![from[r]] = given[r]]
                 /\ End(r) /\ UNCHANGED rough
        <4>1. cookie' \in [Device -> issued \cup {NoToken}]
          BY <3>2 DEF TypeOK
        <4>2. QED
          BY <2>6, <3>2, <4>1, EndType DEF Respond, TypeOK
      <3>3. QED
        BY <2>6, <3>1, <3>2 DEF Respond
    <2>7. CASE StartFamily(r)
      <3>1. CASE Fails(r) /\ UNCHANGED <<issued, family>>
        BY <2>0, <2>7, <3>1, <2>b, FailsType DEF StartFamily
      <3>2. ASSUME NEW t \in Token \ issued, Insert(r, t, t, "respond")
            PROVE  TypeOK'
        BY <2>0, <2>7, <3>2, InsertType DEF StartFamily, Step, Rotation
      <3>3. QED
        BY <2>7, <3>1, <3>2 DEF StartFamily
    <2>8. CASE Revoke(r)
      <3>1. revoked \cup ({sent[r]} \ {NoToken}) \subseteq issued
        BY <2>b DEF TypeOK
      <3>2. QED
        BY <2>0, <2>8, <3>1, <2>a, <2>b, FailsType DEF Revoke, Step, Rotation
    <2>9. QED
      BY <1>1, <2>1, <2>2, <2>3, <2>4, <2>5, <2>6, <2>7, <2>8 DEF Handle
  <1>2. ASSUME NEW r \in Request, NEW d \in Device,
               SendRefresh(r, d) \/ Login(r, d) \/ SendLogout(r, d)
        PROVE  TypeOK'
    <2>1. cookie[d] \in issued \cup {NoToken} /\ d \in Device
      BY DEF TypeOK
    <2>2. CASE SendRefresh(r, d)
      BY <2>1, <2>2, BeginType DEF SendRefresh, TypeOK, Step, Rotation
    <2>3. CASE Login(r, d)
      BY <2>1, <2>3, BeginType DEF Login, TypeOK, Step, Rotation
    <2>4. CASE SendLogout(r, d)
      BY <2>1, <2>4, BeginType DEF SendLogout, TypeOK, Step, Rotation
    <2>5. QED
      BY <1>2, <2>2, <2>3, <2>4
  <1>3. CASE ConfirmReset
    BY <1>3 DEF ConfirmReset, TypeOK
  <1>4. CASE Crash
    BY <1>4 DEF Crash, TypeOK, Step, Rotation
  <1>5. ASSUME NEW t \in Token, Expire(t)
        PROVE  TypeOK'
    BY <1>5 DEF Expire, TypeOK
  <1>6. ASSUME NEW d \in Device, DropCookie(d)
        PROVE  TypeOK'
    BY <1>6 DEF DropCookie, TypeOK
  <1>7. ASSUME NEW value \in BOOLEAN, SetActive(value)
        PROVE  TypeOK'
    BY <1>7 DEF SetActive, TypeOK
  <1>8. CASE UNCHANGED vars
    BY <1>8 DEF vars, TypeOK
  <1>9. QED
    BY <1>1, <1>2, <1>3, <1>4, <1>5, <1>6, <1>7, <1>8 DEF Next

\* No token exists and no request runs at the start.
LEMMA TypeInit == Init => TypeOK
  BY DEF Init, TypeOK, Step, Rotation

\* TypeOK holds in every reachable state of the sessions.
THEOREM TypeCorrect == Spec => []TypeOK
  BY TypeInit, TypeStep, PTL DEF Spec

-----------------------------------------------------------------------------
(* Revoked families stay revoked. *)

\* Families have a first token, and a family revoked while none of its
\* rotations was between its check and its insert has neither a live token nor
\* such a rotation: nothing is left that could insert one.
DeadForGood ==
    /\ \A t \in issued : family[t] \in issued
    /\ dead \subseteq issued
    /\ \A f \in dead : ~Rotating(f)
    /\ NoResurrection

\* The start of a new row of a family that is not dead, or of a new family.
LEMMA InsertDead ==
  ASSUME TypeOK, DeadForGood, NEW r \in Request, NEW s \in Step \ {"issue"},
         NEW t \in Token \ issued, NEW f \in issued \cup {t}, Insert(r, t, f, s),
         f \in issued => \E u \in issued : f = family[u],
         f \notin dead,
         UNCHANGED <<revoked, expired, dead>>
  PROVE  DeadForGood'
  <1>1. /\ issued' = issued \cup {t}
        /\ family' \in [Token -> Token] /\ family'[t] = f
        /\ \A u \in issued : family'[u] = family[u]
        /\ sent' = sent
    <2>1. t \in Token /\ f \in Token
      BY DEF TypeOK
    <2>2. QED
      BY <2>1 DEF Insert, Continue, TypeOK
  <1>2. \A q \in Request : step'[q] = "issue" => step[q] = "issue"
    BY DEF Insert, Continue, Goto, TypeOK
  <1>3. \A u \in issued' : family'[u] \in issued'
    BY <1>1 DEF DeadForGood
  <1>4. \A g \in dead' : ~Rotating(g)'
    <2>1. SUFFICES ASSUME NEW g \in dead, NEW q \in Request,
                          step'[q] = "issue", family'[sent'[q]] = g
                   PROVE  FALSE
      BY DEF Rotating
    <2>2. step[q] = "issue" /\ sent[q] \in issued
      BY <2>1, <1>2 DEF TypeOK, Rotation
    <2>3. family[sent[q]] = g
      BY <2>1, <2>2, <1>1
    <2>4. QED
      BY <2>1, <2>2, <2>3 DEF DeadForGood, Rotating
  <1>5. \A g \in dead' : \A u \in Members(g)' : ~Live(u)'
    <2>1. SUFFICES ASSUME NEW g \in dead, NEW u \in issued', family'[u] = g
                   PROVE  ~Live(u)'
      BY DEF Members
    <2>2. u \in issued /\ family[u] = g
      BY <2>1, <1>1
    <2>3. ~Live(u)
      BY <2>1, <2>2 DEF DeadForGood, NoResurrection, Members
    <2>4. QED
      BY <2>2, <2>3 DEF Live
  <1>6. QED
    BY <1>1, <1>3, <1>4, <1>5 DEF DeadForGood, NoResurrection

\* A step that inserts no token, revives none and sends no request of a dead
\* family to its insert.
LEMMA QuietDead ==
  ASSUME TypeOK, DeadForGood, UNCHANGED <<issued, family>>,
         revoked \subseteq revoked', expired \subseteq expired',
         NEW D \in SUBSET issued, dead' = dead \cup D,
         \A f \in D : ~Rotating(f)' /\ \A t \in Members(f) : t \in revoked',
         \A q \in Request : step'[q] = "issue" =>
             /\ sent'[q] = sent[q]
             /\ step[q] = "issue" \/ Live(sent[q])
  PROVE  DeadForGood'
  <1>1. \A f \in dead : ~Rotating(f)'
    <2>1. SUFFICES ASSUME NEW f \in dead, NEW q \in Request,
                          step'[q] = "issue", family[sent[q]] = f
                   PROVE  FALSE
      BY DEF Rotating
    <2>2. step[q] # "issue"
      BY <2>1 DEF DeadForGood, Rotating
    <2>3. Live(sent[q]) /\ sent[q] \in Members(f)
      BY <2>1, <2>2 DEF Live, Members
    <2>4. QED
      BY <2>3 DEF DeadForGood, NoResurrection
  <1>2. \A f \in dead : \A t \in Members(f)' : ~Live(t)'
    BY DEF DeadForGood, NoResurrection, Members, Live
  <1>3. \A f \in D : \A t \in Members(f)' : ~Live(t)'
    BY DEF Members, Live
  <1>4. QED
    BY <1>1, <1>2, <1>3 DEF DeadForGood, NoResurrection

\* Every step keeps dead families dead.
LEMMA DeadStep == TypeOK /\ DeadForGood /\ [Next]_vars => DeadForGood'
  <1> SUFFICES ASSUME TypeOK, DeadForGood, [Next]_vars
               PROVE  DeadForGood'
    OBVIOUS
  <1> USE DEF tokenVars, reqVars, histVars
  <1>a. ASSUME UNCHANGED <<issued, family, dead>>,
               revoked \subseteq revoked', expired \subseteq expired',
               \A q \in Request : step'[q] = "issue" =>
                   sent'[q] = sent[q] /\ (step[q] = "issue" \/ Live(sent[q]))
        PROVE  DeadForGood'
    <2>1. {} \in SUBSET issued /\ dead' = dead \cup {}
      BY <1>a
    <2>2. QED
      BY <1>a, <2>1, QuietDead
  <1>b. ASSUME NEW r \in Request, Fails(r)
        PROVE  \A q \in Request : step'[q] = "issue" =>
                   sent'[q] = sent[q] /\ step[q] = "issue"
    BY <1>b, EndType DEF Fails
  <1>c. ASSUME NEW r \in Request, NEW s, Continue(r, s),
               s = "issue" => Live(sent[r])
        PROVE  \A q \in Request : step'[q] = "issue" =>
                   sent'[q] = sent[q] /\ (step[q] = "issue" \/ Live(sent[q]))
    BY <1>c DEF Continue, Goto, TypeOK
  <1>1. ASSUME NEW r \in Request, Handle(r)
        PROVE  DeadForGood'
    <2>1. CASE Find(r)
      BY <2>1, <1>a, <1>b, <1>c DEF Find
    <2>2. CASE Issue(r)
      <3>1. CASE Fails(r) /\ UNCHANGED <<issued, family>>
        BY <2>2, <3>1, <1>a, <1>b DEF Issue
      <3>2. ASSUME NEW t \in Token \ issued,
                   Insert(r, t, family[sent[r]], "revokeOld")
            PROVE  DeadForGood'
        <4>1. sent[r] \in issued
          BY <2>2 DEF Issue, TypeOK, Rotation
        <4>2. family[sent[r]] \in issued /\ family[sent[r]] \notin dead
          BY <2>2, <4>1 DEF Issue, DeadForGood, Rotating
        <4>3. UNCHANGED <<revoked, expired, dead>>
          BY <2>2 DEF Issue
        <4>4. "revokeOld" \in Step \ {"issue"}
          BY DEF Step, Rotation
        <4>5. QED
          BY <3>2, <4>1, <4>2, <4>3, <4>4, InsertDead
      <3>3. QED
        BY <2>2, <3>1, <3>2 DEF Issue
    <2>3. CASE RevokeOld(r)
      BY <2>3, <1>a, <1>b, <1>c DEF RevokeOld
    <2>4. CASE CheckPrincipal(r)
      BY <2>4, <1>a, <1>b, <1>c DEF CheckPrincipal
    <2>5. CASE RevokeFamily(r)
      <3>a. PICK f \in issued : f = family[sent[r]]
        BY <2>5 DEF RevokeFamily, TypeOK, Rotation, DeadForGood
      <3>0. Fails(r) /\ UNCHANGED <<issued, family, expired>>
        BY <2>5 DEF RevokeFamily
      <3>1. CASE UNCHANGED <<revoked, dead>>
        BY <3>0, <3>1, <1>a, <1>b
      <3>2. CASE revoked' = revoked \cup Members(f) /\ dead' = dead
        BY <3>0, <3>2, <1>a, <1>b
      <3>3. CASE /\ revoked' = revoked \cup Members(f)
                 /\ ~Rotating(f) /\ dead' = dead \cup {f}
        <4>1. ~Rotating(f)'
          BY <3>0, <3>3, <1>b DEF Rotating
        <4>2. {f} \in SUBSET issued
          BY <3>0
        <4>3. \A q \in Request : step'[q] = "issue" =>
                  sent'[q] = sent[q] /\ (step[q] = "issue" \/ Live(sent[q]))
          BY <3>0, <1>b
        <4>4. QED
          BY <3>0, <3>3, <4>1, <4>2, <4>3, QuietDead
      <3>4. QED
        BY <2>5, <3>a, <3>1, <3>2, <3>3 DEF RevokeFamily
    <2>6. CASE Respond(r)
      <3>1. CASE Fails(r)
        BY <2>6, <3>1, <1>a, <1>b DEF Respond
      <3>2. CASE End(r)
        BY <2>6, <3>2, <1>a, EndType DEF Respond
      <3>3. QED
        BY <2>6, <3>1, <3>2 DEF Respond
    <2>7. CASE StartFamily(r)
      <3>1. CASE Fails(r) /\ UNCHANGED <<issued, family>>
        BY <2>7, <3>1, <1>a, <1>b DEF StartFamily
      <3>2. ASSUME NEW t \in Token \ issued, Insert(r, t, t, "respond")
            PROVE  DeadForGood'
        <4>1. t \notin dead
          BY DEF DeadForGood
        <4>2. UNCHANGED <<revoked, expired, dead>>
          BY <2>7 DEF StartFamily
        <4>3. "respond" \in Step \ {"issue"}
          BY DEF Step, Rotation
        <4>4. QED
          BY <3>2, <4>1, <4>2, <4>3, InsertDead
      <3>3. QED
        BY <2>7, <3>1, <3>2 DEF StartFamily
    <2>8. CASE Revoke(r)
      BY <2>8, <1>a, <1>b, <1>c DEF Revoke
    <2>9. QED
      BY <1>1, <2>1, <2>2, <2>3, <2>4, <2>5, <2>6, <2>7, <2>8 DEF Handle
  <1>2. ASSUME NEW r \in Request, NEW d \in Device,
               SendRefresh(r, d) \/ Login(r, d) \/ SendLogout(r, d)
        PROVE  DeadForGood'
    BY <1>2, <1>a DEF SendRefresh, Login, SendLogout, Begin, Goto, TypeOK
  <1>3. CASE ConfirmReset
    <2> DEFINE D == {f \in fenced' : ~Rotating(f)}
    <2>1. D \in SUBSET issued /\ dead' = dead \cup D
      BY <1>3 DEF ConfirmReset, DeadForGood
    <2>2. \A f \in D : ~Rotating(f)' /\ \A t \in Members(f) : t \in revoked'
      BY <1>3 DEF ConfirmReset, Rotating, Members
    <2>3. revoked \subseteq revoked'
      BY <1>3 DEF ConfirmReset, TypeOK
    <2>4. QED
      BY <1>3, <2>1, <2>2, <2>3, QuietDead DEF ConfirmReset
  <1>4. CASE Crash
    BY <1>4, <1>a DEF Crash
  <1>5. ASSUME NEW t \in Token, Expire(t)
        PROVE  DeadForGood'
    BY <1>5, <1>a DEF Expire
  <1>6. ASSUME NEW d \in Device, DropCookie(d)
        PROVE  DeadForGood'
    BY <1>6, <1>a DEF DropCookie
  <1>7. ASSUME NEW value \in BOOLEAN, SetActive(value)
        PROVE  DeadForGood'
    BY <1>7, <1>a DEF SetActive
  <1>8. CASE UNCHANGED vars
    BY <1>8, <1>a DEF vars
  <1>9. QED
    BY <1>1, <1>2, <1>3, <1>4, <1>5, <1>6, <1>7, <1>8 DEF Next

\* A family that reuse detection or a reset revoked, while no rotation of it
\* was between its check and its insert, never gets a live token again.
THEOREM RevocationLasts == Spec => []NoResurrection
  <1>1. Init => DeadForGood
    BY DEF Init, DeadForGood, NoResurrection
  <1>2. QED
    BY <1>1, TypeInit, TypeStep, DeadStep, PTL DEF Spec, DeadForGood

-----------------------------------------------------------------------------
(* A browser that refreshes one call at a time keeps its session. *)

\* The tokens of a browser: its cookie, and those its requests carry.
Holds(d, x) ==
    /\ x # NoToken
    /\ \/ x = cookie[d]
       \/ \E r \in Request : from[r] = d /\ (x = sent[r] \/ x = given[r])

\* No two browsers hold tokens of one family: a family starts with a login
\* and its tokens travel between the API and one browser only.
Apart ==
    \A d, e \in Device : d # e =>
        \A x, y : Holds(d, x) /\ Holds(e, y) => family[x] # family[y]

\* What a request of a browser that never met trouble may rely on.
OnCourse(r) ==
    \/ step[r] = "login"
    \/ step[r] \in {"find", "issue"} /\ Live(sent[r])
    \/ step[r] = "revokeOld" /\ Live(given[r]) /\ given[r] # sent[r]
    \/ step[r] \in {"principal", "respond"} /\ Live(given[r])

\* The strengthening: requests that are over hold nothing, and a browser that
\* never met trouble has at most one request under way, which is on course.
Undisturbed ==
    /\ \A r \in Request : step[r] = "idle" =>
           from[r] = NoDevice /\ sent[r] = NoToken /\ given[r] = NoToken
    /\ \A t \in issued : family[t] \in issued
    /\ Apart
    /\ \A d \in Device \ rough :
           \A q, r \in Request : from[q] = d /\ from[r] = d => q = r
    /\ \A r \in Request : from[r] \in Device \ rough => OnCourse(r)
    /\ SequentialRefreshKeepsSession

\* What a browser holds has a row.
LEMMA HeldIssued ==
  ASSUME TypeOK, NEW d \in Device, NEW x, Holds(d, x)
  PROVE  x \in issued
  BY DEF TypeOK, Holds

\* Browsers stay apart when a step gives a browser only tokens of families it
\* held, or, to one of them, a token of a family nobody held.
LEMMA ApartKept ==
  ASSUME Apart, NEW b, NEW f,
         \A d \in Device : \A y : Holds(d, y) => family[y] # f,
         \A d \in Device : \A x : Holds(d, x)' =>
             \/ \E y : Holds(d, y) /\ family'[x] = family[y]
             \/ d = b /\ family'[x] = f
  PROVE  Apart'
  <1>1. SUFFICES ASSUME NEW d \in Device, NEW e \in Device, d # e,
                        NEW x, NEW y, Holds(d, x)', Holds(e, y)'
                 PROVE  family'[x] # family'[y]
    BY DEF Apart
  <1>2. \/ \E u : Holds(d, u) /\ family'[x] = family[u]
        \/ d = b /\ family'[x] = f
    BY <1>1
  <1>3. \/ \E u : Holds(e, u) /\ family'[y] = family[u]
        \/ e = b /\ family'[y] = f
    BY <1>1
  <1>4. QED
    BY <1>1, <1>2, <1>3 DEF Apart

\* The same for a step that brings no family to anybody.
LEMMA ApartQuiet ==
  ASSUME Apart,
         \A d \in Device : \A x : Holds(d, x)' =>
             Holds(d, x) /\ family'[x] = family[x]
  PROVE  Apart'
  <1>1. SUFFICES ASSUME NEW d \in Device, NEW e \in Device, d # e,
                        NEW x, NEW y, Holds(d, x)', Holds(e, y)'
                 PROVE  family'[x] # family'[y]
    BY DEF Apart
  <1>2. QED
    BY <1>1 DEF Apart

\* A step of request r, of browser b, that revokes only tokens of families b
\* holds, and after which b has met trouble or r is on course or answered with
\* a live cookie, disturbs nobody.
LEMMA RequestStep ==
  ASSUME TypeOK, Undisturbed, NEW r \in Request, NEW b \in Device,
         step[r] # "idle", from[r] = b, Apart',
         \A q \in Request \ {r} :
             /\ step'[q] = step[q] /\ from'[q] = from[q]
             /\ sent'[q] = sent[q] /\ given'[q] = given[q],
         \A e \in Device \ {b} : cookie'[e] = cookie[e],
         issued \subseteq issued', expired' = expired,
         \A u \in revoked' : u \in revoked \/
             \E y : Holds(b, y) /\ family[u] = family[y],
         \A t \in issued' : family'[t] \in issued',
         step'[r] = "idle" =>
             from'[r] = NoDevice /\ sent'[r] = NoToken /\ given'[r] = NoToken,
         from'[r] \in {b, NoDevice},
         \/ rough' = rough \cup {b}
         \/ /\ rough' = rough
            /\ b \notin rough =>
                 \/ from'[r] = b /\ OnCourse(r)'
                 \/ from'[r] = NoDevice /\ (cookie'[b] # NoToken => Live(cookie[b])')
  PROVE  Undisturbed'
  <1>1. \A e \in Device \ {b} : \A x : Holds(e, x) /\ Live(x) => Live(x)'
    <2>1. SUFFICES ASSUME NEW e \in Device \ {b}, NEW x, Holds(e, x), Live(x),
                          x \in revoked'
                   PROVE  FALSE
      BY DEF Live
    <2>2. PICK y : Holds(b, y) /\ family[x] = family[y]
      BY <2>1 DEF Live
    <2>3. QED
      BY <2>1, <2>2 DEF Undisturbed, Apart
  <1>2. NoDevice \notin Device
    BY SessionAssumption
  <1>3. \A q \in Request : step'[q] = "idle" =>
            from'[q] = NoDevice /\ sent'[q] = NoToken /\ given'[q] = NoToken
    BY DEF Undisturbed
  <1>4. \A d \in Device \ rough' : \A p, q \in Request :
            from'[p] = d /\ from'[q] = d => p = q
    <2>1. SUFFICES ASSUME NEW d \in Device \ rough', NEW p \in Request,
                          NEW q \in Request, from'[p] = d, from'[q] = d
                   PROVE  p = q
      OBVIOUS
    <2>2. d \notin rough
      OBVIOUS
    <2>3. from[p] = d /\ from[q] = d
      BY <1>2, <2>1
    <2>4. QED
      BY <2>2, <2>3 DEF Undisturbed
  <1>5. \A q \in Request : from'[q] \in Device \ rough' => OnCourse(q)'
    <2>1. SUFFICES ASSUME NEW q \in Request, from'[q] \in Device \ rough'
                   PROVE  OnCourse(q)'
      OBVIOUS
    <2>2. CASE q = r
      BY <1>2, <2>1, <2>2
    <2>3. CASE q # r
      <3>1. from'[q] = from[q] /\ from[q] \in Device \ rough /\ OnCourse(q)
        BY <2>1, <2>3 DEF Undisturbed
      <3>2. from[q] # b
        BY <2>1, <2>3, <3>1, <1>2 DEF Undisturbed
      <3>3. \A x \in {sent[q], given[q]} : Live(x) => Live(x)'
        <4>1. SUFFICES ASSUME NEW x \in {sent[q], given[q]}, Live(x)
                       PROVE  Live(x)'
          OBVIOUS
        <4>2. x # NoToken
          BY <4>1, SessionAssumption DEF Live, TypeOK
        <4>3. Holds(from[q], x)
          BY <4>2 DEF Holds
        <4>4. QED
          BY <1>1, <3>1, <3>2, <4>1, <4>3
      <3>4. /\ step'[q] = step[q] /\ sent'[q] = sent[q]
            /\ given'[q] = given[q]
        BY <2>3
      <3>5. (Live(sent[q]) => Live(sent[q])') /\ (Live(given[q]) => Live(given[q])')
        BY <3>3, <3>4 DEF Live
      <3>6. QED
        BY <3>1, <3>4, <3>5 DEF OnCourse
    <2>4. QED
      BY <2>2, <2>3
  <1>6. SequentialRefreshKeepsSession'
    <2>1. SUFFICES ASSUME NEW d \in Device, d \notin rough', ~Busy(d)',
                          cookie'[d] # NoToken
                   PROVE  Live(cookie[d])'
      BY DEF SequentialRefreshKeepsSession
    <2>2. CASE d = b
      BY <2>1, <2>2 DEF Busy
    <2>3. CASE d # b
      <3>1. d \notin rough /\ cookie'[d] = cookie[d]
        BY <2>1, <2>3
      <3>2. ~Busy(d)
        BY <2>1, <2>3 DEF Busy
      <3>3. Live(cookie[d]) /\ Holds(d, cookie[d])
        BY <2>1, <3>1, <3>2 DEF Undisturbed, SequentialRefreshKeepsSession, Holds
      <3>4. QED
        BY <1>1, <2>3, <3>1, <3>3 DEF Live
    <2>4. QED
      BY <2>2, <2>3
  <1>7. QED
    BY <1>3, <1>4, <1>5, <1>6 DEF Undisturbed

\* A request that comes in with a browser's cookie, or with nothing.
LEMMA SendStep ==
  ASSUME TypeOK, Undisturbed, NEW r \in Request, NEW d \in Device, NEW s \in Step,
         s # "idle", NEW t \in {cookie[d], NoToken}, Begin(r, s, d, t),
         UNCHANGED <<issued, family, revoked, expired, cookie>>,
         \/ /\ rough' = IF Busy(d) THEN rough \cup {d} ELSE rough
            /\ \/ s = "find" /\ t = cookie[d] /\ t # NoToken
               \/ s = "login"
         \/ rough' = rough \cup {d}
  PROVE  Undisturbed'
  <1>1. /\ from[r] = NoDevice /\ given[r] = NoToken
        /\ step'[r] = s /\ from'[r] = d /\ sent'[r] = t /\ given' = given
        /\ \A q \in Request \ {r} :
              step'[q] = step[q] /\ from'[q] = from[q] /\ sent'[q] = sent[q]
    BY DEF Begin, Goto, TypeOK, Undisturbed
  <1>2. NoDevice \notin Device
    BY SessionAssumption
  <1>3. Apart'
    <2>1. \A e \in Device : \A x : Holds(e, x)' => Holds(e, x)
      BY <1>1 DEF Holds
    <2>2. QED
      BY <2>1, ApartQuiet DEF Undisturbed
  <1>4. \A q \in Request : step'[q] = "idle" =>
            from'[q] = NoDevice /\ sent'[q] = NoToken /\ given'[q] = NoToken
    BY <1>1 DEF Undisturbed
  <1>5. \A e \in Device \ rough' : \A p, q \in Request :
            from'[p] = e /\ from'[q] = e => p = q
    <2>1. SUFFICES ASSUME NEW e \in Device \ rough', NEW p \in Request,
                          NEW q \in Request, from'[p] = e, from'[q] = e
                   PROVE  p = q
      OBVIOUS
    <2>2. e \notin rough /\ (e = d => ~Busy(d))
      OBVIOUS
    <2>3. CASE e = d
      BY <1>1, <2>1, <2>2, <2>3 DEF Busy
    <2>4. CASE e # d
      BY <1>1, <2>1, <2>2, <2>4 DEF Undisturbed
    <2>5. QED
      BY <2>3, <2>4
  <1>6. \A q \in Request : from'[q] \in Device \ rough' => OnCourse(q)'
    <2>1. SUFFICES ASSUME NEW q \in Request, from'[q] \in Device \ rough'
                   PROVE  OnCourse(q)'
      OBVIOUS
    <2>2. CASE q = r
      <3>1. /\ d \notin rough /\ ~Busy(d)
            /\ s = "login" \/ (s = "find" /\ t = cookie[d] /\ t # NoToken)
        BY <1>1, <2>1, <2>2
      <3>2. s = "find" => Live(sent[r])'
        BY <1>1, <3>1 DEF Undisturbed, SequentialRefreshKeepsSession, Live
      <3>3. QED
        BY <1>1, <2>2, <3>1, <3>2 DEF OnCourse
    <2>3. CASE q # r
      BY <1>1, <2>1, <2>3 DEF Undisturbed, OnCourse, Live
    <2>4. QED
      BY <2>2, <2>3
  <1>7. SequentialRefreshKeepsSession'
    <2>1. SUFFICES ASSUME NEW e \in Device, e \notin rough', ~Busy(e)',
                          cookie'[e] # NoToken
                   PROVE  Live(cookie[e])'
      BY DEF SequentialRefreshKeepsSession
    <2>2. ~Busy(e)
      BY <1>1, <1>2, <2>1 DEF Busy
    <2>3. QED
      BY <2>1, <2>2 DEF Undisturbed, SequentialRefreshKeepsSession, Live
  <1>8. QED
    BY <1>3, <1>4, <1>5, <1>6, <1>7 DEF Undisturbed

\* A request that ends: its browser keeps its cookie or takes the answer's.
LEMMA EndStep ==
  ASSUME TypeOK, Undisturbed, NEW r \in Request, step[r] # "idle", End(r),
         NEW b, b = from[r],
         UNCHANGED <<issued, family, expired>>,
         \/ cookie' = cookie
         \/ cookie' = [cookie EXCEPT ![b] = given[r]],
         \A u \in revoked' : u \in revoked \/
             \E y : Holds(b, y) /\ family[u] = family[y],
         \/ rough' = rough \cup {b}
         \/ /\ rough' = rough /\ revoked' = revoked
            /\ cookie' = [cookie EXCEPT ![b] = given[r]]
            /\ step[r] = "respond"
  PROVE  Undisturbed'
  <1>1. b \in Device /\ NoDevice \notin Device
    BY SessionAssumption DEF TypeOK
  <1>2. /\ step'[r] = "idle" /\ from'[r] = NoDevice
        /\ sent'[r] = NoToken /\ given'[r] = NoToken
        /\ \A q \in Request \ {r} :
             /\ step'[q] = step[q] /\ from'[q] = from[q]
             /\ sent'[q] = sent[q] /\ given'[q] = given[q]
    BY DEF End, Goto, TypeOK
  <1>3. \A e \in Device \ {b} : cookie'[e] = cookie[e]
    BY DEF TypeOK
  <1>4. cookie'[b] \in {cookie[b], given[r]}
    BY <1>1 DEF TypeOK
  <1>5. Apart'
    <2>1. ASSUME NEW d \in Device, NEW x, Holds(d, x)'
          PROVE  Holds(d, x)
      BY <1>1, <1>2, <1>3, <1>4, <2>1 DEF Holds
    <2>2. QED
      BY <2>1, ApartQuiet DEF Undisturbed
  <1>6. \/ rough' = rough \cup {b}
        \/ /\ rough' = rough
           /\ b \notin rough =>
                from'[r] = NoDevice /\ (cookie'[b] # NoToken => Live(cookie[b])')
    <2>1. SUFFICES ASSUME rough' = rough, revoked' = revoked, b \notin rough,
                          cookie' = [cookie EXCEPT ![b] = given[r]],
                          step[r] = "respond"
                   PROVE  from'[r] = NoDevice /\ Live(cookie[b])'
      OBVIOUS
    <2>2. Live(given[r])
      BY <1>1, <2>1 DEF Undisturbed, OnCourse
    <2>3. cookie'[b] = given[r]
      BY <1>1, <2>1 DEF TypeOK
    <2>4. QED
      BY <1>2, <2>1, <2>2, <2>3 DEF Live
  <1>7. \A t \in issued' : family'[t] \in issued'
    BY DEF Undisturbed
  <1>9. QED
    BY <1>1, <1>2, <1>3, <1>5, <1>6, <1>7, RequestStep

\* A request that goes on to its next query, on course if its browser is.
LEMMA ContinueStep ==
  ASSUME TypeOK, Undisturbed, NEW r \in Request, step[r] # "idle", NEW b, b = from[r],
         NEW s \in Step, s # "idle", Continue(r, s),
         UNCHANGED <<issued, family, expired, cookie, given, rough>>,
         \A u \in revoked' : u \in revoked \/
             \E y : Holds(b, y) /\ family[u] = family[y],
         OnCourse(r) => OnCourse(r)'
  PROVE  Undisturbed'
  <1>1. b \in Device
    BY DEF TypeOK
  <1>2. /\ step'[r] = s /\ from' = from /\ sent' = sent
        /\ \A q \in Request \ {r} : step'[q] = step[q]
    BY DEF Continue, Goto, TypeOK
  <1>3. Apart'
    <2>1. \A d \in Device : \A x : Holds(d, x)' => Holds(d, x)
      BY <1>2 DEF Holds
    <2>2. QED
      BY <2>1, ApartQuiet DEF Undisturbed
  <1>4. b \notin rough => from'[r] = b /\ OnCourse(r)'
    BY <1>1, <1>2 DEF Undisturbed
  <1>5. \A t \in issued' : family'[t] \in issued'
    BY DEF Undisturbed
  <1>9. QED
    BY <1>1, <1>2, <1>3, <1>4, <1>5, RequestStep

\* A new row, in a family the browser holds or of a family of its own, is live.
LEMMA InsertStep ==
  ASSUME TypeOK, Undisturbed, NEW r \in Request, step[r] # "idle", NEW b, b = from[r],
         NEW s \in {"revokeOld", "respond"}, NEW t \in Token \ issued, NEW f,
         Insert(r, t, f, s), UNCHANGED <<revoked, expired, cookie>>,
         f = t \/ (sent[r] \in issued /\ f = family[sent[r]])
  PROVE  Undisturbed'
  <1>1. b \in Device /\ NoToken \notin Token
    BY SessionAssumption DEF TypeOK
  <1>2. /\ step'[r] = s /\ from' = from /\ sent' = sent /\ given'[r] = t
        /\ rough' = rough /\ issued' = issued \cup {t}
        /\ \A q \in Request \ {r} : step'[q] = step[q] /\ given'[q] = given[q]
    BY DEF Insert, Continue, Goto, TypeOK
  <1>3. family'[t] = f /\ \A u \in issued : family'[u] = family[u] /\ u # t
    BY DEF Insert, TypeOK
  <1>4. \A d \in Device : \A x : Holds(d, x)' =>
            (Holds(d, x) /\ x \in issued) \/ (d = b /\ x = t)
    <2>1. \A d \in Device : \A x : Holds(d, x)' => Holds(d, x) \/ (d = b /\ x = t)
      BY <1>2 DEF Holds
    <2>2. QED
      BY <2>1, HeldIssued
  <1>5. Apart'
    <2>1. CASE f = t
      <3>1. \A d \in Device : \A y : Holds(d, y) => family[y] # t
        BY HeldIssued DEF Undisturbed
      <3>2. \A d \in Device : \A x : Holds(d, x)' =>
               \/ \E y : Holds(d, y) /\ family'[x] = family[y]
               \/ d = b /\ family'[x] = t
        BY <1>3, <1>4, <2>1
      <3>3. Apart
        BY DEF Undisturbed
      <3>4. QED
        BY <3>1, <3>2, <3>3, ApartKept
    <2>2. CASE sent[r] \in issued /\ f = family[sent[r]]
      <3>1. Holds(b, sent[r])
        BY <1>1, <2>2 DEF Holds, TypeOK
      <3>2. \A d \in Device : \A x : Holds(d, x)' =>
               \/ \E y : Holds(d, y) /\ family'[x] = family[y]
               \/ d = b /\ family'[x] = t
        BY <1>3, <1>4, <2>2, <3>1
      <3>3. \A d \in Device : \A y : Holds(d, y) => family[y] # t
        BY HeldIssued DEF Undisturbed
      <3>4. Apart
        BY DEF Undisturbed
      <3>5. QED
        BY <3>2, <3>3, <3>4, ApartKept
    <2>3. QED
      BY <2>1, <2>2
  <1>6. OnCourse(r)'
    <2>1. t \notin revoked /\ t \notin expired
      BY DEF TypeOK
    <2>2. Live(given[r])'
      BY <1>2, <2>1 DEF Live
    <2>3. s = "revokeOld" => sent[r] # t
      BY <1>1 DEF TypeOK
    <2>4. QED
      BY <1>2, <2>2, <2>3 DEF OnCourse
  <1>7. \A u \in issued' : family'[u] \in issued'
    BY <1>2, <1>3 DEF Undisturbed
  <1>9. QED
    BY <1>1, <1>2, <1>5, <1>6, <1>7, RequestStep

\* Every step keeps the browsers that never met trouble undisturbed.
LEMMA UndisturbedStep == TypeOK /\ Undisturbed /\ [Next]_vars => Undisturbed'
  <1> SUFFICES ASSUME TypeOK, Undisturbed, [Next]_vars
               PROVE  Undisturbed'
    OBVIOUS
  <1> USE DEF tokenVars, reqVars, histVars
  <1>0. \A s \in {"find", "issue", "revokeOld", "revokeFamily", "idle",
                  "principal", "login", "logout", "respond"} : s \in Step
    BY DEF Step, Rotation
  <1>1. ASSUME NEW r \in Request, Handle(r)
        PROVE  Undisturbed'
    <2>0. step[r] # "idle"
      BY <1>1 DEF Handle, Find, Issue, RevokeOld, CheckPrincipal,
                  RevokeFamily, Respond, StartFamily, Revoke
    <2>a. ASSUME Fails(r), UNCHANGED <<issued, family, expired, cookie>>,
                 \A u \in revoked' : u \in revoked \/
                     \E y : Holds(from[r], y) /\ family[u] = family[y]
          PROVE  Undisturbed'
      BY <2>0, <2>a, EndStep DEF Fails
    <2>b. step[r] \in Rotation => sent[r] \in issued /\ Holds(from[r], sent[r])
      BY SessionAssumption DEF TypeOK, Holds
    <2>1. CASE Find(r)
      <3>1. CASE Fails(r)
        BY <2>1, <3>1, <2>a DEF Find
      <3>2. CASE /\ Continue(r, IF Live(sent[r]) THEN "issue" ELSE "revokeFamily")
                 /\ UNCHANGED <<given, rough>>
        <4>1. PICK s \in {"issue", "revokeFamily"} :
                  /\ Continue(r, s)
                  /\ Live(sent[r]) => s = "issue"
          BY <3>2
        <4>2. OnCourse(r) => OnCourse(r)'
          <5>1. step'[r] = s /\ sent' = sent /\ step[r] = "find"
            BY <2>1, <4>1 DEF Continue, Goto, TypeOK, Find
          <5>2. QED
            BY <2>1, <4>1, <5>1 DEF OnCourse, Find, Live
        <4>3. QED
          BY <1>0, <2>0, <2>1, <3>2, <4>1, <4>2, ContinueStep DEF Find
      <3>3. QED
        BY <2>1, <3>1, <3>2 DEF Find
    <2>2. CASE Issue(r)
      <3>1. CASE Fails(r) /\ UNCHANGED <<issued, family>>
        BY <2>2, <3>1, <2>a DEF Issue
      <3>2. ASSUME NEW t \in Token \ issued,
                   Insert(r, t, family[sent[r]], "revokeOld")
            PROVE  Undisturbed'
        BY <2>0, <2>2, <2>b, <3>2, InsertStep DEF Issue, Rotation
      <3>3. QED
        BY <2>2, <3>1, <3>2 DEF Issue
    <2>3. CASE RevokeOld(r)
      <3>1. CASE Fails(r) /\ UNCHANGED revoked
        BY <2>3, <3>1, <2>a DEF RevokeOld
      <3>2. CASE /\ revoked' = revoked \cup {sent[r]}
                 /\ Continue(r, "principal") /\ UNCHANGED <<given, rough>>
        <4>1. step'[r] = "principal" /\ step[r] = "revokeOld"
          BY <2>3, <3>2 DEF Continue, Goto, TypeOK, RevokeOld
        <4>2. OnCourse(r) => OnCourse(r)'
          BY <2>3, <3>2, <4>1 DEF OnCourse, Live, RevokeOld
        <4>3. \A u \in revoked' : u \in revoked \/
                  \E y : Holds(from[r], y) /\ family[u] = family[y]
          BY <2>b, <3>2, <4>1 DEF Rotation
        <4>4. QED
          BY <1>0, <2>0, <2>3, <3>2, <4>2, <4>3, ContinueStep DEF RevokeOld
      <3>3. QED
        BY <2>3, <3>1, <3>2 DEF RevokeOld
    <2>4. CASE CheckPrincipal(r)
      <3>1. CASE Fails(r)
        BY <2>4, <3>1, <2>a DEF CheckPrincipal
      <3>2. CASE Continue(r, "respond") /\ UNCHANGED <<given, rough>>
        <4>1. step'[r] = "respond" /\ step[r] = "principal"
          BY <2>4, <3>2 DEF Continue, Goto, TypeOK, CheckPrincipal
        <4>2. OnCourse(r) => OnCourse(r)'
          BY <2>4, <3>2, <4>1 DEF OnCourse, Live, CheckPrincipal
        <4>3. QED
          BY <1>0, <2>0, <2>4, <3>2, <4>2, ContinueStep DEF CheckPrincipal
      <3>3. QED
        BY <2>4, <3>1, <3>2 DEF CheckPrincipal
    <2>5. CASE RevokeFamily(r)
      <3>1. \A u \in revoked' : u \in revoked \/
                \E y : Holds(from[r], y) /\ family[u] = family[y]
        BY <2>5, <2>b DEF RevokeFamily, Members, Rotation
      <3>2. QED
        BY <2>5, <3>1, <2>a DEF RevokeFamily
    <2>6. CASE Respond(r)
      <3>1. CASE Fails(r) /\ UNCHANGED cookie
        BY <2>6, <3>1, <2>a DEF Respond
      <3>2. CASE /\ cookie' = [cookie EXCEPT ![from[r]] = given[r]]
                 /\ End(r) /\ UNCHANGED rough
        BY <2>0, <2>6, <3>2, EndStep DEF Respond
      <3>3. QED
        BY <2>6, <3>1, <3>2 DEF Respond
    <2>7. CASE StartFamily(r)
      <3>1. CASE Fails(r) /\ UNCHANGED <<issued, family>>
        BY <2>7, <3>1, <2>a DEF StartFamily
      <3>2. ASSUME NEW t \in Token \ issued, Insert(r, t, t, "respond")
            PROVE  Undisturbed'
        BY <2>0, <2>7, <3>2, InsertStep DEF StartFamily
      <3>3. QED
        BY <2>7, <3>1, <3>2 DEF StartFamily
    <2>8. CASE Revoke(r)
      <3>1. CASE Fails(r) /\ UNCHANGED revoked
        BY <2>8, <3>1, <2>a DEF Revoke
      <3>2. CASE /\ revoked' = revoked \cup ({sent[r]} \ {NoToken})
                 /\ Continue(r, "respond") /\ UNCHANGED <<given, rough>>
        <4>1. ~OnCourse(r)
          BY <2>8 DEF OnCourse, Revoke
        <4>2. sent[r] # NoToken => Holds(from[r], sent[r])
          BY DEF Holds
        <4>3. QED
          BY <1>0, <2>0, <2>8, <3>2, <4>1, <4>2, ContinueStep DEF Revoke
      <3>3. QED
        BY <2>8, <3>1, <3>2 DEF Revoke
    <2>9. QED
      BY <1>1, <2>1, <2>2, <2>3, <2>4, <2>5, <2>6, <2>7, <2>8 DEF Handle
  <1>2. ASSUME NEW r \in Request, NEW d \in Device,
               SendRefresh(r, d) \/ Login(r, d) \/ SendLogout(r, d)
        PROVE  Undisturbed'
    <2>1. CASE SendRefresh(r, d)
      BY <1>0, <2>1, SendStep DEF SendRefresh
    <2>2. CASE Login(r, d)
      BY <1>0, <2>2, SendStep DEF Login
    <2>3. CASE SendLogout(r, d)
      BY <1>0, <2>3, SendStep DEF SendLogout
    <2>4. QED
      BY <1>2, <2>1, <2>2, <2>3
  <1>a. ASSUME UNCHANGED <<issued, family>>, Apart',
               rough \subseteq rough',
               \A r \in Request : step'[r] = "idle" =>
                   from'[r] = NoDevice /\ sent'[r] = NoToken /\ given'[r] = NoToken,
               \A d \in Device \ rough' : \A q, r \in Request :
                   from'[q] = d /\ from'[r] = d => q = r,
               \A r \in Request : from'[r] \in Device \ rough' => OnCourse(r)',
               SequentialRefreshKeepsSession'
        PROVE  Undisturbed'
    BY <1>a DEF Undisturbed
  <1>3. CASE ConfirmReset
    <2>1. Apart'
      BY <1>3, ApartQuiet DEF ConfirmReset, Undisturbed, Holds
    <2>2. QED
      BY <1>3, <2>1 DEF ConfirmReset, Undisturbed, SequentialRefreshKeepsSession
  <1>4. CASE Crash
    <2>1. Apart'
      <3>1. \A d \in Device : \A x : Holds(d, x)' => Holds(d, x)
        BY <1>4, SessionAssumption DEF Crash, Holds
      <3>2. QED
        BY <1>4, <3>1, ApartQuiet DEF Crash, Undisturbed
    <2>2. SequentialRefreshKeepsSession'
      BY <1>4 DEF Crash, Undisturbed, SequentialRefreshKeepsSession, Busy, Live
    <2>3. QED
      BY <1>4, <2>1, <2>2, SessionAssumption DEF Crash, Undisturbed
  <1>5. ASSUME NEW t \in Token, Expire(t)
        PROVE  Undisturbed'
    <2>1. Apart'
      BY <1>5, ApartQuiet DEF Expire, Undisturbed, Holds
    <2>2. ASSUME NEW r \in Request
          PROVE  from'[r] \notin Device \ rough'
      BY <1>5 DEF Expire, Busy
    <2>3. SequentialRefreshKeepsSession'
      BY <1>5 DEF Expire, Undisturbed, SequentialRefreshKeepsSession, Busy, Live
    <2>4. QED
      BY <1>5, <2>1, <2>2, <2>3 DEF Expire, Undisturbed
  <1>6. ASSUME NEW d \in Device, DropCookie(d)
        PROVE  Undisturbed'
    <2>0. cookie'[d] = NoToken /\ \A e \in Device \ {d} : cookie'[e] = cookie[e]
      BY <1>6 DEF DropCookie, TypeOK
    <2>1. Apart'
      <3>1. \A e \in Device : \A x : Holds(e, x)' => Holds(e, x)
        BY <1>6, <2>0 DEF DropCookie, Holds
      <3>2. QED
        BY <1>6, <3>1, ApartQuiet DEF DropCookie, Undisturbed
    <2>2. \A r \in Request : from'[r] \in Device \ rough' => OnCourse(r)'
      BY <1>6 DEF DropCookie, Undisturbed, OnCourse, Live
    <2>3. SequentialRefreshKeepsSession'
      BY <1>6, <2>0 DEF DropCookie, Undisturbed, SequentialRefreshKeepsSession,
                        Busy, Live
    <2>4. QED
      BY <1>6, <2>1, <2>2, <2>3 DEF DropCookie, Undisturbed
  <1>7. ASSUME UNCHANGED <<issued, family, revoked, expired, cookie, reqVars,
                           histVars>>
        PROVE  Undisturbed'
    BY <1>7 DEF Undisturbed, Apart, Holds, OnCourse, Live, Busy,
                SequentialRefreshKeepsSession
  <1>8. ASSUME NEW value \in BOOLEAN, SetActive(value)
        PROVE  Undisturbed'
    BY <1>7, <1>8 DEF SetActive
  <1>9. CASE UNCHANGED vars
    BY <1>7, <1>9 DEF vars
  <1>10. QED
    BY <1>1, <1>2, <1>3, <1>4, <1>5, <1>6, <1>8, <1>9 DEF Next

\* A browser that refreshes one call at a time, and whose refreshes did not
\* fail, lose their answer or meet a logout, a reset or an expiry, holds a live
\* token, whatever the account's other browsers do.
THEOREM SequentialRefreshIsSafe == Spec => []SequentialRefreshKeepsSession
  <1>1. Init => Undisturbed
    BY SessionAssumption DEF Init, Undisturbed, Apart, Holds, SequentialRefreshKeepsSession
  <1>2. QED
    BY <1>1, TypeInit, TypeStep, UndisturbedStep, PTL DEF Spec, Undisturbed
=============================================================================
