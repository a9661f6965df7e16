------------------------------ MODULE Sessions ------------------------------
(***************************************************************************)
(* Refresh-token sessions of one account: TokenService (auth/              *)
(* token.service.ts), the login, refresh and logout handlers around it     *)
(* (auth/auth.service.ts, auth/auth.controller.ts), the revocation by a    *)
(* password reset (auth/password-reset.service.ts) and the browsers that   *)
(* keep the token in one cookie for all their tabs (apps/web/lib/api.ts).  *)
(*                                                                         *)
(* Rotation is three queries: find the token, insert its successor, mark   *)
(* it revoked.  Requests of one browser overlap whenever several calls get *)
(* a 401 together, because every call refreshes on its own.                *)
(* A family is named after its first token.                                *)
(***************************************************************************)
EXTENDS Integers, FiniteSets

CONSTANTS Token, NoToken,  \* refresh tokens, and an empty cookie
          Device, NoDevice,\* browsers, and none
          Request          \* requests the API handles at the same time

ASSUME SessionAssumption ==
    /\ NoToken \notin Token
    /\ NoDevice \notin Device

VARIABLES
    issued,   \* rows of RefreshToken
    family,   \* familyId of each token
    revoked,  \* rows with revokedAt
    expired,  \* rows past expiresAt
    active,   \* whether the account is active
    cookie,   \* diyaa_rt of each browser
    step, from, sent, given,  \* each request: where it is, whose it is, the
                              \* token it came with, the token it will set
    dead,     \* history: families revoked while none of their rotations ran
    fenced,   \* history: families that were there when a reset revoked all
    rough     \* history: browsers whose session met more than single refreshes

tokenVars == <<issued, family, revoked, expired, active>>
reqVars   == <<step, from, sent, given>>
histVars  == <<dead, fenced, rough>>
vars      == <<tokenVars, cookie, reqVars, histVars>>

\* The queries of TokenService.rotate.
Rotation == {"find", "issue", "revokeOld", "revokeFamily"}

Step == Rotation \cup {"idle", "principal", "login", "logout", "respond"}

TypeOK ==
    /\ issued \subseteq Token
    /\ family \in [Token -> Token]
    /\ revoked \subseteq issued
    /\ expired \subseteq issued
    /\ active \in BOOLEAN
    /\ cookie \in [Device -> issued \cup {NoToken}]
    /\ step \in [Request -> Step]
    /\ from \in [Request -> Device \cup {NoDevice}]
    /\ \A r \in Request : step[r] # "idle" => from[r] \in Device
    /\ sent \in [Request -> issued \cup {NoToken}]
    /\ \A r \in Request : step[r] \in Rotation => sent[r] \in issued
    /\ given \in [Request -> issued \cup {NoToken}]
    /\ dead \subseteq Token /\ fenced \subseteq Token
    /\ rough \subseteq Device

Init ==
    /\ issued = {} /\ revoked = {} /\ expired = {}
    /\ family = [t \in Token |-> t]
    /\ active = TRUE
    /\ cookie = [d \in Device |-> NoToken]
    /\ step = [r \in Request |-> "idle"]
    /\ from = [r \in Request |-> NoDevice]
    /\ sent = [r \in Request |-> NoToken]
    /\ given = [r \in Request |-> NoToken]
    /\ dead = {} /\ fenced = {} /\ rough = {}

Live(t)   == t \in issued /\ t \notin revoked /\ t \notin expired
Members(f) == {t \in issued : family[t] = f}

Busy(d) == \E r \in Request : from[r] = d

\* A rotation of family f that has passed its check, and may still insert.
Rotating(f) == \E r \in Request : step[r] = "issue" /\ family[sent[r]] = f

Goto(r, s) == step' = [step EXCEPT ![r] = s]

\* The handler goes on, or comes in with a browser and its cookie, or is over.
Continue(r, s) == Goto(r, s) /\ UNCHANGED <<from, sent>>

Begin(r, s, d, t) ==
    /\ step[r] = "idle"
    /\ Goto(r, s)
    /\ from' = [from EXCEPT ![r] = d]
    /\ sent' = [sent EXCEPT ![r] = t]
    /\ UNCHANGED given

End(r) ==
    /\ Goto(r, "idle")
    /\ from' = [from EXCEPT ![r] = NoDevice]
    /\ sent' = [sent EXCEPT ![r] = NoToken]
    /\ given' = [given EXCEPT ![r] = NoToken]

\* The request ends without an answer that changes the cookie.
Fails(r) == End(r) /\ rough' = rough \cup {from[r]}

-----------------------------------------------------------------------------
(* Rotation: AuthService.refresh. *)

\* The browser sends its cookie; a call that finds another one of the browser
\* under way is one of the overlapping ones.
SendRefresh(r, d) ==
    /\ cookie[d] # NoToken
    /\ Begin(r, "find", d, cookie[d])
    /\ rough' = IF Busy(d) THEN rough \cup {d} ELSE rough
    /\ UNCHANGED <<tokenVars, cookie, dead, fenced>>

FindIgnoringRevocation(r) ==
    /\ step[r] = "find"
    /\ \/ /\ Continue(r, IF sent[r] \in expired THEN "revokeFamily" ELSE "issue")
          /\ UNCHANGED <<given, rough>>
       \/ Fails(r)
    /\ UNCHANGED <<tokenVars, cookie, dead, fenced>>

\* rotate reads the row.  A revoked or expired token is taken for reuse.
Find(r) ==
    /\ step[r] = "find"
    /\ \/ /\ Continue(r, IF Live(sent[r]) THEN "issue" ELSE "revokeFamily")
          /\ UNCHANGED <<given, rough>>
       \/ Fails(r)
    /\ UNCHANGED <<tokenVars, cookie, dead, fenced>>

\* issueRefresh: a new row in family f, or a failed insert.
Insert(r, t, f, next) ==
    /\ issued' = issued \cup {t}
    /\ family' = [family EXCEPT ![t] = f]
    /\ given' = [given EXCEPT ![r] = t]
    /\ Continue(r, next)
    /\ UNCHANGED rough

Issue(r) ==
    /\ step[r] = "issue"
    /\ \/ \E t \in Token \ issued : Insert(r, t, family[sent[r]], "revokeOld")
       \/ Fails(r) /\ UNCHANGED <<issued, family>>
    /\ UNCHANGED <<revoked, expired, active, cookie, dead, fenced>>

RevokeOldFamily(r) ==
    /\ step[r] = "revokeOld"
    /\ \/ /\ revoked' = revoked \cup Members(family[sent[r]])
          /\ Continue(r, "principal")
          /\ UNCHANGED <<given, rough>>
       \/ Fails(r) /\ UNCHANGED revoked
    /\ UNCHANGED <<issued, family, expired, active, cookie, dead, fenced>>

\* The rotated token is marked revoked, whatever happened to it meanwhile.
RevokeOld(r) ==
    /\ step[r] = "revokeOld"
    /\ \/ /\ revoked' = revoked \cup {sent[r]}
          /\ Continue(r, "principal")
          /\ UNCHANGED <<given, rough>>
       \/ Fails(r) /\ UNCHANGED revoked
    /\ UNCHANGED <<issued, family, expired, active, cookie, dead, fenced>>

\* principalFor: a suspended account gets no answer, though its token is gone.
CheckPrincipal(r) ==
    /\ step[r] = "principal"
    /\ \/ /\ active
          /\ Continue(r, "respond")
          /\ UNCHANGED <<given, rough>>
       \/ Fails(r)
    /\ UNCHANGED <<tokenVars, cookie, dead, fenced>>

\* Reuse: every token of the family that is not revoked is revoked.
RevokeFamily(r) ==
    LET f == family[sent[r]]
    IN  /\ step[r] = "revokeFamily"
        /\ \/ /\ revoked' = revoked \cup Members(f)
              /\ dead' = IF Rotating(f) THEN dead ELSE dead \cup {f}
           \/ UNCHANGED <<revoked, dead>>
        /\ Fails(r)
        /\ UNCHANGED <<issued, family, expired, active, cookie, fenced>>

\* Set-Cookie reaches the browser, or the answer is lost.
Respond(r) ==
    /\ step[r] = "respond"
    /\ \/ /\ cookie' = [cookie EXCEPT ![from[r]] = given[r]]
          /\ End(r)
          /\ UNCHANGED rough
       \/ Fails(r) /\ UNCHANGED cookie
    /\ UNCHANGED <<tokenVars, dead, fenced>>

-----------------------------------------------------------------------------
(* Login and logout. *)

\* The password (and the code, if one is asked for) has been accepted.
Login(r, d) ==
    /\ active
    /\ Begin(r, "login", d, NoToken)
    /\ rough' = IF Busy(d) THEN rough \cup {d} ELSE rough
    /\ UNCHANGED <<tokenVars, cookie, dead, fenced>>

\* finalizeLogin: the first token of a new family.
StartFamily(r) ==
    /\ step[r] = "login"
    /\ \/ \E t \in Token \ issued : Insert(r, t, t, "respond")
       \/ Fails(r) /\ UNCHANGED <<issued, family>>
    /\ UNCHANGED <<revoked, expired, active, cookie, dead, fenced>>

SendLogout(r, d) ==
    /\ Begin(r, "logout", d, cookie[d])
    /\ rough' = rough \cup {d}
    /\ UNCHANGED <<tokenVars, cookie, dead, fenced>>

\* logout revokes the token it was given, if any, and clears the cookie.
Revoke(r) ==
    /\ step[r] = "logout"
    /\ \/ /\ revoked' = revoked \cup ({sent[r]} \ {NoToken})
          /\ Continue(r, "respond")
          /\ UNCHANGED <<given, rough>>
       \/ sent[r] # NoToken /\ Fails(r) /\ UNCHANGED revoked
    /\ UNCHANGED <<issued, family, expired, active, cookie, dead, fenced>>

-----------------------------------------------------------------------------
(* Around the requests. *)

\* confirmReset's transaction revokes every token of the account.
ConfirmReset ==
    /\ revoked' = issued
    /\ fenced' = {family[t] : t \in issued}
    /\ dead' = dead \cup {f \in fenced' : ~Rotating(f)}
    /\ rough' = Device
    /\ UNCHANGED <<issued, family, expired, active, cookie, reqVars>>

Expire(t) ==
    /\ t \in issued
    /\ expired' = expired \cup {t}
    /\ rough' = rough \cup {d \in Device : cookie[d] = t \/ Busy(d)}
    /\ UNCHANGED <<issued, family, revoked, active, cookie, reqVars, dead, fenced>>

\* The browser drops a cookie whose date is over.
DropCookie(d) ==
    /\ cookie[d] \in expired
    /\ cookie' = [cookie EXCEPT ![d] = NoToken]
    /\ UNCHANGED <<tokenVars, reqVars, histVars>>

SetActive(value) ==
    /\ active' = value
    /\ UNCHANGED <<issued, family, revoked, expired, cookie, reqVars, histVars>>

Crash ==
    /\ step' = [r \in Request |-> "idle"]
    /\ from' = [r \in Request |-> NoDevice]
    /\ sent' = [r \in Request |-> NoToken]
    /\ given' = [r \in Request |-> NoToken]
    /\ rough' = rough \cup {d \in Device : Busy(d)}
    /\ UNCHANGED <<tokenVars, cookie, dead, fenced>>

Handle(r) ==
    \/ Find(r) \/ Issue(r) \/ RevokeOld(r) \/ CheckPrincipal(r)
    \/ RevokeFamily(r) \/ Respond(r) \/ StartFamily(r) \/ Revoke(r)

Next ==
    \/ \E r \in Request : Handle(r)
    \/ \E r \in Request, d \in Device :
           SendRefresh(r, d) \/ Login(r, d) \/ SendLogout(r, d)
    \/ ConfirmReset \/ Crash
    \/ \E t \in Token : Expire(t)
    \/ \E d \in Device : DropCookie(d)
    \/ \E value \in BOOLEAN : SetActive(value)

Spec == Init /\ [][Next]_vars

-----------------------------------------------------------------------------
(* Properties. *)

\* A family that reuse detection or a reset revoked stays revoked, unless one
\* of its rotations was between its check and its insert at that moment.
NoResurrection == \A f \in dead : \A t \in Members(f) : ~Live(t)

\* Refreshing one call at a time never costs the session: a browser whose
\* refreshes did not overlap, fail or lose their answer, and that was not
\* logged out, reset, or left to expire, holds a live token.
SequentialRefreshKeepsSession ==
    \A d \in Device :
        d \notin rough /\ ~Busy(d) /\ cookie[d] # NoToken => Live(cookie[d])
=============================================================================
