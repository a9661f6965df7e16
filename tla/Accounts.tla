------------------------------ MODULE Accounts ------------------------------
(***************************************************************************)
(* The accounts that use one e-mail address: sign-up, password login with  *)
(* the mailed code of MFA (auth/auth.service.ts), password reset and       *)
(* e-mail verification (auth/password-reset.service.ts), and the rows that *)
(* agencies and clients create for others (client.service.ts,              *)
(* team.service.ts).                                                       *)
(*                                                                         *)
(* Agencies, clients, team members and super admins live in tables of      *)
(* their own, each with a unique e-mail, so one address may have a row in  *)
(* every table.  A handler is two or more queries; requests interleave     *)
(* between them, and any of them may throw.  isActive and mfaEnabled are   *)
(* switched at any time, so whoever reads them may find either value.      *)
(* Sessions says what becomes of the refresh tokens a login issues.        *)
(***************************************************************************)
EXTENDS Integers, Sequences, FiniteSets

CONSTANTS Kind,         \* the tables in which the address may have a row
          Request,      \* requests the API handles at the same time
          MaxAttempts,  \* OTP_MAX_ATTEMPTS
          MaxRows,      \* bound: tables with a row or a trace of the address
                        \* and codes issued, together
          MaxLinks      \* bound: links mailed

ASSUME AccountsAssumption ==
    /\ Kind \subseteq {"AGENCY", "CLIENT", "TEAM_MEMBER", "SUPER_ADMIN"}
    /\ IsFiniteSet(Request) /\ Request # {}
    /\ MaxAttempts \in Nat \ {0}
    /\ MaxRows \in Nat /\ MaxLinks \in Nat

VARIABLES
    rows,       \* kinds that have a row with the address
    codes,      \* OtpCode rows in the order of their creation
    challenges, \* signed challenges that have not expired
    links,      \* EmailToken rows
    req,        \* each request: its step, its row, the code or link it has
                \* read (or how many codes there were when it invalidated);
                \* stale: a reset has replaced the password it compared
    live,       \* kinds with a session
    stale,      \* history: kinds with a session opened with such a password
    fenced      \* history: kinds that had no login under way at their reset

otpVars  == <<codes, challenges>>
sessVars == <<live, stale, fenced>>
vars     == <<rows, otpVars, links, req, sessVars>>

Code == [kind : Kind, state : {"pending", "expired", "consumed"}, attempts : Nat,
         tries : Nat,   \* history: guesses compared with it, less those
                        \* whose update failed
         seen : Nat]    \* history: codes there were when its login
                        \* invalidated the pending ones
Challenge == [kind : Kind, stale : BOOLEAN]
Link == [kind : Kind, purpose : {"reset", "verify"}, state : {"mailed", "expired", "used"}]

Step == {"idle", "invalidate", "code", "find", "count", "consume", "issue",
         "reset", "verify"}
Idle == [step |-> "idle", kind |-> "NONE", ref |-> 0, stale |-> FALSE]

TypeOK ==
    /\ rows \subseteq Kind
    /\ codes \in Seq(Code) /\ challenges \subseteq Challenge /\ links \in Seq(Link)
    /\ req \in [Request -> [step : Step, kind : Kind \cup {"NONE"}, ref : Nat, stale : BOOLEAN]]
    /\ \A r \in Request :
           /\ req[r].step \in {"count", "consume"} => req[r].ref \in DOMAIN codes
           /\ req[r].step \in {"reset", "verify"} => req[r].ref \in DOMAIN links
    /\ \A c \in challenges : \E i \in DOMAIN codes : codes[i].kind = c.kind
    /\ live \subseteq Kind /\ stale \subseteq live /\ fenced \subseteq Kind

Init ==
    /\ rows = {}
    /\ codes = <<>> /\ challenges = {} /\ links = <<>>
    /\ req = [r \in Request |-> Idle]
    /\ live = {} /\ stale = {} /\ fenced = {}

Begin(r, s, k, ref, old) ==
    /\ req[r] = Idle
    /\ req' = [req EXCEPT ![r] = [step |-> s, kind |-> k, ref |-> ref, stale |-> old]]

At(r, s)   == req[r].step = s
Goto(r, s) == req' = [req EXCEPT ![r].step = s, ![r].ref = 0]
End(r)     == req' = [req EXCEPT ![r] = Idle]

\* A query throws or the process dies; a guess it had compared goes unrecorded.
Throws(r) ==
    /\ req[r] # Idle
    /\ End(r)
    /\ codes' = IF At(r, "count") \/ At(r, "consume")
                THEN [codes EXCEPT ![req[r].ref].tries = @ - 1] ELSE codes
    /\ UNCHANGED <<rows, challenges, links, sessVars>>

-----------------------------------------------------------------------------
(* Rows.  The unique index decides what the query before an insert checks.  *)

\* A row has a new id: codes, links and sessions of a row that was removed are
\* not its own (bound: the address is used again when none is left).
Traced ==
    rows \cup live \cup fenced
    \cup {codes[i].kind : i \in DOMAIN codes} \cup {links[i].kind : i \in DOMAIN links}
    \cup {k \in Kind : \E r \in Request : req[r].kind = k}

Unused(new) ==
    new \cap Traced = {} /\ Cardinality(Traced \cup new) + Len(codes) <= MaxRows

Pair == {"AGENCY", "CLIENT"}

\* signupSmb: both rows in one transaction, then a session of the client.
SignupSmb(r) ==
    /\ Pair \subseteq Kind /\ Unused(Pair)
    /\ rows' = rows \cup Pair
    /\ Begin(r, "issue", "CLIENT", 0, FALSE)
    /\ UNCHANGED <<otpVars, links, sessVars>>

Create(k) ==
    /\ Unused({k})
    /\ rows' = rows \cup {k}
    /\ UNCHANGED <<otpVars, links, req, sessVars>>

\* registerAgency; AgencyService.create does the same.
RegisterAgency == "AGENCY" \in Kind /\ Create("AGENCY")

\* ClientService.create and TeamService.create.
CreateClient     == "CLIENT" \in Kind /\ Create("CLIENT")
CreateTeamMember == "TEAM_MEMBER" \in Kind /\ Create("TEAM_MEMBER")

\* Codes, links and refresh tokens refer to a row without a foreign key: they
\* outlive it.
Remove(gone) ==
    /\ rows' = rows \ gone
    /\ UNCHANGED <<otpVars, links, req, sessVars>>

\* AgencyService.remove: clients and members of the agency go by cascade, those
\* of another agency stay.
RemoveAgency ==
    /\ "AGENCY" \in rows
    /\ \E below \in SUBSET {"CLIENT", "TEAM_MEMBER"} : Remove({"AGENCY"} \cup below)

\* ClientService.remove: the member may be the client's own.
RemoveClient ==
    /\ "CLIENT" \in rows
    /\ \E below \in SUBSET {"TEAM_MEMBER"} : Remove({"CLIENT"} \cup below)

\* TeamService.remove.
RemoveTeamMember == "TEAM_MEMBER" \in rows /\ Remove({"TEAM_MEMBER"})

-----------------------------------------------------------------------------
(* Login. *)

\* The row is read, found active, and the password compared with the one it
\* had then; agencies and clients may have MFA.
Login(r, k) ==
    /\ k \in rows
    /\ \E s \in IF k \in Pair THEN {"invalidate", "issue"} ELSE {"issue"} :
           Begin(r, s, k, 0, FALSE)
    /\ UNCHANGED <<rows, otpVars, links, sessVars>>

Mine(r) == {i \in DOMAIN codes : codes[i].kind = req[r].kind}

\* Consumes the codes among those there are.
Invalidates(r, gone) ==
    /\ At(r, "invalidate")
    /\ codes' = [i \in DOMAIN codes |->
                    IF i \in gone THEN [codes[i] EXCEPT !.state = "consumed"] ELSE codes[i]]
    /\ req' = [req EXCEPT ![r].step = "code", ![r].ref = Len(codes)]
    /\ UNCHANGED <<rows, challenges, links, sessVars>>

InvalidateLast(r) ==
    LET pending == {i \in Mine(r) : codes[i].state # "consumed"}
    IN  Invalidates(r, {i \in pending : \A j \in pending : j <= i})

\* issueOtp: consume what is pending, then insert.
Invalidate(r) == Invalidates(r, Mine(r))

ChallengeOnly(r) ==
    /\ At(r, "code")
    /\ challenges' = challenges \cup {[kind |-> req[r].kind, stale |-> req[r].stale]}
    /\ End(r)
    /\ UNCHANGED <<rows, codes, links, sessVars>>

CreateCode(r) ==
    /\ At(r, "code") /\ Cardinality(Traced) + Len(codes) < MaxRows
    /\ codes' = Append(codes, [kind |-> req[r].kind, state |-> "pending", attempts |-> 0,
                               tries |-> 0, seen |-> req[r].ref])
    /\ challenges' = challenges \cup {[kind |-> req[r].kind, stale |-> req[r].stale]}
    /\ End(r)
    /\ UNCHANGED <<rows, links, sessVars>>

\* A challenge comes back, with a code.
VerifyMfa(r, c) ==
    /\ Begin(r, "find", c.kind, 0, c.stale)
    /\ UNCHANGED <<rows, otpVars, links, sessVars>>

RefusesLate(code) == code.state = "expired" \/ code.attempts > MaxAttempts

Refuses(code) == code.state = "expired" \/ code.attempts >= MaxAttempts

\* verifyOtp reads the last pending code and compares it with what was typed.
FindCode(r, matches) ==
    LET pending == {i \in Mine(r) : codes[i].state # "consumed"}
        last    == CHOOSE i \in pending : \A j \in pending : j <= i
    IN  /\ At(r, "find")
        /\ IF pending = {} \/ Refuses(codes[last])
           THEN End(r) /\ UNCHANGED codes
           ELSE /\ codes' = [codes EXCEPT ![last].tries = @ + 1]
                /\ req' = [req EXCEPT ![r].step = IF matches THEN "consume" ELSE "count",
                                      ![r].ref = last]
        /\ UNCHANGED <<rows, challenges, links, sessVars>>

CountAttempt(r) ==
    /\ At(r, "count")
    /\ codes' = [codes EXCEPT ![req[r].ref].attempts = @ + 1]
    /\ End(r)
    /\ UNCHANGED <<rows, challenges, links, sessVars>>

\* The row is read again and must be there, active, under active owners.
PrincipalFor(r) ==
    \/ req[r].kind \in rows /\ Goto(r, "issue")
    \/ End(r)

Consume(r) ==
    /\ At(r, "consume")
    /\ codes' = [codes EXCEPT ![req[r].ref].state = "consumed"]
    /\ PrincipalFor(r)
    /\ UNCHANGED <<rows, challenges, links, sessVars>>

\* finalizeLogin.
Issue(r) ==
    LET k == req[r].kind
    IN  /\ At(r, "issue")
        /\ live' = live \cup {k}
        /\ stale' = IF req[r].stale THEN stale \cup {k} ELSE stale
        /\ End(r)
        /\ UNCHANGED <<rows, otpVars, links, fenced>>

-----------------------------------------------------------------------------
(* Mailed links. *)

\* findSubjectByEmail.
First == CASE "AGENCY" \in rows      -> "AGENCY"
           [] "CLIENT" \in rows      -> "CLIENT"
           [] "TEAM_MEMBER" \in rows -> "TEAM_MEMBER"
           [] OTHER                  -> "SUPER_ADMIN"

Mail(k, purpose) ==
    /\ Len(links) < MaxLinks
    /\ links' = Append(links, [kind |-> k, purpose |-> purpose, state |-> "mailed"])
    /\ UNCHANGED <<rows, otpVars, req, sessVars>>

RequestReset == rows # {} /\ Mail(First, "reset")

SendVerifyEmail(k) == k \in Pair \cap rows /\ Mail(k, "verify")

OpenLink(r, i) ==
    /\ links[i].state = "mailed"
    /\ Begin(r, links[i].purpose, links[i].kind, i, FALSE)
    /\ UNCHANGED <<rows, otpVars, links, sessVars>>

\* Every login of the row that is under way, or waits for a code, has compared
\* a password that no longer counts.
Replace(r) ==
    LET k == req[r].kind
        loggingIn(q) == q # r /\ req[q].kind = k /\ ~At(q, "reset") /\ ~At(q, "verify")
    IN  /\ At(r, "reset") /\ k \in rows
        /\ links' = [links EXCEPT ![req[r].ref].state = "used"]
        /\ req' = [q \in Request |-> CASE q = r         -> Idle
                                       [] loggingIn(q)  -> [req[q] EXCEPT !.stale = TRUE]
                                       [] OTHER         -> req[q]]
        /\ challenges' = {IF c.kind = k THEN [c EXCEPT !.stale = TRUE] ELSE c : c \in challenges}
        /\ fenced' = IF /\ \A q \in Request : ~loggingIn(q)
                        /\ \A c \in challenges : c.kind # k
                     THEN fenced \cup {k} ELSE fenced \ {k}
        /\ UNCHANGED <<rows, codes>>

ConfirmKeepingSessions(r) ==
    LET k == req[r].kind
    IN  /\ Replace(r)
        /\ stale' = stale \cup ({k} \cap live)
        /\ UNCHANGED live

\* The transaction: token used, password replaced, every session of the row
\* revoked.
ConfirmReset(r) ==
    LET k == req[r].kind
    IN  /\ Replace(r)
        /\ live' = live \ {k}
        /\ stale' = stale \ {k}

\* Sets emailVerifiedAt too, which no handler reads.
ConfirmVerify(r) ==
    /\ At(r, "verify")
    /\ links' = [links EXCEPT ![req[r].ref].state = "used"]
    /\ End(r)
    /\ UNCHANGED <<rows, otpVars, sessVars>>

ExpireCode ==
    /\ \E i \in DOMAIN codes : /\ codes[i].state = "pending"
                               /\ codes' = [codes EXCEPT ![i].state = "expired"]
    /\ UNCHANGED <<rows, challenges, links, req, sessVars>>

ExpireLink ==
    /\ \E i \in DOMAIN links : /\ links[i].state = "mailed"
                               /\ links' = [links EXCEPT ![i].state = "expired"]
    /\ UNCHANGED <<rows, otpVars, req, sessVars>>

ExpireChallenge ==
    /\ \E c \in challenges : challenges' = challenges \ {c}
    /\ UNCHANGED <<rows, codes, links, req, sessVars>>

Logout(k) ==
    /\ live' = live \ {k} /\ stale' = stale \ {k}
    /\ UNCHANGED <<rows, otpVars, links, req, fenced>>

Handle(r) ==
    \/ Invalidate(r) \/ CreateCode(r)
    \/ \E matches \in BOOLEAN : FindCode(r, matches)
    \/ CountAttempt(r) \/ Consume(r) \/ Issue(r)
    \/ ConfirmReset(r) \/ ConfirmVerify(r)

Arrive(r) ==
    \/ SignupSmb(r)
    \/ \E k \in Kind : Login(r, k)
    \/ \E c \in challenges : VerifyMfa(r, c)
    \/ \E i \in DOMAIN links : OpenLink(r, i)

Next ==
    \/ \E r \in Request : Handle(r) \/ Arrive(r) \/ Throws(r)
    \/ RegisterAgency \/ CreateClient \/ CreateTeamMember
    \/ RemoveAgency \/ RemoveClient \/ RemoveTeamMember
    \/ \E k \in Kind : SendVerifyEmail(k) \/ Logout(k)
    \/ RequestReset
    \/ ExpireCode \/ ExpireLink \/ ExpireChallenge

Spec == Init /\ [][Next]_vars

-----------------------------------------------------------------------------
(* Properties. *)

\* "OTP_MAX_ATTEMPTS": attempts are counted after the comparison, so requests
\* that overlap may try a code together; each can carry it one guess over the
\* limit and no more, guesses whose update failed aside.
GuessesBounded ==
    \A i \in DOMAIN codes :
        codes[i].tries < MaxAttempts + Cardinality(Request)

\* "Invalidate any pending OTPs for this subject": a login leaves no code open
\* that was there when it invalidated, so several codes open the account only
\* when their logins overlapped, one for each request at a time.
PendingCodesBounded ==
    \A k \in Kind :
        LET pending == {i \in DOMAIN codes : codes[i].kind = k /\ codes[i].state # "consumed"}
            coming  == {r \in Request : req[r].kind = k /\ At(r, "code")}
        IN  /\ Cardinality(pending) + Cardinality(coming) <= Cardinality(Request)
            /\ \A i, j \in pending : i < j => codes[j].seen < i
            /\ \A i \in pending, r \in coming : req[r].ref < i

\* A reset shuts out whoever knows the password it replaced: a session opened
\* with that password later belongs to a login that was under way, or waited
\* for its mailed code, when the reset was confirmed.
ReplacedPasswordFades == stale \cap fenced = {}

\* "Password reset with 30-min tokens that revoke all sessions on success": no
\* session of the address outlives a reset that was asked for it.
ResetEndsSessions ==
    [][(\E i \in DOMAIN links : /\ links[i].purpose = "reset"
                                /\ links[i].state # "used" /\ links'[i].state = "used")
       => live' = {}]_vars
=============================================================================
