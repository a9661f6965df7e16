------------------------------- MODULE Signup -------------------------------
(***************************************************************************)
(* Connecting a number through Meta's embedded signup: the page            *)
(* (web/app/dashboard/settings/connect-whatsapp/page.tsx) and the server's *)
(* side of it (api/src/whatsapp/embedded-signup.service.ts).               *)
(*                                                                         *)
(* Each window the customer goes through reports twice, in any order: the  *)
(* ids of the number by a message event, and a code by FB.login's          *)
(* callback.  The page keeps the latest of each and so may pair the code   *)
(* of one window with the ids of another.                                  *)
(***************************************************************************)
EXTENDS Integers, Sequences

CONSTANTS WabaOf,       \* the business account of each number at Meta
          Absent,       \* undefined, of an id in signupResult
          MaxWindows,   \* bound: signup windows
          MaxFinishes   \* bound: clicks on Finish

Number == DOMAIN WabaOf

ASSUME SignupAssumption == Absent \notin Number /\ MaxWindows \in Nat /\ MaxFinishes \in Nat

VARIABLES
    windows,    \* the number chosen in each window; its code is its index
    reports,    \* what windows have still to report: [of, what]
    result_,    \* signupResult: code (0: none yet) and ids
    pending,    \* the page's request (its index), or 0
    completes,  \* requests to complete: step, code, ids, scopes reported or not
    traded,     \* codes exchanged for a token
    accounts    \* WhatsappAccount rows: number, business account, code of the token

signupVars == <<windows, reports, result_, pending, completes, traded, accounts>>

NoResult_ == [code |-> 0, waba |-> Absent, phone |-> Absent]

SignupInit ==
    /\ windows = <<>> /\ reports = {} /\ result_ = NoResult_
    /\ pending = 0 /\ completes = <<>> /\ traded = {} /\ accounts = {}

-----------------------------------------------------------------------------
(* The page. *)

\* launchSignup; the customer chooses n and finishes the window, or cancels it.
LaunchSignup(n) ==
    /\ Len(windows) < MaxWindows
    /\ windows' = Append(windows, n)
    /\ \E whats \in {{"FINISH", "code"}, {"CANCEL", "no code"}} :
           reports' = reports \cup [of : {Len(windows) + 1}, what : whats]
    /\ UNCHANGED <<result_, pending, completes, traded, accounts>>

\* onMessage, FINISH: both ids are taken from the message, which may lack the
\* number's; the code is kept.
OnFinish(r, n) ==
    /\ r.what = "FINISH" /\ n \in {windows[r.of], Absent}
    /\ result_' = [result_ EXCEPT !.waba = WabaOf[windows[r.of]], !.phone = n]

\* The callback with a code: the ids are kept.
OnCode(r) ==
    /\ r.what = "code"
    /\ result_' = [result_ EXCEPT !.code = r.of]

\* CANCEL, or the callback without a code: everything is forgotten.
OnError(r) ==
    /\ r.what \in {"CANCEL", "no code"}
    /\ result_' = NoResult_

OnReport(r) ==
    /\ r \in reports /\ reports' = reports \ {r}
    /\ OnError(r) \/ OnCode(r) \/ \E n \in Number \cup {Absent} : OnFinish(r, n)
    /\ UNCHANGED <<windows, pending, completes, traded, accounts>>

\* The Finish button, there when the page has a code, enabled when it has the
\* ids too and no request of its own waits.
Ready == result_.code # 0 /\ Absent \notin {result_.waba, result_.phone} /\ pending = 0

Finish ==
    /\ Ready /\ Len(completes) < MaxFinishes
    /\ completes' = Append(completes, [step |-> "exchange", code |-> result_.code,
                         waba |-> result_.waba, phone |-> result_.phone, reported |-> FALSE])
    /\ pending' = Len(completes) + 1
    /\ UNCHANGED <<windows, reports, result_, traded, accounts>>

\* The page is left or loaded again; its request goes on.
LeaveSignup ==
    /\ result_' = NoResult_ /\ reports' = {} /\ pending' = 0
    /\ UNCHANGED <<windows, completes, traded, accounts>>

-----------------------------------------------------------------------------
(* EmbeddedSignupService.complete. *)

CompleteAt(i, s) == completes[i].step = s

\* An error leaves the page as it was; success takes it to the settings.
Fails(i) ==
    /\ completes' = [completes EXCEPT ![i].step = "failed"]
    /\ pending' = IF pending = i THEN 0 ELSE pending
    /\ UNCHANGED <<reports, result_>>
Completes(i) ==
    /\ completes' = [completes EXCEPT ![i].step = "done"]
    /\ IF pending = i THEN pending' = 0 /\ result_' = NoResult_ /\ reports' = {}
                      ELSE UNCHANGED <<pending, result_, reports>>
Continue(i, s) ==
    /\ completes' = [completes EXCEPT ![i].step = s]
    /\ UNCHANGED <<pending, result_, reports>>

\* Meta trades a code once.
ExchangeCode(i) ==
    /\ CompleteAt(i, "exchange")
    /\ traded' = traded \cup {completes[i].code}
    /\ IF completes[i].code \in traded THEN Fails(i) ELSE Continue(i, "check")
    /\ UNCHANGED <<windows, accounts>>

\* As if debug_token were asked for validity only.
GrantedAny(c, reported) == TRUE

\* The token is good for the business account, as far as Meta says.
Granted(c, reported) == reported => WabaOf[windows[c.code]] = c.waba

CheckToken(i, reported) ==
    /\ CompleteAt(i, "check")
    /\ IF Granted(completes[i], reported)
       THEN /\ completes' = [completes EXCEPT ![i].step = "find", ![i].reported = reported]
            /\ UNCHANGED <<pending, result_, reports>>
       ELSE Fails(i)
    /\ UNCHANGED <<windows, traded, accounts>>

Taken(i) == \E a \in accounts : a.phone = completes[i].phone

FindDuplicate(i) ==
    /\ CompleteAt(i, "find")
    /\ IF Taken(i) THEN Fails(i) ELSE Continue(i, "insert")
    /\ UNCHANGED <<windows, traded, accounts>>

\* The unique index decides between requests for one number.
InsertAccount(i) ==
    /\ CompleteAt(i, "insert")
    /\ IF Taken(i)
       THEN Fails(i) /\ UNCHANGED accounts
       ELSE /\ Completes(i)
            /\ LET c == completes[i] IN
               accounts' = accounts \cup {[phone |-> c.phone, waba |-> c.waba,
                                           code |-> c.code, reported |-> c.reported]}
    /\ UNCHANGED <<windows, traded>>

\* A call or query throws, or the process dies.
CompleteThrows(i) ==
    /\ completes[i].step \notin {"failed", "done"}
    /\ Fails(i)
    /\ UNCHANGED <<windows, traded, accounts>>

SignupNext ==
    \/ Finish \/ LeaveSignup
    \/ \E n \in Number : LaunchSignup(n)
    \/ \E r \in reports : OnReport(r)
    \/ \E i \in DOMAIN completes :
           \/ ExchangeCode(i) \/ FindDuplicate(i) \/ InsertAccount(i) \/ CompleteThrows(i)
           \/ \E reported \in BOOLEAN : CheckToken(i, reported)

SignupSpec == SignupInit /\ [][SignupNext]_signupVars

-----------------------------------------------------------------------------

(* Whatever windows the page's code and ids come from, a connected number  *)
(* is one of its business account, its token is its own, and good for that *)
(* account unless Meta did not report what the token is good for           *)
(* (signupResult, EmbeddedSignupService.complete).                         *)
TokenFitsNumber ==
    \A a \in accounts :
        /\ WabaOf[a.phone] = a.waba
        /\ a.reported => WabaOf[windows[a.code]] = a.waba
        /\ \A b \in accounts : b.code = a.code => b = a
=============================================================================
