------------------------------ MODULE Capacity ------------------------------
(***************************************************************************)
(* The limits of a plan on what an agency may add: clients                 *)
(* (client/client.service.ts) and the WhatsApp numbers of a client, by     *)
(* hand (whatsapp/whatsapp.service.ts) or through Meta's embedded sign-up  *)
(* (whatsapp/embedded-signup.service.ts).                                  *)
(*                                                                         *)
(* PlanLimitsService reads the plan and then counts; the row is inserted   *)
(* some queries, and for a number some calls to Meta, later.  Both tables  *)
(* work alike and do not meet, so a behaviour is about one of them.        *)
(***************************************************************************)
EXTENDS PlanQuota

CONSTANTS Adder,     \* requests handled at a time
          Name,      \* e-mails of clients; phoneNumberIds and instance names
          Limit      \* plan -> maxClients or maxNumbersPerClient

ASSUME CapacityAssumption == IsFiniteSet(Adder) /\ Adder # {} /\ Limit \in [Plan -> Nat]

VARIABLES
    table,   \* the table this behaviour is about
    rows,    \* its rows
    wired,   \* numbers whose messages WhatsApp or Evolution delivers to us
    add,     \* each request: its step, the name, the way, the plan it has read
    best     \* history: the largest limit that has been in force

capVars == <<table, rows, wired, add, best>>

Way == [client |-> {"CLIENT"}, number |-> {"EVOLUTION", "META_CLOUD", "EMBEDDED"}]

CapInit ==
    /\ table \in DOMAIN Way
    /\ rows = {} /\ wired = {}
    /\ add = [a \in Adder |-> <<>>]
    /\ best = Limit[plan]

AddAt(a, s)   == add[a] # <<>> /\ add[a].step = s
AddGoto(a, s) == add' = [add EXCEPT ![a].step = s]
Answer(a)     == add' = [add EXCEPT ![a] = <<>>]

\* The agency's plan is read when the request arrives.
Ask(a, n, way) ==
    /\ add[a] = <<>>
    /\ add' = [add EXCEPT ![a] = [step |-> "count", name |-> n, way |-> way, plan |-> plan]]
    /\ UNCHANGED <<table, rows, wired, best>>

FullTooLate(n, q) == n > Limit[q]
Full(n, q) == n >= Limit[q]

\* assertCanAddClient, assertCanAddNumber.
CountRows(a) ==
    /\ AddAt(a, "count")
    /\ IF Full(Cardinality(rows), add[a].plan)
       THEN Answer(a)
       ELSE AddGoto(a, IF add[a].way = "EMBEDDED" THEN "exchange" ELSE "check")
    /\ UNCHANGED <<table, rows, wired, best>>

\* Embedded sign-up: the code is exchanged for a token and the token checked;
\* then the webhook is subscribed and the number registered, whether or not
\* these calls succeed.
Exchange(a) ==
    /\ AddAt(a, "exchange")
    /\ \/ Answer(a) /\ UNCHANGED wired
       \/ /\ AddGoto(a, "check")
          /\ wired' \in {wired, wired \cup {add[a].name}}
    /\ UNCHANGED <<table, rows, best>>

CheckUnused(a) ==
    /\ AddAt(a, "check")
    /\ IF add[a].name \in rows THEN Answer(a) ELSE AddGoto(a, "insert")
    /\ UNCHANGED <<table, rows, wired, best>>

\* The unique index decides between requests for one name.
InsertRow(a) ==
    /\ AddAt(a, "insert")
    /\ rows' = rows \cup {add[a].name}
    /\ IF add[a].way = "EVOLUTION" /\ add[a].name \notin rows
       THEN AddGoto(a, "provision")
       ELSE Answer(a)
    /\ UNCHANGED <<table, wired, best>>

\* Evolution creates the instance and wires its webhook, after the row.
Provision(a) ==
    /\ AddAt(a, "provision")
    /\ wired' = wired \cup {add[a].name}
    /\ Answer(a)
    /\ UNCHANGED <<table, rows, best>>

\* WhatsappService.remove: teardown, whose errors are swallowed and which Meta
\* numbers do not have, then the row.
Teardown(a, n) ==
    /\ add[a] = <<>> /\ table = "number" /\ n \in rows
    /\ add' = [add EXCEPT ![a] = [step |-> "delete", name |-> n, way |-> "REMOVE", plan |-> plan]]
    /\ wired' \in {wired, wired \ {n}}
    /\ UNCHANGED <<table, rows, best>>

DeleteNumber(a) ==
    /\ AddAt(a, "delete")
    /\ rows' = rows \ {add[a].name}
    /\ Answer(a)
    /\ UNCHANGED <<table, wired, best>>

RemoveClient(n) ==
    /\ table = "client" /\ n \in rows
    /\ rows' = rows \ {n}
    /\ UNCHANGED <<table, wired, add, best>>

\* A query or a call throws, or the process dies.
AddThrows(a) ==
    /\ add[a] # <<>>
    /\ Answer(a)
    /\ UNCHANGED <<table, rows, wired, best>>

\* The agency moves to another plan meanwhile (ChangePlan of PlanQuota).
PlanMoves(q) ==
    /\ q # plan
    /\ ChangePlan(q)
    /\ best' = IF Limit[q] > best THEN Limit[q] ELSE best
    /\ UNCHANGED <<table, rows, wired, add>>

CapStep(a) ==
    \/ CountRows(a) \/ Exchange(a) \/ CheckUnused(a) \/ InsertRow(a)
    \/ Provision(a) \/ DeleteNumber(a)

CapRequest ==
    \/ \E a \in Adder : CapStep(a) \/ AddThrows(a)
    \/ \E a \in Adder, n \in Name : Teardown(a, n) \/ \E w \in Way[table] : Ask(a, n, w)
    \/ \E n \in Name : RemoveClient(n)

CapNext ==
    \/ CapRequest /\ UNCHANGED quotaVars
    \/ \E q \in Plan : PlanMoves(q)

CapSpec == Init /\ CapInit /\ [][CapNext]_<<quotaVars, capVars>>

-----------------------------------------------------------------------------

\* "Plan allows n client(s)": the count and the insert are apart, so requests
\* that overlap may each add a row over the limit, all but the first of them;
\* nothing else makes an agency exceed the largest limit it has had.
CapacityHolds ==
    LET coming == {a \in Adder : add[a] # <<>> /\ add[a].step \in {"exchange", "check", "insert"}}
    IN  Cardinality(rows) + Cardinality(coming) <= best + Cardinality(Adder) - 1
=============================================================================
