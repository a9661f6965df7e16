---------------------------- MODULE PeopleProofs ----------------------------
(***************************************************************************)
(* Theorems about the people a workspace keeps: their Accounts, and the    *)
(* Contacts of a client, the tables they are imported from (Csv) and the   *)
(* Deals they are in; for every number of requests at a time and every     *)
(* value of the other constants.                                           *)
(***************************************************************************)
EXTENDS Accounts, Contacts, Csv, Deals,
        FiniteSetTheorems, SequenceTheorems, WellFoundedInduction, TLAPS

-----------------------------------------------------------------------------
(* Small facts about the data. *)

Req == [step : Step, kind : Kind \cup {"NONE"}, ref : Nat, stale : BOOLEAN]

\* A set of positions has a last one.
LEMMA LastOne ==
  ASSUME NEW n \in Nat, NEW S, S \subseteq 1 .. n, S # {}
  PROVE  \E m \in S : \A j \in S : j <= m
  <1> DEFINE T == {n - i : i \in S}
  <1>1. T \subseteq Nat /\ T # {}
    <2>1. PICK i \in S : TRUE
      OBVIOUS
    <2>2. n - i \in T
      BY <2>1
    <2>3. \A j \in S : n - j \in Nat
      OBVIOUS
    <2>4. QED
      BY <2>2, <2>3
  <1>2. PICK x \in T : \A y \in T : <<y, x>> \notin OpToRel(<, Nat)
    <2> HIDE DEF T
    <2>1. IsWellFoundedOn(OpToRel(<, Nat), Nat)
      BY NatLessThanWellFounded
    <2>2. QED
      BY <1>1, <2>1, WFMin
  <1>3. PICK m \in S : x = n - m
    OBVIOUS
  <1>4. ASSUME NEW j \in S
        PROVE  j <= m
    <2>1. n - j \in T /\ n - j \in Nat /\ x \in Nat
      BY <1>1
    <2>2. ~(n - j < x)
      BY <1>2, <2>1 DEF OpToRel
    <2>3. QED
      BY <1>3, <2>2
  <1>5. QED
    BY <1>4

\* A row that is rewritten in place.
LEMMA Rewritten ==
  ASSUME NEW S, NEW q \in Seq(S), NEW i \in DOMAIN q, NEW x \in S
  PROVE  /\ [q EXCEPT ![i] = x] \in Seq(S)
         /\ DOMAIN [q EXCEPT ![i] = x] = DOMAIN q
         /\ [q EXCEPT ![i] = x][i] = x
         /\ \A j \in DOMAIN q \ {i} : [q EXCEPT ![i] = x][j] = q[j]
  <1>1. i \in 1 .. Len(q) /\ DOMAIN q = 1 .. Len(q)
    BY LenProperties
  <1>2. [q EXCEPT ![i] = x] \in Seq(S)
    BY <1>1, ExceptSeq
  <1>3. QED
    BY <1>2

\* A row that is added at the end.
LEMMA Added ==
  ASSUME NEW S, NEW q \in Seq(S), NEW x \in S
  PROVE  /\ Append(q, x) \in Seq(S)
         /\ DOMAIN Append(q, x) = DOMAIN q \cup {Len(q) + 1}
         /\ Append(q, x)[Len(q) + 1] = x
         /\ \A j \in DOMAIN q : Append(q, x)[j] = q[j]
         /\ Len(q) + 1 \notin DOMAIN q
  <1>1. DOMAIN q = 1 .. Len(q) /\ Len(q) \in Nat
    BY LenProperties
  <1>2. Append(q, x) \in Seq(S) /\ Len(Append(q, x)) = Len(q) + 1
    OBVIOUS
  <1>3. DOMAIN Append(q, x) = 1 .. Len(q) + 1
    BY <1>2, LenProperties
  <1>4. QED
    BY <1>1, <1>2, <1>3

-----------------------------------------------------------------------------
(* Accounts: types. *)

\* A request that is over holds nothing, one that runs belongs to a row, and a
\* code has been tried at least by the requests about to record their guess.
Trying(i) == {r \in Request : req[r].step \in {"count", "consume"} /\ req[r].ref = i}

TallyAt(i) ==
    /\ Cardinality(Trying(i)) <= codes[i].tries
    /\ codes[i].tries < MaxAttempts + Cardinality(Request)
    /\ codes[i].attempts + Cardinality(Trying(i)) < MaxAttempts + Cardinality(Request)
    /\ codes[i].state # "consumed" =>
           codes[i].tries <= codes[i].attempts + Cardinality(Trying(i))

Formed ==
    \A r \in Request : IF At(r, "idle") THEN req[r] = Idle ELSE req[r].kind \in Kind

AccountsInv == TypeOK /\ Formed /\ \A i \in DOMAIN codes : TallyAt(i)

\* Rows of codes stay, with their kind; rows of links stay.
RowsStay ==
    /\ codes' \in Seq(Code) /\ DOMAIN codes \subseteq DOMAIN codes'
    /\ \A i \in DOMAIN codes : codes'[i].kind = codes[i].kind
    /\ links' \in Seq(Link) /\ DOMAIN links \subseteq DOMAIN links'

\* A step in which request r becomes x, a well-formed request.
LEMMA RequestKeepsTypes ==
  ASSUME TypeOK, Formed, RowsStay, NEW r \in Request, NEW x \in Req,
         req' = [req EXCEPT ![r] = x],
         IF x.step = "idle" THEN x = Idle ELSE x.kind \in Kind,
         x.step \in {"count", "consume"} => x.ref \in DOMAIN codes',
         x.step \in {"reset", "verify"} => x.ref \in DOMAIN links',
         rows' \subseteq Kind, challenges' \subseteq Challenge,
         \A c \in challenges' : c \in challenges \/
             \E i \in DOMAIN codes' : codes'[i].kind = c.kind,
         live' \subseteq Kind, stale' \subseteq live', fenced' \subseteq Kind
  PROVE  TypeOK' /\ Formed'
  <1>1. /\ req' \in [Request -> Req] /\ req'[r] = x
        /\ \A q \in Request \ {r} : req'[q] = req[q]
    BY DEF TypeOK, Req
  <1>2. \A q \in Request :
           /\ req'[q].step \in {"count", "consume"} => req'[q].ref \in DOMAIN codes'
           /\ req'[q].step \in {"reset", "verify"} => req'[q].ref \in DOMAIN links'
    BY <1>1 DEF TypeOK, RowsStay
  <1>3. \A c \in challenges' : \E i \in DOMAIN codes' : codes'[i].kind = c.kind
    <2>1. SUFFICES ASSUME NEW c \in challenges
                   PROVE  \E i \in DOMAIN codes' : codes'[i].kind = c.kind
      OBVIOUS
    <2>2. PICK i \in DOMAIN codes : codes[i].kind = c.kind
      BY DEF TypeOK
    <2>3. QED
      BY <2>2 DEF RowsStay
  <1>4. Formed'
    BY <1>1 DEF Formed, At
  <1>5. QED
    BY <1>1, <1>2, <1>3, <1>4 DEF TypeOK, RowsStay, Req

\* A step in which no request moves.
LEMMA QuietKeepsTypes ==
  ASSUME TypeOK, Formed, RowsStay, req' = req,
         rows' \subseteq Kind, challenges' \subseteq challenges,
         live' \subseteq Kind, stale' \subseteq live', fenced' = fenced
  PROVE  TypeOK' /\ Formed'
  <1>1. \A q \in Request :
           /\ req'[q].step \in {"count", "consume"} => req'[q].ref \in DOMAIN codes'
           /\ req'[q].step \in {"reset", "verify"} => req'[q].ref \in DOMAIN links'
    BY DEF TypeOK, RowsStay
  <1>2. \A c \in challenges' : \E i \in DOMAIN codes' : codes'[i].kind = c.kind
    <2>1. SUFFICES ASSUME NEW c \in challenges
                   PROVE  \E i \in DOMAIN codes' : codes'[i].kind = c.kind
      OBVIOUS
    <2>2. PICK i \in DOMAIN codes : codes[i].kind = c.kind
      BY DEF TypeOK
    <2>3. QED
      BY <2>2 DEF RowsStay
  <1>3. QED
    BY <1>1, <1>2 DEF TypeOK, RowsStay, Formed, At

\* A request that goes on to its next query.
LEMMA GoesOn ==
  ASSUME TypeOK, Formed, NEW r \in Request, NEW s \in Step \ {"idle"},
         ~At(r, "idle"), Goto(r, s)
  PROVE  \E x \in Req : /\ req' = [req EXCEPT ![r] = x]
                        /\ x.step = s /\ x.kind = req[r].kind /\ x.kind \in Kind
                        /\ x.stale = req[r].stale
  <1> DEFINE x == [step |-> s, kind |-> req[r].kind, ref |-> 0, stale |-> req[r].stale]
  <1>1. req \in [Request -> Req] /\ x \in Req
    BY DEF TypeOK, Req
  <1>2. req' \in [Request -> Req]
    BY <1>1 DEF Goto, Req
  <1>3. \A q \in Request \ {r} : req'[q] = req[q]
    BY <1>1 DEF Goto
  <1>4. req'[r] = x
    <2>1. /\ req'[r].step = s /\ req'[r].kind = req[r].kind
          /\ req'[r].ref = 0 /\ req'[r].stale = req[r].stale
      BY <1>1 DEF Goto, Req
    <2>2. req'[r] \in Req
      BY <1>2
    <2>3. QED
      BY <2>1, <2>2 DEF Req
  <1> HIDE DEF x
  <1>5. req' = [req EXCEPT ![r] = x]
    BY <1>1, <1>2, <1>3, <1>4
  <1>6. req[r].kind \in Kind
    BY DEF Formed
  <1>7. QED
    BY <1>1, <1>5, <1>6 DEF x

LEMMA IdleReq == Idle \in Req /\ Idle.step = "idle" /\ ~Idle.stale
  BY DEF Idle, Req, Step

\* A request whose row is asked for is under way.
LEMMA UnderWay ==
  ASSUME NEW r, ~At(r, "idle")
  PROVE  req[r] # Idle
  BY DEF At, Idle

-----------------------------------------------------------------------------
(* Accounts: guesses. *)

\* The requests are finitely many, and so are those about to record a guess.
LEMMA TryingCounts ==
  ASSUME AccountsInv, NEW i
  PROVE  /\ IsFiniteSet(Trying(i)) /\ Cardinality(Trying(i)) \in Nat
         /\ Cardinality(Request) \in Nat
         /\ \A r \in Request \ Trying(i) :
               /\ Cardinality(Trying(i) \cup {r}) = Cardinality(Trying(i)) + 1
               /\ Cardinality(Trying(i)) < Cardinality(Request)
         /\ \A r \in Trying(i) : Cardinality(Trying(i) \ {r}) = Cardinality(Trying(i)) - 1
  <1>1. IsFiniteSet(Request) /\ Trying(i) \subseteq Request
    BY AccountsAssumption DEF Trying
  <1>2. IsFiniteSet(Trying(i)) /\ Cardinality(Trying(i)) \in Nat
        /\ Cardinality(Request) \in Nat
    BY <1>1, FS_Subset, FS_CardinalityType
  <1>3. ASSUME NEW r \in Request \ Trying(i)
        PROVE  /\ Cardinality(Trying(i) \cup {r}) = Cardinality(Trying(i)) + 1
               /\ Cardinality(Trying(i)) < Cardinality(Request)
    <2>1. Cardinality(Trying(i) \cup {r}) = Cardinality(Trying(i)) + 1
      BY <1>2, FS_AddElement
    <2>2. Trying(i) \cup {r} \subseteq Request
      BY <1>1
    <2>3. Cardinality(Trying(i) \cup {r}) <= Cardinality(Request)
      BY <1>1, <2>2, FS_Subset
    <2>4. QED
      BY <1>2, <2>1, <2>3
  <1>4. ASSUME NEW r \in Trying(i)
        PROVE  Cardinality(Trying(i) \ {r}) = Cardinality(Trying(i)) - 1
    BY <1>2, FS_RemoveElement
  <1>5. QED
    BY <1>2, <1>3, <1>4

\* A code whose numbers stay, and that stays consumed if it is.
LEMMA TallyStays ==
  ASSUME AccountsInv, NEW i \in DOMAIN codes, Trying(i)' = Trying(i),
         codes'[i].tries = codes[i].tries, codes'[i].attempts = codes[i].attempts,
         codes'[i].state # "consumed" => codes[i].state # "consumed"
  PROVE  TallyAt(i)'
  BY DEF AccountsInv, TallyAt

\* Nobody starts or ends a guess.
LEMMA TryingStays ==
  ASSUME TypeOK, NEW r \in Request, NEW x \in Req, req' = [req EXCEPT ![r] = x],
         req[r].step \notin {"count", "consume"}, x.step \notin {"count", "consume"},
         NEW i
  PROVE  Trying(i)' = Trying(i)
  BY DEF TypeOK, Trying

\* A guess is recorded, or lost: its request leaves the code.
LEMMA TryingEnds ==
  ASSUME TypeOK, NEW r \in Request, NEW x \in Req, req' = [req EXCEPT ![r] = x],
         req[r].step \in {"count", "consume"}, x.step \notin {"count", "consume"},
         NEW n, n = req[r].ref
  PROVE  /\ r \in Trying(n) /\ Trying(n)' = Trying(n) \ {r}
         /\ \A i : i # n => Trying(i)' = Trying(i)
  <1>1. \A q \in Request : req'[q] = IF q = r THEN x ELSE req[q]
    BY DEF TypeOK
  <1>2. QED
    BY <1>1 DEF Trying

\* A guess ends: the code it was made on is rewritten, and its tally holds.
LEMMA GuessEnds ==
  ASSUME AccountsInv, NEW r \in Request, NEW x \in Req,
         req' = [req EXCEPT ![r] = x],
         req[r].step \in {"count", "consume"}, x.step \notin {"count", "consume"},
         NEW n, n = req[r].ref, NEW c \in Code, codes' = [codes EXCEPT ![n] = c],
         LET old == codes[n]
         IN  \/ c.tries = old.tries - 1 /\ c.attempts = old.attempts /\ c.state = old.state
             \/ c.tries = old.tries /\ c.attempts = old.attempts + 1 /\ c.state = old.state
             \/ c.tries = old.tries /\ c.attempts = old.attempts /\ c.state = "consumed",
         c.kind = codes[n].kind
  PROVE  /\ codes' \in Seq(Code) /\ DOMAIN codes' = DOMAIN codes
         /\ \A i \in DOMAIN codes : codes'[i].kind = codes[i].kind
         /\ \A i \in DOMAIN codes' : TallyAt(i)'
  <1>0. TypeOK /\ n \in DOMAIN codes /\ codes \in Seq(Code) /\ codes[n] \in Code
    <2>1. TypeOK /\ n \in DOMAIN codes /\ codes \in Seq(Code)
      BY DEF AccountsInv, TypeOK
    <2>2. QED
      BY <2>1, LenProperties, ElementOfSeq
  <1>1. /\ codes' \in Seq(Code) /\ DOMAIN codes' = DOMAIN codes
        /\ codes'[n] = c /\ \A i \in DOMAIN codes \ {n} : codes'[i] = codes[i]
    BY <1>0, Rewritten
  <1>2. /\ r \in Trying(n) /\ Trying(n)' = Trying(n) \ {r}
        /\ \A i : i # n => Trying(i)' = Trying(i)
    BY <1>0, TryingEnds
  <1>3. ASSUME NEW i \in DOMAIN codes, i # n
        PROVE  TallyAt(i)'
    BY <1>1, <1>2, <1>3, TallyStays
  <1>4. TallyAt(n)'
    <2>1. /\ Cardinality(Trying(n)') = Cardinality(Trying(n)) - 1
          /\ Cardinality(Trying(n)) \in Nat /\ Cardinality(Request) \in Nat
      BY <1>2, TryingCounts
    <2>2. /\ codes[n].tries \in Nat /\ codes[n].attempts \in Nat
          /\ c.tries \in Nat /\ c.attempts \in Nat /\ MaxAttempts \in Nat
      BY <1>0, AccountsAssumption DEF Code
    <2>3. TallyAt(n)
      BY <1>0 DEF AccountsInv
    <2>4. /\ Cardinality(Trying(n)') <= c.tries
          /\ c.tries < MaxAttempts + Cardinality(Request)
          /\ c.attempts + Cardinality(Trying(n)') < MaxAttempts + Cardinality(Request)
          /\ c.state # "consumed" => c.tries <= c.attempts + Cardinality(Trying(n)')
      BY <2>1, <2>2, <2>3 DEF TallyAt
    <2>5. QED
      BY <1>1, <2>4 DEF TallyAt
  <1>5. QED
    BY <1>1, <1>3, <1>4

\* The codes keep their numbers.
NumbersStay ==
    /\ codes' \in Seq(Code) /\ DOMAIN codes' = DOMAIN codes
    /\ \A i \in DOMAIN codes :
           /\ codes'[i].kind = codes[i].kind
           /\ codes'[i].tries = codes[i].tries /\ codes'[i].attempts = codes[i].attempts
           /\ codes'[i].state # "consumed" => codes[i].state # "consumed"

LinksStay == links' \in Seq(Link) /\ DOMAIN links \subseteq DOMAIN links'

LEMMA Unchanged ==
  ASSUME TypeOK
  PROVE  /\ codes' = codes => NumbersStay
         /\ links' = links => LinksStay
  BY DEF TypeOK, NumbersStay, LinksStay

\* A step in which request r becomes x, and no guess starts or ends.
LEMMA RequestKeeps ==
  ASSUME AccountsInv, NumbersStay, LinksStay, NEW r \in Request, NEW x \in Req,
         req' = [req EXCEPT ![r] = x],
         IF x.step = "idle" THEN x = Idle ELSE x.kind \in Kind,
         req[r].step \notin {"count", "consume"}, x.step \notin {"count", "consume"},
         x.step \in {"reset", "verify"} => x.ref \in DOMAIN links',
         rows' \subseteq Kind, challenges' \subseteq Challenge,
         \A c \in challenges' : c \in challenges \/
             \E i \in DOMAIN codes' : codes'[i].kind = c.kind,
         live' \subseteq Kind, stale' \subseteq live', fenced' \subseteq Kind
  PROVE  AccountsInv'
  <1>0. TypeOK /\ Formed /\ RowsStay
    BY DEF AccountsInv, RowsStay, NumbersStay, LinksStay
  <1>1. TypeOK' /\ Formed'
    BY <1>0, RequestKeepsTypes
  <1>2. ASSUME NEW i \in DOMAIN codes
        PROVE  TallyAt(i)'
    <2>1. Trying(i)' = Trying(i)
      BY <1>0, TryingStays
    <2>2. QED
      BY <2>1, TallyStays DEF NumbersStay
  <1>3. QED
    BY <1>1, <1>2 DEF AccountsInv, NumbersStay

\* A step in which no request moves.
LEMMA QuietKeeps ==
  ASSUME AccountsInv, NumbersStay, LinksStay, req' = req,
         rows' \subseteq Kind, challenges' \subseteq challenges,
         live' \subseteq Kind, stale' \subseteq live', fenced' = fenced
  PROVE  AccountsInv'
  <1>0. TypeOK /\ Formed /\ RowsStay
    BY DEF AccountsInv, RowsStay, NumbersStay, LinksStay
  <1>1. TypeOK' /\ Formed'
    BY <1>0, QuietKeepsTypes
  <1>2. ASSUME NEW i \in DOMAIN codes
        PROVE  TallyAt(i)'
    <2>1. Trying(i)' = Trying(i)
      BY DEF Trying
    <2>2. QED
      BY <2>1, TallyStays DEF NumbersStay
  <1>3. QED
    BY <1>1, <1>2 DEF AccountsInv, NumbersStay

\* What the types say of every step that leaves the sessions alone.
LEMMA Sets ==
  ASSUME AccountsInv
  PROVE  /\ TypeOK /\ Formed /\ rows \subseteq Kind /\ challenges \subseteq Challenge
         /\ live \subseteq Kind /\ stale \subseteq live /\ fenced \subseteq Kind
         /\ "NONE" \notin Kind
  BY AccountsAssumption DEF AccountsInv, TypeOK

\* A request comes in.
LEMMA BeginKeeps ==
  ASSUME AccountsInv, NEW r \in Request, NEW s \in Step, NEW k \in Kind, NEW n \in Nat,
         NEW old \in BOOLEAN, Begin(r, s, k, n, old),
         s \notin {"idle", "count", "consume"}, s \in {"reset", "verify"} => n \in DOMAIN links,
         rows' \subseteq Kind, UNCHANGED <<otpVars, links, sessVars>>
  PROVE  AccountsInv'
  <1> DEFINE x == [step |-> s, kind |-> k, ref |-> n, stale |-> old]
  <1>1. x \in Req /\ req' = [req EXCEPT ![r] = x]
    BY DEF Begin, Req
  <1>2. /\ x.step = s /\ x.kind = k /\ x.ref = n
        /\ req[r].step \notin {"count", "consume"}
    BY DEF Begin, Idle
  <1>3. UNCHANGED <<codes, challenges, links, live, stale, fenced>>
    BY DEF otpVars, sessVars
  <1> HIDE DEF x
  <1>4. QED
    BY <1>1, <1>2, <1>3, Sets, Unchanged, RequestKeeps

\* A request is over, and only its own query changed anything.
LEMMA EndKeeps ==
  ASSUME AccountsInv, NumbersStay, LinksStay, NEW r \in Request, End(r),
         req[r].step \notin {"count", "consume"},
         rows' \subseteq Kind, challenges' \subseteq Challenge,
         \A c \in challenges' : c \in challenges \/
             \E i \in DOMAIN codes' : codes'[i].kind = c.kind,
         live' \subseteq Kind, stale' \subseteq live', fenced' \subseteq Kind
  PROVE  AccountsInv'
  <1>1. req' = [req EXCEPT ![r] = Idle]
    BY DEF End
  <1>2. QED
    BY <1>1, IdleReq, RequestKeeps

LEMMA ArriveKeeps ==
  ASSUME AccountsInv, NEW r \in Request, Arrive(r)
  PROVE  AccountsInv'
  <1> USE Sets
  <1>0. \A s \in {"idle", "invalidate", "code", "find", "count", "consume", "issue",
                  "reset", "verify"} : s \in Step
    BY DEF Step
  <1>1. CASE SignupSmb(r)
    <2>1. "CLIENT" \in Kind /\ rows' \subseteq Kind
      BY <1>1 DEF SignupSmb, Pair
    <2>2. QED
      BY <1>0, <1>1, <2>1, BeginKeeps DEF SignupSmb
  <1>2. ASSUME NEW k \in Kind, Login(r, k)
        PROVE  AccountsInv'
    <2>1. PICK s \in {"invalidate", "issue"} : Begin(r, s, k, 0, FALSE)
      BY <1>2 DEF Login
    <2>2. QED
      BY <1>0, <1>2, <2>1, BeginKeeps DEF Login
  <1>3. ASSUME NEW c \in challenges, VerifyMfa(r, c)
        PROVE  AccountsInv'
    <2>1. c.kind \in Kind /\ c.stale \in BOOLEAN
      BY DEF Challenge
    <2>2. QED
      BY <1>0, <1>3, <2>1, BeginKeeps DEF VerifyMfa
  <1>4. ASSUME NEW i \in DOMAIN links, OpenLink(r, i)
        PROVE  AccountsInv'
    <2>0. links \in Seq(Link)
      BY DEF TypeOK
    <2>1. links[i] \in Link /\ i \in Nat
      BY <2>0, LenProperties, ElementOfSeq
    <2>2. links[i].kind \in Kind /\ links[i].purpose \in {"reset", "verify"}
      BY <2>1 DEF Link
    <2>3. QED
      BY <1>0, <1>4, <2>1, <2>2, BeginKeeps DEF OpenLink
  <1>5. QED
    BY <1>1, <1>2, <1>3, <1>4 DEF Arrive

LEMMA InvalidateKeeps ==
  ASSUME AccountsInv, NEW r \in Request, Invalidate(r)
  PROVE  AccountsInv'
  <1>0. codes \in Seq(Code)
    BY DEF AccountsInv, TypeOK
  <1> DEFINE new(i) == IF i \in Mine(r) THEN [codes[i] EXCEPT !.state = "consumed"] ELSE codes[i]
  <1>1. ASSUME NEW i \in DOMAIN codes
        PROVE  /\ new(i) \in Code /\ new(i).kind = codes[i].kind
               /\ new(i).tries = codes[i].tries /\ new(i).attempts = codes[i].attempts
               /\ new(i).state # "consumed" => codes[i].state # "consumed"
    <2>1. codes[i] \in Code
      BY <1>0, LenProperties, ElementOfSeq
    <2>2. CASE i \in Mine(r)
      BY <2>1, <2>2 DEF Code
    <2>3. CASE i \notin Mine(r)
      BY <2>1, <2>3
    <2>4. QED
      BY <2>2, <2>3
  <1>2. codes' = [i \in DOMAIN codes |-> new(i)]
    BY DEF Invalidate, Invalidates
  <1> HIDE DEF new
  <1>3. DOMAIN codes = 1 .. Len(codes) /\ Len(codes) \in Nat
    BY <1>0, LenProperties
  <1>4. codes' \in [1 .. Len(codes) -> Code]
    BY <1>1, <1>2, <1>3
  <1>5. codes' \in Seq(Code)
    BY <1>3, <1>4, SeqDef
  <1>6. NumbersStay
    BY <1>1, <1>2, <1>5 DEF NumbersStay
  <1> DEFINE x == [step |-> "code", kind |-> req[r].kind, ref |-> Len(codes),
                   stale |-> req[r].stale]
  <1>7. /\ x \in Req /\ req' = [req EXCEPT ![r] = x] /\ x.step = "code"
        /\ x.kind \in Kind /\ req[r].step = "invalidate"
    <2>1. req[r].kind \in Kind /\ req[r].stale \in BOOLEAN /\ req \in [Request -> Req]
          /\ req[r].step = "invalidate"
      <3>1. At(r, "invalidate")
        BY DEF Invalidate, Invalidates
      <3>2. QED
        BY <3>1, Sets DEF At, Formed, TypeOK, Req
    <2>2. x \in Req
      BY <1>3, <2>1 DEF Req, Step
    <2>3. req' = [req EXCEPT ![r] = x]
      <3>1. /\ req' \in [Request -> Req] /\ \A q \in Request \ {r} : req'[q] = req[q]
            /\ req'[r].step = "code" /\ req'[r].kind = req[r].kind
            /\ req'[r].ref = Len(codes) /\ req'[r].stale = req[r].stale
        BY <1>3, <2>1 DEF Invalidate, Invalidates, Req, Step
      <3>2. req'[r] = x
        BY <2>2, <3>1 DEF Req
      <3> HIDE DEF x
      <3>3. QED
        BY <2>1, <3>1, <3>2
    <2>4. QED
      BY <2>1, <2>2, <2>3
  <1>8. UNCHANGED <<rows, challenges, links, live, stale, fenced>>
    BY DEF Invalidate, Invalidates, sessVars
  <1> HIDE DEF x
  <1>9. QED
    BY <1>6, <1>7, <1>8, Sets, Unchanged, RequestKeeps

LEMMA CreateCodeKeeps ==
  ASSUME AccountsInv, NEW r \in Request, CreateCode(r)
  PROVE  AccountsInv'
  <1> DEFINE k == req[r].kind
             c == [kind |-> k, state |-> "pending", attempts |-> 0, tries |-> 0,
                   seen |-> req[r].ref]
  <1>1. k \in Kind /\ req[r].stale \in BOOLEAN /\ req[r].ref \in Nat
        /\ codes \in Seq(Code)
    BY DEF CreateCode, AccountsInv, Formed, At, TypeOK
  <1>2. c \in Code /\ codes' = Append(codes, c)
    BY <1>1 DEF Code, CreateCode
  <1>3. c.kind = k /\ c.tries = 0 /\ c.attempts = 0
    OBVIOUS
  <1> HIDE DEF c
  <1>4. PICK m :
          /\ codes' \in Seq(Code) /\ DOMAIN codes' = DOMAIN codes \cup {m}
          /\ codes'[m] = c /\ \A j \in DOMAIN codes : codes'[j] = codes[j]
          /\ m \notin DOMAIN codes
    BY <1>1, <1>2, Added
  <1>5. req' = [req EXCEPT ![r] = Idle] /\ req[r].step \notin {"count", "consume"}
    BY DEF CreateCode, End, At
  <1>6. RowsStay
    BY <1>4, Sets DEF RowsStay, CreateCode, TypeOK
  <1>7. UNCHANGED <<rows, links, live, stale, fenced>>
    BY DEF CreateCode, sessVars
  <1>8. /\ challenges' \subseteq Challenge
        /\ \A d \in challenges' : d \in challenges \/
               \E i \in DOMAIN codes' : codes'[i].kind = d.kind
    <2> DEFINE d == [kind |-> k, stale |-> req[r].stale]
    <2>1. challenges' = challenges \cup {d} /\ d \in Challenge /\ d.kind = k
      BY <1>1 DEF CreateCode, Challenge
    <2>2. QED
      BY <1>3, <1>4, <2>1, Sets
  <1>9. TypeOK' /\ Formed'
    BY <1>5, <1>6, <1>7, <1>8, Sets, IdleReq, RequestKeepsTypes
  <1>10. ASSUME NEW i \in DOMAIN codes
         PROVE  TallyAt(i)'
    <2>1. Trying(i)' = Trying(i)
      BY <1>5, Sets, IdleReq, TryingStays
    <2>2. QED
      BY <1>4, <2>1, TallyStays
  <1>11. TallyAt(m)'
    <2>1. Trying(m)' = {}
      <3>1. Trying(m) = {}
        BY <1>4 DEF Trying, AccountsInv, TypeOK
      <3>2. QED
        BY <1>5, <3>1, Sets, IdleReq DEF Trying, TypeOK
    <2>2. Cardinality(Trying(m)') = 0
      BY <2>1, FS_EmptySet
    <2>3. Cardinality(Request) \in Nat /\ MaxAttempts \in Nat \ {0}
      BY TryingCounts, AccountsAssumption
    <2>4. codes'[m] = c
      BY <1>4
    <2>5. QED
      BY <1>3, <2>2, <2>3, <2>4 DEF TallyAt
  <1>12. QED
    BY <1>4, <1>9, <1>10, <1>11 DEF AccountsInv

LEMMA FindCodeKeeps ==
  ASSUME AccountsInv, NEW r \in Request, NEW matches \in BOOLEAN, FindCode(r, matches)
  PROVE  AccountsInv'
  <1> DEFINE pending == {i \in Mine(r) : codes[i].state # "consumed"}
             last == CHOOSE i \in pending : \A j \in pending : j <= i
  <1>0. /\ At(r, "find") /\ UNCHANGED <<rows, challenges, links, live, stale, fenced>>
        /\ IF pending = {} \/ Refuses(codes[last])
           THEN End(r) /\ UNCHANGED codes
           ELSE /\ codes' = [codes EXCEPT ![last].tries = @ + 1]
                /\ req' = [req EXCEPT ![r].step = IF matches THEN "consume" ELSE "count",
                                      ![r].ref = last]
    BY DEF FindCode, sessVars
  <1>1. CASE End(r) /\ UNCHANGED codes
    BY <1>0, <1>1, Sets, Unchanged, EndKeeps DEF At
  <1>2. CASE /\ pending # {} /\ ~Refuses(codes[last])
             /\ codes' = [codes EXCEPT ![last].tries = @ + 1]
             /\ req' = [req EXCEPT ![r].step = IF matches THEN "consume" ELSE "count",
                                   ![r].ref = last]
    <2>0. codes \in Seq(Code) /\ DOMAIN codes = 1 .. Len(codes) /\ Len(codes) \in Nat
      BY LenProperties DEF AccountsInv, TypeOK
    <2>1. last \in pending
      <3>1. pending \subseteq 1 .. Len(codes)
        BY <2>0 DEF Mine
      <3>2. \E m \in pending : \A j \in pending : j <= m
        BY <1>2, <2>0, <3>1, LastOne
      <3>3. QED
        BY <3>2
    <2>2. last \in DOMAIN codes /\ codes[last].kind = req[r].kind
      BY <2>1 DEF Mine
    <2> HIDE DEF last, pending
    <2>3. PICK n \in DOMAIN codes : n = last
      BY <2>2
    <2>a. codes[n] \in Code
      BY <2>0, <2>3, ElementOfSeq
    <2> DEFINE c == [codes[n] EXCEPT !.tries = @ + 1]
               s == IF matches THEN "consume" ELSE "count"
               x == [step |-> s, kind |-> req[r].kind, ref |-> n, stale |-> req[r].stale]
    <2>4. /\ c \in Code /\ c.kind = codes[n].kind /\ c.tries = codes[n].tries + 1
          /\ c.attempts = codes[n].attempts /\ c.state = codes[n].state
      BY <2>a DEF Code
    <2>5. codes' = [codes EXCEPT ![n] = c]
      BY <1>2, <2>3
    <2> HIDE DEF c
    <2>6. /\ codes' \in Seq(Code) /\ DOMAIN codes' = DOMAIN codes
          /\ codes'[n] = c /\ \A i \in DOMAIN codes \ {n} : codes'[i] = codes[i]
      BY <2>0, <2>4, <2>5, Rewritten
    <2>7. s \in {"consume", "count"} /\ s \in Step
      BY DEF Step
    <2> HIDE DEF s
    <2>8. req \in [Request -> Req] /\ n \in Nat
      BY <2>0 DEF AccountsInv, TypeOK, Req
    <2>9. x \in Req /\ req[r].kind \in Kind /\ req[r].step = "find"
      BY <1>0, <2>7, <2>8 DEF AccountsInv, Formed, At, Req
    <2>10. req' = [req EXCEPT ![r] = x]
      <3>1. /\ req' \in [Request -> Req]
            /\ \A q \in Request \ {r} : req'[q] = req[q]
            /\ req'[r].step = s /\ req'[r].kind = req[r].kind
            /\ req'[r].ref = n /\ req'[r].stale = req[r].stale
        BY <1>2, <2>3, <2>7, <2>8 DEF s, Req
      <3>2. req'[r] = x
        BY <3>1, <2>9 DEF Req
      <3> HIDE DEF x
      <3>3. QED
        BY <2>8, <2>9, <3>1, <3>2
    <2>11. /\ x.step = s /\ x.kind = req[r].kind /\ x.ref = n
      OBVIOUS
    <2> HIDE DEF x
    <2>12. RowsStay
      BY <1>0, <2>4, <2>6, Sets DEF RowsStay, TypeOK
    <2>13. TypeOK' /\ Formed'
      BY <1>0, <2>3, <2>6, <2>7, <2>9, <2>10, <2>11, <2>12, Sets, RequestKeepsTypes
    <2>14. /\ r \notin Trying(n) /\ Trying(n)' = Trying(n) \cup {r}
           /\ \A i : i # n => Trying(i)' = Trying(i)
      BY <2>7, <2>8, <2>9, <2>10, <2>11 DEF Trying
    <2>15. ASSUME NEW i \in DOMAIN codes, i # n
           PROVE  TallyAt(i)'
      BY <2>6, <2>14, <2>15, TallyStays
    <2>16. TallyAt(n)'
      <3>1. /\ Cardinality(Trying(n)') = Cardinality(Trying(n)) + 1
            /\ Cardinality(Trying(n)) < Cardinality(Request)
            /\ Cardinality(Trying(n)) \in Nat /\ Cardinality(Request) \in Nat
        BY <2>14, TryingCounts
      <3>2. /\ codes[n].tries \in Nat /\ codes[n].attempts \in Nat
            /\ MaxAttempts \in Nat
        BY <2>a, AccountsAssumption DEF Code
      <3>3. codes[n].attempts < MaxAttempts
        BY <1>2, <2>3, <3>2 DEF Refuses
      <3>4. TallyAt(n) /\ codes[n].state # "consumed"
        BY <2>1, <2>3 DEF AccountsInv, pending
      <3>5. codes[n].tries <= codes[n].attempts + Cardinality(Trying(n))
        BY <3>4 DEF TallyAt
      <3>6. /\ Cardinality(Trying(n)') <= c.tries
            /\ c.tries < MaxAttempts + Cardinality(Request)
            /\ c.attempts + Cardinality(Trying(n)') < MaxAttempts + Cardinality(Request)
            /\ c.tries <= c.attempts + Cardinality(Trying(n)')
        BY <2>4, <3>1, <3>2, <3>3, <3>4, <3>5 DEF TallyAt
      <3>7. QED
        BY <2>6, <3>6 DEF TallyAt
    <2>17. QED
      BY <2>6, <2>13, <2>15, <2>16 DEF AccountsInv
  <1>3. QED
    BY <1>0, <1>1, <1>2

\* The end of a guess, with whatever its request becomes.
LEMMA GuessEndKeeps ==
  ASSUME AccountsInv, NEW r \in Request, NEW x \in Req, req' = [req EXCEPT ![r] = x],
         IF x.step = "idle" THEN x = Idle ELSE x.kind \in Kind,
         req[r].step \in {"count", "consume"},
         x.step \notin {"count", "consume", "reset", "verify"},
         NEW n, n = req[r].ref, NEW c \in Code, codes' = [codes EXCEPT ![n] = c],
         LET old == codes[n]
         IN  \/ c.tries = old.tries - 1 /\ c.attempts = old.attempts /\ c.state = old.state
             \/ c.tries = old.tries /\ c.attempts = old.attempts + 1 /\ c.state = old.state
             \/ c.tries = old.tries /\ c.attempts = old.attempts /\ c.state = "consumed",
         c.kind = codes[n].kind,
         UNCHANGED <<rows, challenges, links, sessVars>>
  PROVE  AccountsInv'
  <1>1. /\ codes' \in Seq(Code) /\ DOMAIN codes' = DOMAIN codes
        /\ \A i \in DOMAIN codes : codes'[i].kind = codes[i].kind
        /\ \A i \in DOMAIN codes' : TallyAt(i)'
    BY GuessEnds
  <1>2. RowsStay
    BY <1>1, Sets DEF RowsStay, TypeOK
  <1>3. UNCHANGED <<rows, challenges, links, live, stale, fenced>>
    BY DEF sessVars
  <1>4. TypeOK' /\ Formed'
    BY <1>2, <1>3, Sets, RequestKeepsTypes
  <1>5. QED
    BY <1>1, <1>4 DEF AccountsInv

\* The code a guess was made on.
LEMMA GuessedCode ==
  ASSUME AccountsInv, NEW r \in Request, req[r].step \in {"count", "consume"}
  PROVE  /\ req[r].ref \in DOMAIN codes /\ codes[req[r].ref] \in Code
         /\ codes[req[r].ref].tries > 0 /\ req[r].kind \in Kind
  <1>1. /\ req[r].ref \in DOMAIN codes /\ codes \in Seq(Code)
        /\ req[r].kind \in Kind
    BY DEF AccountsInv, TypeOK, Formed, At
  <1>2. codes[req[r].ref] \in Code
    BY <1>1, LenProperties, ElementOfSeq
  <1>3. r \in Trying(req[r].ref)
    BY DEF Trying
  <1>4. Cardinality(Trying(req[r].ref)) > 0
    <2>1. IsFiniteSet(Trying(req[r].ref)) /\ Cardinality(Trying(req[r].ref)) \in Nat
      BY TryingCounts
    <2>2. Cardinality(Trying(req[r].ref)) # 0
      BY <1>3, <2>1, FS_EmptySet
    <2>3. QED
      BY <2>1, <2>2
  <1>5. Cardinality(Trying(req[r].ref)) \in Nat
    BY TryingCounts
  <1>6. QED
    BY <1>1, <1>2, <1>4, <1>5 DEF AccountsInv, TallyAt, Code

LEMMA CountAttemptKeeps ==
  ASSUME AccountsInv, NEW r \in Request, CountAttempt(r)
  PROVE  AccountsInv'
  <1>1. PICK n : n = req[r].ref
    OBVIOUS
  <1>2. req[r].step = "count" /\ n \in DOMAIN codes /\ codes[n] \in Code
    BY <1>1, GuessedCode DEF CountAttempt, At
  <1> DEFINE c == [codes[n] EXCEPT !.attempts = @ + 1]
  <1>3. /\ c \in Code /\ c.kind = codes[n].kind /\ c.tries = codes[n].tries
        /\ c.attempts = codes[n].attempts + 1 /\ c.state = codes[n].state
    BY <1>2 DEF Code
  <1>4. codes' = [codes EXCEPT ![n] = c]
    BY <1>1 DEF CountAttempt
  <1> HIDE DEF c
  <1>5. req' = [req EXCEPT ![r] = Idle]
    BY DEF CountAttempt, End
  <1>6. UNCHANGED <<rows, challenges, links, sessVars>>
    BY DEF CountAttempt
  <1>7. QED
    BY <1>1, <1>2, <1>3, <1>4, <1>6, <1>5, IdleReq, GuessEndKeeps

LEMMA ConsumeKeeps ==
  ASSUME AccountsInv, NEW r \in Request, Consume(r)
  PROVE  AccountsInv'
  <1>1. PICK n : n = req[r].ref
    OBVIOUS
  <1>2. req[r].step = "consume" /\ n \in DOMAIN codes /\ codes[n] \in Code
    BY <1>1, GuessedCode DEF Consume, At
  <1> DEFINE c == [codes[n] EXCEPT !.state = "consumed"]
  <1>3. /\ c \in Code /\ c.kind = codes[n].kind /\ c.tries = codes[n].tries
        /\ c.attempts = codes[n].attempts /\ c.state = "consumed"
    BY <1>2 DEF Code
  <1>4. codes' = [codes EXCEPT ![n] = c]
    BY <1>1 DEF Consume
  <1> HIDE DEF c
  <1>5. PICK x \in Req : /\ req' = [req EXCEPT ![r] = x]
                         /\ IF x.step = "idle" THEN x = Idle ELSE x.kind \in Kind
                         /\ x.step \in {"idle", "issue"}
    <2>1. CASE End(r)
      BY <2>1, IdleReq DEF End
    <2>2. CASE Goto(r, "issue")
      BY <1>2, <2>2, Sets, GoesOn DEF At, Step
    <2>3. QED
      BY <2>1, <2>2 DEF Consume, PrincipalFor
  <1>6. UNCHANGED <<rows, challenges, links, sessVars>>
    BY DEF Consume
  <1>7. QED
    BY <1>1, <1>2, <1>3, <1>4, <1>6, <1>5, GuessEndKeeps

LEMMA ThrowsKeeps ==
  ASSUME AccountsInv, NEW r \in Request, Throws(r)
  PROVE  AccountsInv'
  <1>1. UNCHANGED <<rows, challenges, links, live, stale, fenced>>
    BY DEF Throws, sessVars
  <1>2. CASE req[r].step \notin {"count", "consume"}
    <2>1. codes' = codes /\ End(r)
      BY <1>2 DEF Throws, At
    <2>2. QED
      BY <1>1, <1>2, <2>1, Sets, Unchanged, EndKeeps
  <1>3. CASE req[r].step \in {"count", "consume"}
    <2>1. PICK n : n = req[r].ref
      OBVIOUS
    <2>2. n \in DOMAIN codes /\ codes[n] \in Code /\ codes[n].tries > 0
      BY <1>3, <2>1, GuessedCode
    <2> DEFINE c == [codes[n] EXCEPT !.tries = @ - 1]
    <2>3. /\ c \in Code /\ c.kind = codes[n].kind /\ c.tries = codes[n].tries - 1
          /\ c.attempts = codes[n].attempts /\ c.state = codes[n].state
      BY <2>2 DEF Code
    <2>4. codes' = [codes EXCEPT ![n] = c]
      BY <1>3, <2>1 DEF Throws, At
    <2> HIDE DEF c
    <2>5. req' = [req EXCEPT ![r] = Idle]
      BY DEF Throws, End
    <2>6. UNCHANGED <<rows, challenges, links, sessVars>>
      BY DEF Throws
    <2>7. QED
      BY <1>3, <2>1, <2>2, <2>3, <2>4, <2>5, <2>6, IdleReq, GuessEndKeeps
  <1>4. QED
    BY <1>2, <1>3

\* A link that is used or expires, or is mailed.
LEMMA LinkRewritten ==
  ASSUME TypeOK, NEW i \in DOMAIN links, NEW v \in {"used", "expired"},
         links' = [links EXCEPT ![i].state = v]
  PROVE  LinksStay /\ DOMAIN links' = DOMAIN links
  <1>1. links \in Seq(Link)
    BY DEF TypeOK
  <1>2. links[i] \in Link
    BY <1>1, LenProperties, ElementOfSeq
  <1> DEFINE l == [links[i] EXCEPT !.state = v]
  <1>3. l \in Link /\ links' = [links EXCEPT ![i] = l]
    BY <1>2 DEF Link
  <1> HIDE DEF l
  <1>4. QED
    BY <1>1, <1>3, Rewritten DEF LinksStay

LEMMA MailKeeps ==
  ASSUME AccountsInv, NEW k \in Kind, NEW purpose \in {"reset", "verify"}, Mail(k, purpose)
  PROVE  AccountsInv'
  <1> DEFINE l == [kind |-> k, purpose |-> purpose, state |-> "mailed"]
  <1>1. l \in Link /\ links \in Seq(Link) /\ links' = Append(links, l)
    BY Sets DEF Link, Mail, TypeOK
  <1> HIDE DEF l
  <1>2. LinksStay
    BY <1>1, Added DEF LinksStay
  <1>3. UNCHANGED <<rows, codes, challenges, req, live, stale, fenced>>
    BY DEF Mail, otpVars, sessVars
  <1>4. QED
    BY <1>2, <1>3, Sets, Unchanged, QuietKeeps

LEMMA ConfirmVerifyKeeps ==
  ASSUME AccountsInv, NEW r \in Request, ConfirmVerify(r)
  PROVE  AccountsInv'
  <1>1. req[r].ref \in DOMAIN links /\ req[r].step = "verify"
    BY DEF ConfirmVerify, At, AccountsInv, TypeOK
  <1>2. LinksStay
    BY <1>1, Sets, LinkRewritten DEF ConfirmVerify
  <1>3. UNCHANGED <<rows, codes, challenges, live, stale, fenced>>
    BY DEF ConfirmVerify, otpVars, sessVars
  <1>4. End(r)
    BY DEF ConfirmVerify
  <1>5. QED
    BY <1>1, <1>2, <1>3, <1>4, Sets, Unchanged, EndKeeps

\* What the password's replacement does to the requests and the challenges.
LEMMA Replaced ==
  ASSUME AccountsInv, NEW r \in Request, Replace(r)
  PROVE  /\ req' \in [Request -> Req] /\ req'[r] = Idle
         /\ \A q \in Request \ {r} :
              /\ req'[q].step = req[q].step /\ req'[q].kind = req[q].kind
              /\ req'[q].ref = req[q].ref
              /\ req'[q] = req[q] \/ ~At(q, "idle")
              /\ req'[q].stale = (req[q].stale \/
                   (req[q].kind = req[r].kind /\ ~At(q, "reset") /\ ~At(q, "verify")))
         /\ \A c \in challenges' : \E d \in challenges :
              c.kind = d.kind /\ c \in Challenge /\ (c = d \/ c.kind = req[r].kind)
  <1> DEFINE k == req[r].kind
             loggingIn(q) == q # r /\ req[q].kind = k /\ ~At(q, "reset") /\ ~At(q, "verify")
             f(q) == CASE q = r         -> Idle
                       [] loggingIn(q)  -> [req[q] EXCEPT !.stale = TRUE]
                       [] OTHER         -> req[q]
  <1>0. req \in [Request -> Req] /\ k \in Kind
    BY DEF AccountsInv, TypeOK, Req, Replace
  <1>1. req' = [q \in Request |-> f(q)]
    BY DEF Replace
  <1>2. f(r) = Idle
    OBVIOUS
  <1>3. ASSUME NEW q \in Request \ {r}
        PROVE  /\ f(q) \in Req
               /\ f(q).step = req[q].step /\ f(q).kind = req[q].kind /\ f(q).ref = req[q].ref
               /\ f(q) = req[q] \/ ~At(q, "idle")
               /\ f(q).stale = (req[q].stale \/ loggingIn(q))
    <2>1. CASE loggingIn(q)
      <3>1. f(q) = [req[q] EXCEPT !.stale = TRUE]
        BY <2>1
      <3>2. ~At(q, "idle")
        BY <1>0, <2>1, Sets DEF Formed, Idle
      <3>3. /\ f(q) \in Req /\ f(q).step = req[q].step /\ f(q).kind = req[q].kind
            /\ f(q).ref = req[q].ref /\ f(q).stale = TRUE
        BY <1>0, <3>1 DEF Req
      <3>4. QED
        BY <2>1, <3>2, <3>3, Zenon
    <2>2. CASE ~loggingIn(q)
      <3>1. f(q) = req[q]
        BY <2>2
      <3>2. req[q] \in Req /\ req[q].stale \in BOOLEAN
        BY <1>0 DEF Req
      <3>3. QED
        BY <2>2, <3>1, <3>2, Zenon
    <2>3. QED
      BY <2>1, <2>2
  <1> HIDE DEF f
  <1>4. /\ req' \in [Request -> Req] /\ req'[r] = Idle
        /\ \A q \in Request : req'[q] = f(q)
    BY <1>1, <1>2, <1>3, IdleReq
  <1>5. \A c \in challenges' : \E d \in challenges :
           c.kind = d.kind /\ c \in Challenge /\ (c = d \/ c.kind = k)
    <2>1. SUFFICES ASSUME NEW d \in challenges,
                          NEW c, c = IF d.kind = k THEN [d EXCEPT !.stale = TRUE] ELSE d
                   PROVE  c.kind = d.kind /\ c \in Challenge /\ (c = d \/ c.kind = k)
      BY DEF Replace
    <2>2. d \in Challenge
      BY Sets
    <2>3. QED
      BY <2>1, <2>2 DEF Challenge
  <1>6. \A q \in Request \ {r} : req'[q].stale = (req[q].stale \/
            (req[q].kind = req[r].kind /\ ~At(q, "reset") /\ ~At(q, "verify")))
    BY <1>3, <1>4, Zenon
  <1>7. QED
    BY <1>3, <1>4, <1>5, <1>6

LEMMA ConfirmResetKeeps ==
  ASSUME AccountsInv, NEW r \in Request, ConfirmReset(r)
  PROVE  AccountsInv'
  <1>1. /\ req' \in [Request -> Req] /\ req'[r] = Idle
        /\ \A q \in Request \ {r} :
              /\ req'[q].step = req[q].step /\ req'[q].kind = req[q].kind
              /\ req'[q].ref = req[q].ref
              /\ req'[q] = req[q] \/ ~At(q, "idle")
        /\ \A c \in challenges' : \E d \in challenges : c.kind = d.kind /\ c \in Challenge
    BY Replaced DEF ConfirmReset
  <1>2. /\ req[r].step = "reset" /\ req[r].kind \in Kind /\ UNCHANGED <<rows, codes>>
        /\ links' = [links EXCEPT ![req[r].ref].state = "used"]
        /\ fenced' \subseteq fenced \cup {req[r].kind}
    BY Sets DEF ConfirmReset, Replace, At
  <1>3. req[r].ref \in DOMAIN links
    BY <1>2, Sets DEF TypeOK
  <1>4. LinksStay
    BY <1>2, <1>3, Sets, LinkRewritten
  <1>5. \A q \in Request :
           /\ req'[q].step \in {"count", "consume"} => req'[q].ref \in DOMAIN codes'
           /\ req'[q].step \in {"reset", "verify"} => req'[q].ref \in DOMAIN links'
    BY <1>1, <1>2, <1>4, Sets, IdleReq DEF TypeOK, LinksStay
  <1>6. Formed'
    BY <1>1, Sets, IdleReq DEF Formed, At
  <1>7. live' \subseteq Kind /\ stale' \subseteq live' /\ fenced' \subseteq Kind
    BY <1>2, Sets DEF ConfirmReset
  <1>8. challenges' \subseteq Challenge
        /\ \A c \in challenges' : \E i \in DOMAIN codes' : codes'[i].kind = c.kind
    BY <1>1, <1>2, Sets DEF TypeOK
  <1>9. TypeOK'
    BY <1>1, <1>2, <1>4, <1>5, <1>7, <1>8, Sets DEF TypeOK, LinksStay, Req
  <1>10. ASSUME NEW i \in DOMAIN codes
         PROVE  TallyAt(i)'
    <2>1. Trying(i)' = Trying(i)
      BY <1>1, <1>2, IdleReq DEF Trying
    <2>2. QED
      BY <1>2, <2>1, TallyStays
  <1>11. QED
    BY <1>2, <1>6, <1>9, <1>10 DEF AccountsInv

LEMMA ExpireCodeKeeps ==
  ASSUME AccountsInv, ExpireCode
  PROVE  AccountsInv'
  <1>1. PICK i \in DOMAIN codes : /\ codes[i].state = "pending"
                                 /\ codes' = [codes EXCEPT ![i].state = "expired"]
    BY DEF ExpireCode
  <1>2. codes \in Seq(Code)
    BY Sets DEF TypeOK
  <1>3. codes[i] \in Code
    BY <1>1, <1>2, LenProperties, ElementOfSeq
  <1> DEFINE c == [codes[i] EXCEPT !.state = "expired"]
  <1>4. /\ c \in Code /\ c.kind = codes[i].kind /\ c.tries = codes[i].tries
        /\ c.attempts = codes[i].attempts /\ codes' = [codes EXCEPT ![i] = c]
    BY <1>1, <1>3 DEF Code
  <1> HIDE DEF c
  <1>5. NumbersStay
    BY <1>1, <1>2, <1>4, Rewritten DEF NumbersStay
  <1>6. UNCHANGED <<rows, challenges, links, req, live, stale, fenced>>
    BY DEF ExpireCode, sessVars
  <1>7. QED
    BY <1>5, <1>6, Sets, Unchanged, QuietKeeps

\* Every step keeps the types, the form of the requests and the tallies.
LEMMA AccountsStep == AccountsInv /\ [Next]_vars => AccountsInv'
  <1> SUFFICES ASSUME AccountsInv, [Next]_vars
               PROVE  AccountsInv'
    OBVIOUS
  <1> USE DEF otpVars, sessVars
  <1>1. ASSUME NEW r \in Request, Handle(r)
        PROVE  AccountsInv'
    <2>1. CASE Issue(r)
      <3>1. req[r].kind \in Kind /\ req[r].step = "issue"
        BY <2>1, Sets DEF Issue, Formed, At
      <3>2. live' \subseteq Kind /\ stale' \subseteq live'
        BY <2>1, <3>1, Sets DEF Issue
      <3>3. End(r) /\ UNCHANGED <<rows, codes, challenges, links, fenced>>
        BY <2>1 DEF Issue
      <3>4. QED
        BY <3>1, <3>2, <3>3, Sets, Unchanged, EndKeeps
    <2>2. QED
      BY <1>1, <2>1, InvalidateKeeps, CreateCodeKeeps, FindCodeKeeps, CountAttemptKeeps,
         ConsumeKeeps, ConfirmResetKeeps, ConfirmVerifyKeeps DEF Handle
  <1>2. ASSUME NEW r \in Request, Arrive(r) \/ Throws(r)
        PROVE  AccountsInv'
    BY <1>2, ArriveKeeps, ThrowsKeeps
  <1>a. ASSUME rows' \subseteq Kind, UNCHANGED <<otpVars, links, req, sessVars>>
        PROVE  AccountsInv'
    BY <1>a, Sets, Unchanged, QuietKeeps
  <1>3. CASE RegisterAgency \/ CreateClient \/ CreateTeamMember
    <2>1. PICK k \in Kind : Create(k)
      BY <1>3 DEF RegisterAgency, CreateClient, CreateTeamMember
    <2>2. QED
      BY <1>a, <2>1, Sets DEF Create
  <1>4. CASE RemoveAgency \/ RemoveClient \/ RemoveTeamMember
    <2>1. PICK gone : Remove(gone)
      BY <1>4 DEF RemoveAgency, RemoveClient, RemoveTeamMember
    <2>2. QED
      BY <1>a, <2>1, Sets DEF Remove
  <1>5. ASSUME NEW k \in Kind, SendVerifyEmail(k)
        PROVE  AccountsInv'
    BY <1>5, MailKeeps DEF SendVerifyEmail
  <1>6. ASSUME NEW k \in Kind, Logout(k)
        PROVE  AccountsInv'
    BY <1>6, Sets, Unchanged, QuietKeeps DEF Logout
  <1>7. CASE RequestReset
    <2>1. First \in Kind
      BY <1>7, Sets, AccountsAssumption DEF RequestReset, First
    <2>2. QED
      BY <1>7, <2>1, MailKeeps DEF RequestReset
  <1>8. CASE ExpireLink
    <2>1. LinksStay
      BY <1>8, Sets, LinkRewritten DEF ExpireLink
    <2>2. UNCHANGED <<rows, codes, challenges, req, live, stale, fenced>>
      BY <1>8 DEF ExpireLink
    <2>3. QED
      BY <2>1, <2>2, Sets, Unchanged, QuietKeeps
  <1>9. CASE ExpireChallenge
    BY <1>9, Sets, Unchanged, QuietKeeps DEF ExpireChallenge
  <1>10. CASE UNCHANGED vars
    BY <1>10, <1>a, Sets DEF vars
  <1>11. QED
    BY <1>1, <1>2, <1>3, <1>4, <1>5, <1>6, <1>7, <1>8, <1>9, <1>10, ExpireCodeKeeps DEF Next

LEMMA AccountsInit == Init => AccountsInv
  <1> SUFFICES ASSUME Init
               PROVE  AccountsInv
    OBVIOUS
  <1>1. codes \in Seq(Code) /\ links \in Seq(Link) /\ DOMAIN codes = {}
    BY EmptySeq DEF Init
  <1>2. \A r \in Request : req[r] = Idle
    BY DEF Init
  <1>3. req \in [Request -> Req]
    BY IdleReq DEF Init
  <1>4. QED
    BY <1>1, <1>2, <1>3, IdleReq DEF Init, AccountsInv, TypeOK, Formed, At, Req

\* Every reachable state is well typed: in particular a request that is about to
\* record its guess, or to use a link, refers to a row that is there.
THEOREM AccountsTypeCorrect == Spec => []TypeOK
  BY AccountsInit, AccountsStep, PTL DEF Spec, AccountsInv

\* OTP_MAX_ATTEMPTS: however verifications interleave with one another, with
\* failing updates and with new codes, no code is compared with more guesses
\* than the limit and one for every other request under way at a time.
THEOREM GuessesAreBounded == Spec => []GuessesBounded
  <1>1. AccountsInv => GuessesBounded
    BY DEF AccountsInv, TallyAt, GuessesBounded
  <1>2. QED
    BY <1>1, AccountsInit, AccountsStep, PTL DEF Spec

-----------------------------------------------------------------------------
(* Accounts: what becomes of a request, a challenge and a session. *)

\* A request keeps its row and the password it compared, or has just come in,
\* with a password that counts unless the challenge it brings says otherwise.
Carried(q) ==
    \/ req'[q] = Idle
    \/ /\ req[q] # Idle
       /\ req'[q].kind = req[q].kind /\ req'[q].stale = req[q].stale
       /\ req'[q].step \in {"reset", "verify"} => req[q].step = req'[q].step
       /\ req'[q].step = "code" => req[q].step \in {"code", "invalidate"}
    \/ /\ req[q] = Idle /\ req'[q].kind \in Kind /\ req'[q].step # "code"
       /\ req'[q].stale => /\ req'[q].step = "find"
                           /\ \E c \in challenges : c.kind = req'[q].kind /\ c.stale

\* Codes keep their row, and stay consumed.
StatesStay ==
    /\ DOMAIN codes' = DOMAIN codes
    /\ \A i \in DOMAIN codes :
           /\ codes'[i].kind = codes[i].kind /\ codes'[i].seen = codes[i].seen
           /\ codes'[i].state # "consumed" => codes[i].state # "consumed"

\* A login on its way to a code keeps its row and what it invalidated.
SameRow(q) == req[q].kind = req'[q].kind /\ req[q].ref = req'[q].ref

\* New challenges and sessions are those of a request under way.
ClaimsCarried ==
    /\ \A c \in challenges' \ challenges :
           \E q \in Request : /\ req[q].kind = c.kind /\ req[q].stale = c.stale
                              /\ req[q].step = "code"
    /\ \A k \in stale' \ stale :
           \E q \in Request : req[q].kind = k /\ req[q].stale

LEMMA Codes ==
  ASSUME TypeOK, NEW n, NEW v
  PROVE  /\ codes' = codes => StatesStay
         /\ codes' = [codes EXCEPT ![n].tries = v] => StatesStay
         /\ codes' = [codes EXCEPT ![n].attempts = v] => StatesStay
         /\ codes' = [codes EXCEPT ![n].state = "consumed"] => StatesStay
         /\ codes' = [codes EXCEPT ![n].state = "expired"] /\ codes[n].state = "pending"
              => StatesStay
  <1>1. \A i \in DOMAIN codes : codes[i] \in Code
    BY LenProperties, ElementOfSeq DEF TypeOK
  <1>2. QED
    BY <1>1 DEF StatesStay, Code

\* A request that begins, goes on or ends leaves the others alone.
LEMMA OneMoves ==
  ASSUME TypeOK, Formed, NEW r \in Request
  PROVE  /\ End(r) => req'[r] = Idle /\ \A q \in Request \ {r} : req'[q] = req[q]
         /\ \A s \in Step \ {"idle"} : Goto(r, s) /\ ~At(r, "idle") =>
              /\ req'[r].step = s /\ req'[r].kind = req[r].kind
              /\ req'[r].stale = req[r].stale
              /\ \A q \in Request \ {r} : req'[q] = req[q]
         /\ \A q \in Request : req'[q] = req[q] => Carried(q)
         /\ "code" \in Step
  <1>1. ASSUME NEW s \in Step \ {"idle"}, Goto(r, s), ~At(r, "idle")
        PROVE  /\ req'[r].step = s /\ req'[r].kind = req[r].kind
               /\ req'[r].stale = req[r].stale
               /\ \A q \in Request \ {r} : req'[q] = req[q]
    <2>1. PICK x \in Req : /\ req' = [req EXCEPT ![r] = x]
                           /\ x.step = s /\ x.kind = req[r].kind /\ x.stale = req[r].stale
      BY <1>1, GoesOn
    <2>2. QED
      BY <2>1 DEF TypeOK
  <1>2. ASSUME End(r)
        PROVE  req'[r] = Idle /\ \A q \in Request \ {r} : req'[q] = req[q]
    BY <1>2 DEF End, TypeOK
  <1>3. ASSUME NEW q \in Request, req'[q] = req[q]
        PROVE  Carried(q)
    BY <1>3 DEF Carried
  <1>4. QED
    BY <1>1, <1>2, <1>3 DEF Step

\* Every step but a reset's carries requests, challenges and sessions on, and
\* only the two steps of issueOtp touch what PendingCodesBounded counts.
LEMMA Frame ==
  ASSUME AccountsInv, [Next]_vars, \A r \in Request : ~ConfirmReset(r)
  PROVE  /\ \A q \in Request : Carried(q)
         /\ ClaimsCarried /\ fenced' = fenced
         /\ StatesStay \/ \E r \in Request : CreateCode(r)
         /\ \/ \E r \in Request : Invalidate(r)
            \/ \A q \in Request : req'[q].step = "code" =>
                    req[q].step = "code" /\ SameRow(q)
  <1> DEFINE Quiet(q) == Carried(q) /\ (req'[q].step = "code" =>
                             req[q].step = "code" /\ SameRow(q))
             Goal == /\ \A q \in Request : Carried(q)
                     /\ ClaimsCarried /\ fenced' = fenced
                     /\ StatesStay \/ \E r \in Request : CreateCode(r)
                     /\ \/ \E r \in Request : Invalidate(r)
                        \/ \A q \in Request : Quiet(q)
  <1> SUFFICES Goal
    OBVIOUS
  <1> USE DEF otpVars, sessVars, SameRow
  <1>0. TypeOK /\ Formed
    BY Sets
  <1>a. ASSUME NEW r \in Request, End(r)
        PROVE  \A q \in Request : Quiet(q)
    BY <1>0, <1>a, OneMoves, IdleReq DEF Carried
  <1>b. ASSUME NEW r \in Request, NEW s \in {"issue", "find"}, Goto(r, s), ~At(r, "idle")
        PROVE  \A q \in Request : Quiet(q)
    <2>1. s \in Step \ {"idle"}
      BY DEF Step
    <2>2. req[r] # Idle
      BY <1>b, UnderWay
    <2>3. QED
      BY <1>0, <1>b, <2>1, <2>2, OneMoves DEF Carried
  <1>c. ASSUME req' = req
        PROVE  \A q \in Request : Quiet(q)
    BY <1>0, <1>c, OneMoves
  <1>d. ASSUME UNCHANGED <<challenges, stale>>
        PROVE  ClaimsCarried
    BY <1>d DEF ClaimsCarried
  <1>e. codes' = codes => StatesStay
    BY <1>0, Codes
  <1>1. ASSUME NEW r \in Request, Handle(r)
        PROVE  Goal
    <2>1. CASE Invalidate(r)
      <3>1. StatesStay
        <4>1. \A i \in DOMAIN codes : codes[i] \in Code
          BY <1>0, LenProperties, ElementOfSeq DEF TypeOK
        <4>2. QED
          BY <2>1, <4>1 DEF StatesStay, Invalidate, Invalidates, Code
      <3>2. \A q \in Request : Carried(q)
        <4>1. /\ req'[r].step = "code" /\ req'[r].kind = req[r].kind
              /\ req'[r].stale = req[r].stale
              /\ \A q \in Request \ {r} : req'[q] = req[q]
          BY <1>0, <2>1 DEF Invalidate, Invalidates, TypeOK
        <4>2. req[r] # Idle /\ req[r].step = "invalidate"
          BY <2>1, UnderWay DEF Invalidate, Invalidates, At
        <4>3. Carried(r)
          BY <4>1, <4>2 DEF Carried
        <4>4. QED
          BY <1>0, <4>1, <4>3, OneMoves
      <3>3. QED
        BY <2>1, <3>1, <3>2, <1>d DEF Invalidate, Invalidates
    <2>2. CASE CreateCode(r)
      <3>1. ClaimsCarried
        BY <2>2 DEF ClaimsCarried, CreateCode, At
      <3>2. QED
        BY <2>2, <3>1, <1>a DEF CreateCode
    <2>3. ASSUME NEW matches \in BOOLEAN, FindCode(r, matches)
          PROVE  Goal
      <3>0. UNCHANGED <<challenges, stale, fenced>>
        BY <2>3 DEF FindCode
      <3>1. CASE End(r) /\ UNCHANGED codes
        BY <3>0, <3>1, <1>a, <1>d, <1>e
      <3>2. ASSUME NEW n, codes' = [codes EXCEPT ![n].tries = @ + 1],
                   NEW s \in {"consume", "count"},
                   req' = [req EXCEPT ![r].step = s, ![r].ref = n]
            PROVE  Goal
        <4>1. StatesStay
          BY <1>0, <3>2, Codes
        <4>2. \A q \in Request \ {r} : req'[q] = req[q]
          BY <1>0, <3>2 DEF TypeOK
        <4>3. /\ req'[r].step = s /\ req'[r].kind = req[r].kind
              /\ req'[r].stale = req[r].stale
          BY <1>0, <3>2 DEF TypeOK
        <4>4. req[r] # Idle
          BY <2>3, UnderWay DEF FindCode, At
        <4>5. Quiet(r)
          BY <3>2, <4>3, <4>4 DEF Carried
        <4>6. \A q \in Request : Quiet(q)
          BY <1>0, <4>2, <4>5, OneMoves
        <4>7. QED
          BY <3>0, <4>1, <4>6, <1>d
      <3>3. QED
        BY <2>3, <3>1, <3>2 DEF FindCode
    <2>4. CASE CountAttempt(r)
      BY <1>0, <2>4, <1>a, <1>d, Codes DEF CountAttempt
    <2>5. CASE Consume(r)
      <3>1. StatesStay
        BY <1>0, <2>5, Codes DEF Consume
      <3>2. \A q \in Request : Quiet(q)
        BY <2>5, <1>a, <1>b DEF Consume, PrincipalFor, At
      <3>3. QED
        BY <2>5, <3>1, <3>2, <1>d DEF Consume
    <2>6. CASE Issue(r)
      <3>1. ClaimsCarried
        BY <2>6 DEF ClaimsCarried, Issue
      <3>2. QED
        BY <2>6, <3>1, <1>a, <1>e DEF Issue
    <2>7. CASE ConfirmVerify(r)
      BY <2>7, <1>a, <1>d, <1>e DEF ConfirmVerify
    <2>8. QED
      BY <1>1, <2>1, <2>2, <2>3, <2>4, <2>5, <2>6, <2>7 DEF Handle
  <1>2. ASSUME NEW r \in Request, Throws(r)
        PROVE  Goal
    <2>1. StatesStay
      <3>1. \/ codes' = codes
            \/ codes' = [codes EXCEPT ![req[r].ref].tries = @ - 1]
        BY <1>2 DEF Throws
      <3>2. QED
        BY <1>0, <3>1, Codes
    <2>2. QED
      BY <1>2, <2>1, <1>a, <1>d DEF Throws
  <1>3. ASSUME NEW r \in Request, Arrive(r)
        PROVE  Goal
    <2>a. ASSUME NEW s \in Step \ {"code"}, NEW k \in Kind, NEW n, NEW old \in BOOLEAN,
                 Begin(r, s, k, n, old), UNCHANGED <<otpVars, sessVars>>,
                 old => s = "find" /\ \E c \in challenges : c.kind = k /\ c.stale
          PROVE  Goal
      <3>1. /\ req[r] = Idle /\ req'[r].step = s /\ req'[r].kind = k
            /\ req'[r].stale = old
            /\ \A q \in Request \ {r} : req'[q] = req[q]
        BY <1>0, <2>a DEF Begin, TypeOK
      <3>2. Quiet(r)
        BY <2>a, <3>1 DEF Carried
      <3>3. \A q \in Request : Quiet(q)
        BY <1>0, <3>1, <3>2, OneMoves
      <3>4. QED
        BY <2>a, <3>3, <1>d, <1>e
    <2>b. "issue" \in Step /\ "invalidate" \in Step /\ "find" \in Step
          /\ "reset" \in Step /\ "verify" \in Step
      BY DEF Step
    <2>1. CASE SignupSmb(r)
      BY <2>1, <2>a, <2>b DEF SignupSmb, Pair
    <2>2. ASSUME NEW k \in Kind, Login(r, k)
          PROVE  Goal
      BY <2>2, <2>a, <2>b DEF Login
    <2>3. ASSUME NEW c \in challenges, VerifyMfa(r, c)
          PROVE  Goal
      <3>1. c.kind \in Kind /\ c.stale \in BOOLEAN
        BY Sets DEF Challenge
      <3>2. QED
        BY <2>3, <3>1, <2>a, <2>b DEF VerifyMfa
    <2>4. ASSUME NEW i \in DOMAIN links, OpenLink(r, i)
          PROVE  Goal
      <3>0. links \in Seq(Link)
        BY <1>0 DEF TypeOK
      <3>1. links[i].kind \in Kind /\ links[i].purpose \in {"reset", "verify"}
        <4>1. links[i] \in Link
          BY <3>0, LenProperties, ElementOfSeq
        <4>2. QED
          BY <4>1 DEF Link
      <3>2. links[i].purpose \in Step \ {"code"}
        BY <2>b, <3>1
      <3>3. /\ Begin(r, links[i].purpose, links[i].kind, i, FALSE)
            /\ UNCHANGED <<otpVars, sessVars>>
        BY <2>4 DEF OpenLink
      <3>4. QED
        BY <3>1, <3>2, <3>3, <2>a
    <2>5. QED
      BY <1>3, <2>1, <2>2, <2>3, <2>4 DEF Arrive
  <1>4. ASSUME UNCHANGED <<codes, req, stale, fenced>>, challenges' \subseteq challenges
        PROVE  Goal
    <2>1. ClaimsCarried
      BY <1>4 DEF ClaimsCarried
    <2>2. QED
      BY <1>4, <2>1, <1>c, <1>e
  <1>5. CASE RegisterAgency \/ CreateClient \/ CreateTeamMember
    BY <1>4, <1>5 DEF RegisterAgency, CreateClient, CreateTeamMember, Create
  <1>6. CASE RemoveAgency \/ RemoveClient \/ RemoveTeamMember
    BY <1>4, <1>6 DEF RemoveAgency, RemoveClient, RemoveTeamMember, Remove
  <1>7. ASSUME NEW k \in Kind, SendVerifyEmail(k)
        PROVE  Goal
    BY <1>4, <1>7 DEF SendVerifyEmail, Mail
  <1>8. ASSUME NEW k \in Kind, Logout(k)
        PROVE  Goal
    <2>1. ClaimsCarried
      BY <1>8 DEF ClaimsCarried, Logout
    <2>2. QED
      BY <1>8, <2>1, <1>c, <1>e DEF Logout
  <1>9. CASE RequestReset \/ ExpireLink \/ ExpireChallenge
    BY <1>4, <1>9 DEF RequestReset, Mail, ExpireLink, ExpireChallenge
  <1>10. CASE ExpireCode
    <2>1. StatesStay
      BY <1>0, <1>10, Codes DEF ExpireCode
    <2>2. QED
      BY <1>10, <2>1, <1>c, <1>d DEF ExpireCode
  <1>11. CASE UNCHANGED vars
    BY <1>4, <1>11 DEF vars
  <1>12. QED
    BY <1>1, <1>2, <1>3, <1>5, <1>6, <1>7, <1>8, <1>9, <1>10, <1>11 DEF Next, Handle

-----------------------------------------------------------------------------
(* Accounts: pending codes. *)

Pending(k) == {i \in DOMAIN codes : codes[i].kind = k /\ codes[i].state # "consumed"}
Coming(k)  == {r \in Request : req[r].kind = k /\ At(r, "code")}

Room(k) == Cardinality(Pending(k)) + Cardinality(Coming(k)) <= Cardinality(Request)

\* Codes and requests are finitely many.
LEMMA PendingFinite ==
  ASSUME TypeOK, NEW k
  PROVE  /\ IsFiniteSet(Pending(k)) /\ Cardinality(Pending(k)) \in Nat
         /\ IsFiniteSet(Coming(k)) /\ Cardinality(Coming(k)) \in Nat
         /\ Cardinality(Coming(k)) <= Cardinality(Request)
         /\ IsFiniteSet(Request) /\ Cardinality(Request) \in Nat
  <1>1. DOMAIN codes = 1 .. Len(codes) /\ Len(codes) \in Nat
    BY LenProperties DEF TypeOK
  <1>2. IsFiniteSet(1 .. Len(codes))
    BY <1>1, FS_Interval
  <1>3. Pending(k) \subseteq 1 .. Len(codes)
    BY <1>1 DEF Pending
  <1>4. IsFiniteSet(Pending(k)) /\ Cardinality(Pending(k)) \in Nat
    BY <1>2, <1>3, FS_Subset, FS_CardinalityType
  <1>5. Coming(k) \subseteq Request /\ IsFiniteSet(Request)
    BY AccountsAssumption DEF Coming
  <1>6. QED
    BY <1>4, <1>5, FS_Subset, FS_CardinalityType

\* No code and no login on its way to one is added.
LEMMA RoomStays ==
  ASSUME TypeOK, NEW k, Room(k), Pending(k)' \subseteq Pending(k),
         Coming(k)' \subseteq Coming(k)
  PROVE  Room(k)'
  <1>1. /\ Cardinality(Pending(k)') <= Cardinality(Pending(k))
        /\ Cardinality(Pending(k)') \in Nat
    BY PendingFinite, FS_Subset, FS_CardinalityType
  <1>2. /\ Cardinality(Coming(k)') <= Cardinality(Coming(k))
        /\ Cardinality(Coming(k)') \in Nat
    BY PendingFinite, FS_Subset, FS_CardinalityType
  <1>3. QED
    BY <1>1, <1>2, PendingFinite DEF Room

\* issueOtp consumes what is pending first, and so only a login that is between
\* its two queries while another one is can leave a further code.
LEMMA RoomStep ==
  ASSUME AccountsInv, AccountsInv', [Next]_vars, NEW k \in Kind, Room(k)
  PROVE  Room(k)'
  <1>0. TypeOK /\ Formed /\ Room(k)
    BY Sets
  <1>1. ASSUME NEW r \in Request, ConfirmReset(r)
        PROVE  Room(k)'
    <2>1. Coming(k)' \subseteq Coming(k)
      BY <1>1, Replaced, IdleReq DEF ConfirmReset, Coming, At
    <2>2. Pending(k)' = Pending(k)
      BY <1>1 DEF ConfirmReset, Replace, Pending
    <2>3. QED
      BY <1>0, <2>1, <2>2, RoomStays
  <1>2. ASSUME NEW r \in Request, Invalidate(r)
        PROVE  Room(k)'
    <2>1. \A i \in DOMAIN codes : codes[i] \in Code
      BY <1>0, LenProperties, ElementOfSeq DEF TypeOK
    <2>2. CASE req[r].kind = k
      <3>1. Pending(k)' = {}
        BY <1>2, <2>1, <2>2 DEF Invalidate, Invalidates, Mine, Pending, Code
      <3>2. Cardinality(Pending(k)') = 0
        BY <3>1, FS_EmptySet
      <3>3. Coming(k)' \subseteq Request
        BY DEF Coming
      <3>4. /\ Cardinality(Coming(k)') <= Cardinality(Request)
            /\ Cardinality(Coming(k)') \in Nat /\ Cardinality(Request) \in Nat
        BY <1>0, <3>3, PendingFinite, FS_Subset, FS_CardinalityType
      <3>5. QED
        BY <3>2, <3>4 DEF Room
    <2>3. CASE req[r].kind # k
      <3>1. Pending(k)' \subseteq Pending(k)
        BY <1>2, <2>1, <2>3 DEF Invalidate, Invalidates, Mine, Pending, Code
      <3>2. Coming(k)' \subseteq Coming(k)
        <4>1. /\ req'[r].kind = req[r].kind
              /\ \A q \in Request \ {r} : req'[q] = req[q]
          BY <1>0, <1>2 DEF Invalidate, Invalidates, TypeOK
        <4>2. QED
          BY <2>3, <4>1 DEF Coming, At
      <3>3. QED
        BY <1>0, <3>1, <3>2, RoomStays
    <2>4. QED
      BY <2>2, <2>3
  <1>3. ASSUME NEW r \in Request, CreateCode(r)
        PROVE  Room(k)'
    <2>0. /\ req'[r] = Idle /\ \A q \in Request \ {r} : req'[q] = req[q]
          /\ req[r].step = "code" /\ req[r].kind \in Kind
      BY <1>0, <1>3, OneMoves DEF CreateCode, At, Formed
    <2> DEFINE c == [kind |-> req[r].kind, state |-> "pending", attempts |-> 0, tries |-> 0,
                     seen |-> req[r].ref]
    <2>1. c \in Code /\ codes \in Seq(Code) /\ codes' = Append(codes, c)
      BY <1>0, <1>3, <2>0 DEF Code, CreateCode, TypeOK
    <2>2. c.kind = req[r].kind
      OBVIOUS
    <2> HIDE DEF c
    <2>3. PICK m : /\ DOMAIN codes' = DOMAIN codes \cup {m} /\ m \notin DOMAIN codes
                   /\ codes'[m] = c /\ \A j \in DOMAIN codes : codes'[j] = codes[j]
      BY <2>1, Added
    <2>4. CASE req[r].kind = k
      <3>1. Pending(k)' \subseteq Pending(k) \cup {m} /\ m \notin Pending(k)
        BY <2>3 DEF Pending
      <3>2. Coming(k)' = Coming(k) \ {r} /\ r \in Coming(k)
        BY <2>0, <2>4, IdleReq DEF Coming, At
      <3>3. /\ IsFiniteSet(Pending(k) \cup {m})
            /\ Cardinality(Pending(k) \cup {m}) = Cardinality(Pending(k)) + 1
        BY <1>0, <3>1, PendingFinite, FS_AddElement
      <3>4. /\ Cardinality(Pending(k)') <= Cardinality(Pending(k)) + 1
            /\ Cardinality(Pending(k)') \in Nat
        BY <3>1, <3>3, FS_Subset, FS_CardinalityType
      <3>5. Cardinality(Coming(k)') = Cardinality(Coming(k)) - 1
        BY <1>0, <3>2, PendingFinite, FS_RemoveElement
      <3>6. QED
        BY <1>0, <3>4, <3>5, PendingFinite DEF Room
    <2>5. CASE req[r].kind # k
      <3>1. Pending(k)' \subseteq Pending(k)
        BY <2>2, <2>3, <2>5 DEF Pending
      <3>2. Coming(k)' \subseteq Coming(k)
        BY <2>0, IdleReq DEF Coming, At
      <3>3. QED
        BY <1>0, <3>1, <3>2, RoomStays
    <2>6. QED
      BY <2>4, <2>5
  <1>4. CASE /\ \A r \in Request : ~ConfirmReset(r)
             /\ \A r \in Request : ~Invalidate(r)
             /\ \A r \in Request : ~CreateCode(r)
    <2>1. /\ StatesStay
          /\ \A q \in Request : req'[q].step = "code" =>
                 req[q].step = "code" /\ SameRow(q)
      BY <1>4, Frame
    <2>2. Pending(k)' \subseteq Pending(k) /\ Coming(k)' \subseteq Coming(k)
      BY <2>1 DEF StatesStay, SameRow, Pending, Coming, At
    <2>3. QED
      BY <1>0, <2>2, RoomStays
  <1>5. QED
    BY <1>1, <1>2, <1>3, <1>4

\* Codes that open the row were added after whatever a later code's login, or a
\* login on its way to a code, has seen.
Fresh(k) ==
    /\ \A i, j \in Pending(k) : i < j => codes[j].seen < i
    /\ \A i \in Pending(k), r \in Coming(k) : req[r].ref < i

\* No login has seen more codes than there are.
SeenThere == \A r \in Request : At(r, "code") => req[r].ref \in DOMAIN codes \cup {0}

PendingInv == SeenThere /\ \A k \in Kind : Room(k) /\ Fresh(k)

\* No code and no login on its way to one is added or changed.
LEMMA FreshStays ==
  ASSUME SeenThere, StatesStay,
         \A q \in Request : req'[q].step = "code" => req[q].step = "code" /\ SameRow(q)
  PROVE  /\ SeenThere'
         /\ \A k : Fresh(k) => Fresh(k)'
  BY DEF SeenThere, StatesStay, SameRow, Fresh, Pending, Coming, At

LEMMA FreshStep ==
  ASSUME AccountsInv, [Next]_vars, SeenThere, \A k \in Kind : Fresh(k)
  PROVE  SeenThere' /\ \A k \in Kind : Fresh(k)'
  <1>0. /\ TypeOK /\ Formed /\ codes \in Seq(Code)
        /\ DOMAIN codes = 1 .. Len(codes) /\ Len(codes) \in Nat
    BY Sets, LenProperties DEF TypeOK
  <1>1. ASSUME NEW r \in Request, ConfirmReset(r)
        PROVE  SeenThere' /\ \A k \in Kind : Fresh(k)'
    <2>1. \A q \in Request : req'[q].step = "code" => req[q].step = "code" /\ SameRow(q)
      BY <1>1, Replaced, IdleReq DEF ConfirmReset, SameRow
    <2>2. StatesStay
      BY <1>0, <1>1, Codes DEF ConfirmReset, Replace
    <2>3. QED
      BY <2>1, <2>2, FreshStays
  <1>2. ASSUME NEW r \in Request, Invalidate(r)
        PROVE  SeenThere' /\ \A k \in Kind : Fresh(k)'
    <2>1. \A i \in DOMAIN codes : codes[i] \in Code
      BY <1>0, ElementOfSeq
    <2>2. /\ req'[r].kind = req[r].kind /\ req'[r].ref = Len(codes)
          /\ \A q \in Request \ {r} : req'[q] = req[q]
      BY <1>0, <1>2 DEF Invalidate, Invalidates, TypeOK
    <2>3. /\ DOMAIN codes' = DOMAIN codes
          /\ \A i \in DOMAIN codes :
                /\ codes'[i].kind = codes[i].kind /\ codes'[i].seen = codes[i].seen
                /\ codes'[i].state # "consumed" =>
                       codes[i].state # "consumed" /\ codes[i].kind # req[r].kind
      BY <1>2, <2>1 DEF Invalidate, Invalidates, Mine, Code
    <2>4. SeenThere'
      BY <1>0, <2>2, <2>3 DEF SeenThere, At
    <2>5. ASSUME NEW k \in Kind
          PROVE  Fresh(k)'
      <3>1. /\ Pending(k)' \subseteq Pending(k)
            /\ \A i \in Pending(k) : codes'[i].seen = codes[i].seen
            /\ Pending(k)' # {} => k # req[r].kind
        BY <2>3 DEF Pending
      <3>2. \A q \in Coming(k)' : k # req[r].kind => q \in Coming(k) /\ req'[q].ref = req[q].ref
        BY <2>2 DEF Coming, At
      <3>3. QED
        BY <3>1, <3>2 DEF Fresh
    <2>6. QED
      BY <2>4, <2>5
  <1>3. ASSUME NEW r \in Request, CreateCode(r)
        PROVE  SeenThere' /\ \A k \in Kind : Fresh(k)'
    <2>0. /\ req'[r] = Idle /\ \A q \in Request \ {r} : req'[q] = req[q]
          /\ req[r].step = "code" /\ req[r].kind \in Kind /\ req[r].ref \in Nat
      BY <1>0, <1>3, OneMoves DEF CreateCode, At, Formed, TypeOK
    <2> DEFINE c == [kind |-> req[r].kind, state |-> "pending", attempts |-> 0, tries |-> 0,
                     seen |-> req[r].ref]
               m == Len(codes) + 1
    <2>1. c \in Code /\ codes' = Append(codes, c)
      BY <1>0, <1>3, <2>0 DEF Code, CreateCode
    <2>2. c.kind = req[r].kind /\ c.seen = req[r].ref
      OBVIOUS
    <2> HIDE DEF c
    <2>3. /\ DOMAIN codes' = DOMAIN codes \cup {m} /\ codes'[m] = c
          /\ \A j \in DOMAIN codes : codes'[j] = codes[j]
      BY <1>0, <2>1, Added
    <2>4. \A i \in DOMAIN codes : i < m
      BY <1>0
    <2>5. SeenThere'
      BY <2>0, <2>3, IdleReq DEF SeenThere, At
    <2>6. ASSUME NEW k \in Kind
          PROVE  Fresh(k)'
      <3>1. /\ Pending(k)' \subseteq Pending(k) \cup {m} /\ Pending(k) \subseteq DOMAIN codes
            /\ m \in Pending(k)' => r \in Coming(k)
        BY <1>0, <2>0, <2>2, <2>3 DEF Pending, Coming, At
      <3>2. Coming(k)' \subseteq Coming(k) /\ \A q \in Coming(k)' : req'[q] = req[q]
        BY <2>0, IdleReq DEF Coming, At
      <3>3. \A q \in Coming(k) : req[q].ref < m
        BY <1>0 DEF SeenThere, Coming
      <3>4. \A i, j \in Pending(k)' : i < j => codes'[j].seen < i
        <4>1. ASSUME NEW i \in Pending(k)', NEW j \in Pending(k)', i < j
              PROVE  codes'[j].seen < i
          <5>1. i \in Pending(k)
            BY <1>0, <2>4, <3>1, <4>1
          <5>2. CASE j \in Pending(k)
            BY <2>3, <3>1, <4>1, <5>1, <5>2 DEF Fresh
          <5>3. CASE j = m
            BY <2>2, <2>3, <3>1, <5>1, <5>3 DEF Fresh
          <5>4. QED
            BY <3>1, <5>2, <5>3
        <4>2. QED
          BY <4>1
      <3>5. \A i \in Pending(k)', q \in Coming(k)' : req'[q].ref < i
        BY <3>1, <3>2, <3>3 DEF Fresh
      <3>6. QED
        BY <3>4, <3>5 DEF Fresh
    <2>7. QED
      BY <2>5, <2>6
  <1>4. CASE /\ \A r \in Request : ~ConfirmReset(r)
             /\ \A r \in Request : ~Invalidate(r)
             /\ \A r \in Request : ~CreateCode(r)
    <2>1. /\ StatesStay
          /\ \A q \in Request : req'[q].step = "code" =>
                 req[q].step = "code" /\ SameRow(q)
      BY <1>4, Frame
    <2>2. QED
      BY <2>1, FreshStays
  <1>5. QED
    BY <1>1, <1>2, <1>3, <1>4

\* "Invalidate any pending OTPs for this subject": however logins interleave, a
\* login leaves no code open that was there when it invalidated, and no row has
\* more codes that still open it than there are requests at a time.
THEOREM PendingCodesAreBounded == Spec => []PendingCodesBounded
  <1>1. Init => PendingInv
    <2> SUFFICES ASSUME Init
                 PROVE  SeenThere /\ \A k \in Kind : Room(k) /\ Fresh(k)
      BY DEF PendingInv
    <2>1. \A r \in Request : ~At(r, "code")
      BY IdleReq DEF Init, At
    <2>2. \A k : Pending(k) = {} /\ Coming(k) = {}
      BY <2>1 DEF Init, Pending, Coming
    <2>3. Cardinality(Request) \in Nat
      BY AccountsAssumption, FS_CardinalityType
    <2>4. QED
      BY <2>1, <2>2, <2>3, FS_EmptySet DEF SeenThere, Room, Fresh
  <1>2. AccountsInv /\ AccountsInv' /\ PendingInv /\ [Next]_vars => PendingInv'
    BY RoomStep, FreshStep DEF PendingInv
  <1>3. PendingInv => PendingCodesBounded
    <2> SUFFICES ASSUME PendingInv, NEW k \in Kind
                 PROVE  Room(k) /\ Fresh(k)
      BY DEF PendingCodesBounded, Room, Fresh, Pending, Coming
    <2>1. QED
      BY DEF PendingInv
  <1>4. QED
    BY <1>1, <1>2, <1>3, AccountsInit, AccountsStep, PTL DEF Spec

-----------------------------------------------------------------------------
(* Accounts: passwords that a reset replaced. *)

\* Once a reset found no login of its row under way, nothing carries the old
\* password: no request, no challenge, no session.  Links carry none.
Faded ==
    /\ \A r \in Request : req[r].stale => ~At(r, "reset") /\ ~At(r, "verify")
    /\ \A k \in fenced :
           /\ \A r \in Request : req[r].kind = k => ~req[r].stale
           /\ \A c \in challenges : c.kind = k => ~c.stale
           /\ k \notin stale

LEMMA FadedStep == AccountsInv /\ Faded /\ [Next]_vars => Faded'
  <1> SUFFICES ASSUME AccountsInv, Faded, [Next]_vars
               PROVE  Faded'
    OBVIOUS
  <1>0. TypeOK /\ "NONE" \notin Kind /\ fenced \subseteq Kind
    BY Sets
  <1>1. ASSUME NEW r \in Request, ConfirmReset(r)
        PROVE  Faded'
    <2> DEFINE loggingIn(q) == q # r /\ req[q].kind = req[r].kind
                               /\ ~At(q, "reset") /\ ~At(q, "verify")
    <2>1. /\ req'[r] = Idle
          /\ \A q \in Request \ {r} :
               /\ req'[q].step = req[q].step /\ req'[q].kind = req[q].kind
               /\ req'[q].stale => req[q].stale \/ loggingIn(q)
          /\ \A c \in challenges' : \E d \in challenges :
               c.kind = d.kind /\ (c = d \/ c.kind = req[r].kind)
      BY <1>1, Replaced DEF ConfirmReset
    <2>2. /\ stale' = stale \ {req[r].kind}
          /\ \/ /\ \A q \in Request : ~loggingIn(q)
                /\ \A c \in challenges : c.kind # req[r].kind
                /\ fenced' = fenced \cup {req[r].kind}
             \/ fenced' = fenced \ {req[r].kind}
      BY <1>1 DEF ConfirmReset, Replace
    <2>3. \A q \in Request : req'[q].stale => ~At(q, "reset")' /\ ~At(q, "verify")'
      BY <2>1, IdleReq DEF Faded, At
    <2>4. ASSUME NEW k \in fenced'
          PROVE  /\ \A q \in Request : req'[q].kind = k => ~req'[q].stale
                 /\ \A c \in challenges' : c.kind = k => ~c.stale
                 /\ k \notin stale'
      <3>1. CASE k = req[r].kind
        <4>1. /\ \A q \in Request : ~loggingIn(q)
              /\ \A c \in challenges : c.kind # k
          BY <2>2, <2>4, <3>1
        <4>2. ASSUME NEW q \in Request, req'[q].kind = k
              PROVE  ~req'[q].stale
          <5>1. CASE q = r
            BY <2>1, <5>1, IdleReq
          <5>2. CASE q # r
            <6>1. At(q, "reset") \/ At(q, "verify")
              BY <2>1, <3>1, <4>1, <4>2, <5>2
            <6>2. ~req[q].stale
              BY <6>1 DEF Faded
            <6>3. QED
              BY <2>1, <4>1, <5>2, <6>2
          <5>3. QED
            BY <5>1, <5>2
        <4>3. QED
          BY <2>1, <2>2, <3>1, <4>1, <4>2
      <3>2. CASE k # req[r].kind
        <4>1. k \in fenced
          BY <2>2, <2>4, <3>2
        <4>2. ASSUME NEW q \in Request, req'[q].kind = k
              PROVE  ~req'[q].stale
          <5>1. CASE q = r
            BY <2>1, <5>1, IdleReq
          <5>2. CASE q # r
            BY <2>1, <3>2, <4>1, <4>2, <5>2 DEF Faded
          <5>3. QED
            BY <5>1, <5>2
        <4>3. \A c \in challenges' : c.kind = k => ~c.stale
          BY <2>1, <3>2, <4>1 DEF Faded
        <4>4. QED
          BY <2>2, <4>1, <4>2, <4>3 DEF Faded
      <3>3. QED
        BY <3>1, <3>2
    <2>5. QED
      BY <2>3, <2>4 DEF Faded
  <1>2. CASE \A r \in Request : ~ConfirmReset(r)
    <2>1. (\A q \in Request : Carried(q)) /\ ClaimsCarried /\ fenced' = fenced
      BY <1>2, Frame
    <2>2. \A q \in Request : req'[q].stale => ~At(q, "reset")' /\ ~At(q, "verify")'
      BY <2>1, IdleReq DEF Faded, Carried, At
    <2>3. ASSUME NEW k \in fenced
          PROVE  /\ \A q \in Request : req'[q].kind = k => ~req'[q].stale
                 /\ \A c \in challenges' : c.kind = k => ~c.stale
                 /\ k \notin stale'
      <3>1. \A q \in Request : req'[q].kind = k => ~req'[q].stale
        BY <2>1, <2>3, IdleReq DEF Faded, Carried
      <3>2. \A c \in challenges' : c.kind = k => ~c.stale
        BY <2>1, <2>3 DEF Faded, ClaimsCarried
      <3>3. k \notin stale'
        BY <2>1, <2>3 DEF Faded, ClaimsCarried
      <3>4. QED
        BY <3>1, <3>2, <3>3
    <2>4. QED
      BY <2>1, <2>2, <2>3 DEF Faded
  <1>3. QED
    BY <1>1, <1>2

\* A password that a reset replaced opens no session later, unless a login with
\* it was under way, or waited for its mailed code, at that reset.
THEOREM ReplacedPasswordsFade == Spec => []ReplacedPasswordFades
  <1>1. Init => Faded
    BY IdleReq DEF Init, Faded
  <1>2. Faded => ReplacedPasswordFades
    BY DEF Faded, ReplacedPasswordFades
  <1>3. QED
    BY <1>1, <1>2, AccountsInit, AccountsStep, FadedStep, PTL DEF Spec

-----------------------------------------------------------------------------
(* Deals. *)

\* Rows, and a stage of pipeline p.  What orders stages have does not matter.
StageRow(Order) == [pipe : Nat, order : Order]
DealRow == [pipe : Nat, stage : Nat, open : BOOLEAN]
StageOf(s, p) == s \in DOMAIN stages /\ stages[s].pipe = p

\* Each deal is under a stage of its own pipeline; what a request has looked up
\* holds until it writes: stages are added and renumbered, and a deal never
\* changes pipeline.
AskInv(u) ==
    /\ Asking(u, "stage") => ask[u].pipe \in Nat
    /\ Asking(u, "deal") => StageOf(ask[u].stage, ask[u].pipe)
    /\ Asking(u, "move") => /\ ask[u].deal \in DOMAIN deals
                            /\ StageOf(ask[u].stage, deals[ask[u].deal].pipe)

Placed == \A d \in DOMAIN deals : StageOf(deals[d].stage, deals[d].pipe)

DealsInv ==
    /\ pipes \in Seq(BOOLEAN)
    /\ \E Order : stages \in Seq(StageRow(Order))
    /\ deals \in Seq(DealRow)
    /\ ask = [u \in User |-> ask[u]]
    /\ Placed
    /\ board.stages \subseteq DOMAIN stages
    /\ \A u \in User : AskInv(u)

\* Rows keep their place and their pipeline.
StagesStay == \A i \in DOMAIN stages : i \in DOMAIN stages' /\ stages'[i].pipe = stages[i].pipe
DealsStay == \A d \in DOMAIN deals : d \in DOMAIN deals' /\ deals'[d].pipe = deals[d].pipe

\* A request that does not move keeps what it knows.
LEMMA AskStays ==
  ASSUME NEW u \in User, AskInv(u), StagesStay, DealsStay,
         ask'[u] = ask[u] \/ ask'[u] = <<>>
  PROVE  AskInv(u)'
  BY DEF AskInv, Asking, StageOf, StagesStay, DealsStay

\* A step of the requests alone.
LEMMA AskMoves ==
  ASSUME DealsInv, NEW u \in User, NEW r, ask' = [ask EXCEPT ![u] = r],
         UNCHANGED <<pipes, stages, deals, board>>, AskInv(u)'
  PROVE  DealsInv'
  <1>1. \A v \in User \ {u} : ask'[v] = ask[v]
    BY DEF DealsInv
  <1>2. StagesStay /\ DealsStay
    BY DEF StagesStay, DealsStay
  <1>3. \A v \in User : AskInv(v)'
    BY <1>1, <1>2, AskStays DEF DealsInv
  <1>4. ask' = [v \in User |-> ask'[v]]
    BY DEF DealsInv
  <1>5. Placed'
    BY DEF DealsInv, Placed, StageOf
  <1>6. QED
    BY <1>3, <1>4, <1>5 DEF DealsInv

\* Rows change in place or are added, and a request may end.
LEMMA RowsMove ==
  ASSUME DealsInv, StagesStay, DealsStay,
         pipes' \in Seq(BOOLEAN), \E Order : stages' \in Seq(StageRow(Order)),
         deals' \in Seq(DealRow),
         Placed',
         UNCHANGED ask \/ \E u \in User : Served(u), UNCHANGED board
  PROVE  DealsInv'
  <1>1. \A v \in User : ask'[v] = ask[v] \/ ask'[v] = <<>>
    BY DEF DealsInv, Served
  <1>2. ask' = [v \in User |-> ask'[v]]
    BY DEF DealsInv, Served
  <1>3. \A v \in User : AskInv(v)'
    BY <1>1, AskStays DEF DealsInv
  <1>4. board'.stages \subseteq DOMAIN stages'
    BY DEF DealsInv, StagesStay
  <1>5. QED
    BY <1>2, <1>3, <1>4 DEF DealsInv

\* The board and the requests' ends do not matter.
LEMMA SamePlaces ==
  ASSUME DealsInv, UNCHANGED <<stages, deals>>
  PROVE  /\ StagesStay /\ DealsStay
         /\ \E Order : stages' \in Seq(StageRow(Order))
         /\ deals' \in Seq(DealRow)
         /\ Placed'
  BY DEF DealsInv, Placed, StagesStay, DealsStay, StageOf

\* A row of stages by position.
LEMMA StageRows ==
  ASSUME NEW Order, stages \in Seq(StageRow(Order))
  PROVE  /\ Len(stages) \in Nat /\ DOMAIN stages = 1 .. Len(stages)
         /\ \A i \in DOMAIN stages : stages[i] \in StageRow(Order)
  BY LenProperties, ElementOfSeq

\* The set of orders may be taken larger.
LEMMA StageRowsWiden ==
  ASSUME NEW A, NEW B, A \subseteq B, stages \in Seq(StageRow(A))
  PROVE  stages \in Seq(StageRow(B))
  <1>1. StageRow(A) \subseteq StageRow(B)
    BY DEF StageRow
  <1>2. QED
    BY <1>1, SeqDef, StageRows

\* Stages that stay carry the deals that stay.
LEMMA DealsCarried ==
  ASSUME DealsInv, StagesStay, UNCHANGED deals
  PROVE  /\ DealsStay /\ deals' \in Seq(DealRow)
         /\ Placed'
  BY DEF DealsInv, Placed, StagesStay, DealsStay, StageOf

\* create: the new pipeline's stages follow the others.
LEMMA CreateKeepsDeals ==
  ASSUME DealsInv, CreatePipeline
  PROVE  DealsInv'
  <1>1. PICK Order : stages \in Seq(StageRow(Order))
    BY DEF DealsInv
  <1> DEFINE O2 == Order \cup Int
             more == [i \in 1 .. Initial |-> [pipe |-> Len(pipes) + 1, order |-> i - 1]]
  <1>2. Len(pipes) \in Nat /\ Initial \in Nat
    BY LenProperties, DealsAssumption DEF DealsInv
  <1>3. more \in Seq(StageRow(O2))
    BY <1>2 DEF StageRow
  <1>4. stages \in Seq(StageRow(O2))
    <2>1. Order \subseteq O2
      OBVIOUS
    <2>2. QED
      BY <1>1, <2>1, StageRowsWiden
  <1>5. stages' = stages \o more
    BY DEF CreatePipeline
  <1> HIDE DEF more, O2
  <1>6. stages' \in Seq(StageRow(O2)) /\ StagesStay
    BY <1>3, <1>4, <1>5, ConcatProperties, LenProperties DEF StagesStay
  <1>7. pipes' \in Seq(BOOLEAN)
    BY AppendProperties DEF CreatePipeline, DealsInv
  <1>8. UNCHANGED deals /\ UNCHANGED ask /\ UNCHANGED board
    BY DEF CreatePipeline
  <1>9. QED
    BY <1>6, <1>7, <1>8, DealsCarried, RowsMove

\* addStage: the new stage follows the others.
LEMMA InsertStageKeepsDeals ==
  ASSUME DealsInv, NEW u \in User, InsertStage(u)
  PROVE  DealsInv'
  <1>0. pipes' \in Seq(BOOLEAN) /\ UNCHANGED <<deals, board>> /\ Served(u)
    BY DEF InsertStage, DealsInv
  <1>1. CASE UNCHANGED stages
    BY <1>0, <1>1, SamePlaces, RowsMove
  <1>2. CASE stages' = Append(stages, [pipe |-> ask[u].pipe, order |-> ask[u].order])
    <2>1. PICK Order : stages \in Seq(StageRow(Order))
      BY DEF DealsInv
    <2> DEFINE O2 == Order \cup {ask[u].order}
               row == [pipe |-> ask[u].pipe, order |-> ask[u].order]
    <2>2. row \in StageRow(O2)
      BY DEF StageRow, DealsInv, AskInv, InsertStage
    <2>3. stages \in Seq(StageRow(O2))
      <3>1. Order \subseteq O2
        OBVIOUS
      <3>2. QED
        BY <2>1, <3>1, StageRowsWiden
    <2> HIDE DEF row, O2
    <2>4. stages' = Append(stages, row)
      BY <1>2 DEF row
    <2>5. stages' \in Seq(StageRow(O2)) /\ StagesStay
      BY <2>2, <2>3, <2>4, AppendProperties, LenProperties DEF StagesStay
    <2>6. QED
      BY <1>0, <2>5, DealsCarried, RowsMove
  <1>3. QED
    BY <1>1, <1>2 DEF InsertStage

\* reorderStages: numbers change, pipelines do not.
LEMMA ReorderKeepsDeals ==
  ASSUME DealsInv, NEW perm, ReorderStages(perm)
  PROVE  DealsInv'
  <1>1. PICK Order : stages \in Seq(StageRow(Order))
    BY DEF DealsInv
  <1> DEFINE O2 == Order \cup {perm[i] - 1 : i \in DOMAIN stages}
             new(i) == IF i \in board.stages THEN [stages[i] EXCEPT !.order = perm[i] - 1]
                                             ELSE stages[i]
  <1>2. stages' = [i \in DOMAIN stages |-> new(i)]
    BY DEF ReorderStages
  <1>3. ASSUME NEW i \in DOMAIN stages
        PROVE  new(i) \in StageRow(O2) /\ new(i).pipe = stages[i].pipe
    <2>1. stages[i] \in StageRow(Order)
      BY <1>1, StageRows
    <2>2. QED
      BY <2>1 DEF StageRow
  <1> HIDE DEF new, O2
  <1>4. stages' \in Seq(StageRow(O2))
    BY <1>1, <1>2, <1>3, StageRows, SeqDef
  <1>5. StagesStay
    BY <1>2, <1>3 DEF StagesStay
  <1>6. pipes' \in Seq(BOOLEAN) /\ UNCHANGED <<deals, ask, board>>
    BY DEF ReorderStages, DealsInv
  <1>7. QED
    BY <1>4, <1>5, <1>6, DealsCarried, RowsMove

\* create, CREATE_DEAL: the new deal is on the stage that was looked up.
LEMMA InsertDealKeepsDeals ==
  ASSUME DealsInv, NEW u \in User, InsertDeal(u)
  PROVE  DealsInv'
  <1>0. pipes' \in Seq(BOOLEAN) /\ UNCHANGED <<stages, board>> /\ Served(u)
    BY DEF InsertDeal, DealsInv
  <1>1. CASE UNCHANGED deals
    BY <1>0, <1>1, SamePlaces, RowsMove
  <1> DEFINE row == [pipe |-> ask[u].pipe, stage |-> ask[u].stage, open |-> TRUE]
  <1>2. CASE deals' = Append(deals, row)
    <2>1. StageOf(ask[u].stage, ask[u].pipe)
      BY DEF InsertDeal, DealsInv, AskInv
    <2>2. row \in DealRow
      <3>1. PICK Order : stages \in Seq(StageRow(Order))
        BY DEF DealsInv
      <3>2. ask[u].stage \in Nat /\ ask[u].pipe \in Nat
        BY <2>1, <3>1, StageRows DEF StageOf, StageRow
      <3>3. QED
        BY <3>2 DEF DealRow
    <2>3. deals \in Seq(DealRow)
      BY DEF DealsInv
    <2>4. row.stage = ask[u].stage /\ row.pipe = ask[u].pipe
      OBVIOUS
    <2> HIDE DEF row
    <2>5. /\ deals' \in Seq(DealRow) /\ Len(deals) \in Nat
          /\ DOMAIN deals = 1 .. Len(deals) /\ DOMAIN deals' = 1 .. Len(deals) + 1
          /\ \A d \in DOMAIN deals : deals'[d] = deals[d]
          /\ deals'[Len(deals) + 1] = row
      BY <1>2, <2>2, <2>3, AppendProperties, LenProperties
    <2>6. DealsStay
      BY <2>5 DEF DealsStay
    <2>7. Placed'
      <3> SUFFICES ASSUME NEW d \in DOMAIN deals'
                   PROVE  deals'[d].stage \in DOMAIN stages /\
                          stages[deals'[d].stage].pipe = deals'[d].pipe
        BY <1>0 DEF Placed, StageOf
      <3>1. CASE d \in DOMAIN deals
        BY <2>5, <3>1 DEF DealsInv, Placed, StageOf
      <3>2. CASE d = Len(deals) + 1
        BY <2>1, <2>4, <2>5, <3>2 DEF StageOf
      <3>3. QED
        BY <2>5, <3>1, <3>2
    <2>8. StagesStay /\ \E Order : stages' \in Seq(StageRow(Order))
      BY <1>0 DEF StagesStay, DealsInv
    <2>9. QED
      BY <1>0, <2>5, <2>6, <2>7, <2>8, RowsMove
  <1>3. QED
    BY <1>1, <1>2 DEF InsertDeal

\* A deal's row is replaced by one with its pipeline and one of its stages.
LEMMA DealReplaced ==
  ASSUME DealsInv, NEW d \in DOMAIN deals, NEW r \in DealRow,
         r.pipe = deals[d].pipe, StageOf(r.stage, r.pipe),
         deals' = [deals EXCEPT ![d] = r], UNCHANGED <<pipes, stages>>,
         UNCHANGED ask \/ \E u \in User : Served(u), UNCHANGED board
  PROVE  DealsInv'
  <1>1. deals \in Seq(DealRow) /\ d \in 1 .. Len(deals)
    BY LenProperties DEF DealsInv
  <1>2. deals' \in Seq(DealRow)
    BY <1>1, ExceptSeq
  <1>3. DealsStay
    BY DEF DealsStay
  <1>4. Placed'
    BY DEF DealsInv, Placed, StageOf
  <1>5. StagesStay /\ \E Order : stages' \in Seq(StageRow(Order))
    BY DEF StagesStay, DealsInv
  <1>6. pipes' \in Seq(BOOLEAN)
    BY DEF DealsInv
  <1>7. QED
    BY <1>2, <1>3, <1>4, <1>5, <1>6, RowsMove

\* moveStage and updateStatus.
LEMMA UpdatesKeepDeals ==
  ASSUME DealsInv, \/ \E u \in User : UpdateStage(u)
                   \/ \E d \in DOMAIN deals : UpdateStatus(d)
  PROVE  DealsInv'
  <1>0. ASSUME NEW d \in DOMAIN deals
        PROVE  deals[d] \in DealRow /\ StageOf(deals[d].stage, deals[d].pipe)
    BY ElementOfSeq, LenProperties DEF DealsInv, Placed
  <1>1. ASSUME NEW u \in User, UpdateStage(u)
        PROVE  DealsInv'
    <2> DEFINE d == ask[u].deal
    <2>1. /\ d \in DOMAIN deals /\ StageOf(ask[u].stage, deals[d].pipe)
          /\ Served(u) /\ UNCHANGED <<pipes, stages, board>>
      BY <1>1 DEF UpdateStage, DealsInv, AskInv
    <2>2. CASE UNCHANGED deals
      BY <2>1, <2>2, SamePlaces, RowsMove DEF DealsInv
    <2>3. CASE deals' = [deals EXCEPT ![d].stage = ask[u].stage]
      <3> DEFINE r == [deals[d] EXCEPT !.stage = ask[u].stage]
      <3>1. ask[u].stage \in Nat
        <4>1. PICK Order : stages \in Seq(StageRow(Order))
          BY DEF DealsInv
        <4>2. QED
          BY <2>1, <4>1, StageRows DEF StageOf
      <3>2. r \in DealRow /\ r.pipe = deals[d].pipe /\ r.stage = ask[u].stage
        BY <1>0, <2>1, <3>1 DEF DealRow
      <3>3. deals' = [deals EXCEPT ![d] = r]
        BY <2>3
      <3> HIDE DEF r
      <3>4. QED
        BY <2>1, <3>2, <3>3, DealReplaced
    <2>4. QED
      BY <1>1, <2>2, <2>3 DEF UpdateStage
  <1>2. ASSUME NEW d \in DOMAIN deals, UpdateStatus(d)
        PROVE  DealsInv'
    <2> DEFINE r == [deals[d] EXCEPT !.open = ~@]
    <2>1. r \in DealRow /\ r.pipe = deals[d].pipe /\ r.stage = deals[d].stage
      BY <1>0 DEF DealRow
    <2>2. deals' = [deals EXCEPT ![d] = r] /\ UNCHANGED <<pipes, stages, ask, board>>
      BY <1>2 DEF UpdateStatus
    <2> HIDE DEF r
    <2>3. QED
      BY <1>0, <2>1, <2>2, DealReplaced
  <1>3. QED
    BY <1>1, <1>2

\* The look-ups that precede a write, and requests that end without one.
LEMMA LookUpsKeepDeals ==
  ASSUME DealsInv, NEW u \in User,
         \/ DealThrows(u)
         \/ \E p \in Live : ReadTop(u, p) \/ \E s \in DOMAIN stages : FindPlace(u, p, s)
         \/ \E d \in DOMAIN deals : DropDeal(u, d)
  PROVE  DealsInv'
  <1>1. CASE DealThrows(u)
    <2>1. ask' = [ask EXCEPT ![u] = <<>>] /\ UNCHANGED <<pipes, stages, deals, board>>
      BY <1>1 DEF DealThrows, Served
    <2>2. AskInv(u)'
      BY <2>1 DEF AskInv, Asking, DealsInv
    <2>3. QED
      BY <2>1, <2>2, AskMoves
  <1>2. CASE \E p \in Live : ReadTop(u, p)
    <2>1. PICK p \in Live : ReadTop(u, p)
      BY <1>2
    <2> DEFINE r == [step |-> "stage", pipe |-> p, order |-> Top(p) + 1]
    <2>2. ask' = [ask EXCEPT ![u] = r] /\ UNCHANGED <<pipes, stages, deals, board>>
      BY <2>1 DEF ReadTop
    <2>3. p \in Nat
      BY LenProperties DEF Live, DealsInv
    <2>4. ask'[u] = r /\ r.step = "stage" /\ r.pipe = p
      BY <2>2 DEF DealsInv
    <2> HIDE DEF r
    <2>5. AskInv(u)'
      BY <2>3, <2>4 DEF AskInv, Asking
    <2>6. QED
      BY <2>2, <2>5, AskMoves
  <1>3. CASE \E p \in Live, s \in DOMAIN stages : FindPlace(u, p, s)
    <2>1. PICK p \in Live, s \in DOMAIN stages : FindPlace(u, p, s)
      BY <1>3
    <2> DEFINE r == [step |-> "deal", pipe |-> p, stage |-> s]
    <2>2. /\ ask' = [ask EXCEPT ![u] = r] /\ UNCHANGED <<pipes, stages, deals, board>>
          /\ stages[s].pipe = p
      BY <2>1 DEF FindPlace
    <2>3. ask'[u] = r /\ r.step = "deal" /\ r.pipe = p /\ r.stage = s
      BY <2>2 DEF DealsInv
    <2> HIDE DEF r
    <2>4. AskInv(u)'
      BY <2>2, <2>3 DEF AskInv, Asking, StageOf
    <2>5. QED
      BY <2>2, <2>4, AskMoves
  <1>4. CASE \E d \in DOMAIN deals : DropDeal(u, d)
    <2>1. PICK d \in DOMAIN deals, s \in board.stages : FindMove(u, d, s)
      BY <1>4 DEF DropDeal
    <2> DEFINE r == [step |-> "move", deal |-> d, stage |-> s]
    <2>2. /\ ask' = [ask EXCEPT ![u] = r] /\ UNCHANGED <<pipes, stages, deals, board>>
          /\ stages[s].pipe = deals[d].pipe
      BY <2>1 DEF FindMove
    <2>3. ask'[u] = r /\ r.step = "move" /\ r.deal = d /\ r.stage = s
      BY <2>2 DEF DealsInv
    <2> HIDE DEF r
    <2>4. AskInv(u)'
      BY <2>2, <2>3 DEF AskInv, Asking, StageOf, DealsInv
    <2>5. QED
      BY <2>2, <2>4, AskMoves
  <1>5. QED
    BY <1>1, <1>2, <1>3, <1>4

\* Every deal is under a stage of its own pipeline, although requests write
\* what they looked up earlier and deals are dropped on boards that are out of
\* date (DealService, PipelineService, the CREATE_DEAL node and the board).
THEOREM DealsStayOnBoard == DealsSpec => []DealsOnBoard
  <1>1. DealsInit => DealsInv
    <2> SUFFICES ASSUME DealsInit
                 PROVE  DealsInv
      OBVIOUS
    <2>1. /\ pipes \in Seq(BOOLEAN) /\ stages \in Seq(StageRow(Nat)) /\ deals \in Seq(DealRow)
          /\ DOMAIN deals = {} /\ board.stages = {}
      BY EmptySeq DEF DealsInit
    <2>2. ask = [u \in User |-> <<>>]
      BY DEF DealsInit
    <2>3. \A u \in User : AskInv(u)
      BY <2>2 DEF AskInv, Asking
    <2>4. QED
      BY <2>1, <2>2, <2>3 DEF DealsInv, Placed
  <1>2. DealsInv /\ [DealsNext]_dealVars => DealsInv'
    <2>1. ASSUME DealsInv, UNCHANGED dealVars
          PROVE  DealsInv'
      BY <2>1, SamePlaces, RowsMove DEF DealsInv, dealVars
    <2>2. ASSUME DealsInv, NEW p \in Live, RemovePipeline(p)
          PROVE  DealsInv'
      <3>1. p \in 1 .. Len(pipes) /\ pipes \in Seq(BOOLEAN)
        BY <2>2, LenProperties DEF Live, DealsInv
      <3>2. pipes' \in Seq(BOOLEAN)
        BY <2>2, <3>1, ExceptSeq DEF RemovePipeline
      <3>3. UNCHANGED <<stages, deals, ask, board>>
        BY <2>2 DEF RemovePipeline
      <3>4. QED
        BY <2>2, <3>2, <3>3, SamePlaces, RowsMove
    <2>3. ASSUME DealsInv, NEW u \in User, DealStep(u)
          PROVE  DealsInv'
      BY <2>3, InsertStageKeepsDeals, InsertDealKeepsDeals, UpdatesKeepDeals, LookUpsKeepDeals,
         Zenon DEF DealStep
    <2>4. ASSUME DealsInv, NEW p \in Live, FetchBoard(p)
          PROVE  DealsInv'
      <3>1. UNCHANGED <<pipes, stages, deals, ask>> /\ board'.stages = Of(p)
        BY <2>4 DEF FetchBoard
      <3>2. \A u \in User : AskInv(u)'
        BY <2>4, <3>1 DEF DealsInv, AskInv, Asking, StageOf
      <3>3. Placed'
        BY <2>4, <3>1 DEF DealsInv, Placed, StageOf
      <3>4. QED
        BY <2>4, <3>1, <3>2, <3>3 DEF DealsInv, Of
    <2>5. QED
      BY <2>1, <2>2, <2>3, <2>4, CreateKeepsDeals, ReorderKeepsDeals, UpdatesKeepDeals, Zenon
         DEF DealsNext
  <1>3. DealsInv => DealsOnBoard
    BY DEF DealsInv, Placed, StageOf, DealsOnBoard
  <1>4. QED
    BY <1>1, <1>2, <1>3, PTL DEF DealsSpec

-----------------------------------------------------------------------------
(* The tags of contacts. *)

SheetRow == [phone : Phone \cup {NoPhone}, tags : SUBSET Tag]

\* What a writer does: an import between rows, an import and a flow before
\* their writes.
RowJob    == [step : {"row"}, rows : Seq(SheetRow)]
ImportJob == [step : {"write"}, rows : Seq(SheetRow), phone : Phone, found : BOOLEAN,
              seen : SUBSET Tag]
FlowJob   == [step : {"write"}, phone : Phone, new : SUBSET Tag, added : SUBSET Tag,
              removed : SUBSET Tag]

LEMMA JobKinds ==
    /\ \A j \in RowJob : j # <<>> /\ j.step = "row"
    /\ \A j \in ImportJob : j # <<>> /\ j.step = "write" /\ "new" \notin DOMAIN j
    /\ \A j \in FlowJob : j # <<>> /\ j.step = "write" /\ "found" \notin DOMAIN j
  <1>1. ASSUME NEW j \in RowJob
        PROVE  j # <<>> /\ j.step = "row"
    <2>1. DOMAIN j = {"step", "rows"}
      BY DEF RowJob
    <2>2. DOMAIN <<>> = {}
      OBVIOUS
    <2>3. j # <<>>
      BY <2>1, <2>2
    <2>4. QED
      BY <2>3 DEF RowJob
  <1>2. ASSUME NEW j \in ImportJob
        PROVE  j # <<>> /\ j.step = "write" /\ "new" \notin DOMAIN j
    <2>1. DOMAIN j = {"step", "rows", "phone", "found", "seen"}
      BY DEF ImportJob
    <2>2. QED
      BY <2>1 DEF ImportJob
  <1>3. ASSUME NEW j \in FlowJob
        PROVE  j # <<>> /\ j.step = "write" /\ "found" \notin DOMAIN j
    <2>1. DOMAIN j = {"step", "phone", "new", "added", "removed"}
      BY DEF FlowJob
    <2>2. QED
      BY <2>1 DEF FlowJob
  <1>4. QED
    BY <1>1, <1>2, <1>3


TagTypes ==
    /\ known \subseteq Phone
    /\ tags \in [Phone -> SUBSET Tag] /\ owed \in [Phone -> SUBSET Tag]
    /\ job \in [Writer -> {<<>>} \cup RowJob \cup ImportJob \cup FlowJob]

\* What a writer will write has all the tags of its contact, but for what it
\* removes, unless the contact was written since the writer read it.
WriterInv(w) ==
    /\ job[w] \in ImportJob =>
          /\ job[w].rows # <<>> /\ Head(job[w].rows).phone = job[w].phone
          /\ job[w].found => /\ job[w].phone \in known
                             /\ w \notin raced => tags[job[w].phone] \subseteq job[w].seen
    /\ job[w] \in FlowJob =>
          /\ job[w].phone \in known /\ job[w].added \subseteq job[w].new
          /\ w \notin raced => tags[job[w].phone] \ job[w].removed \subseteq job[w].new

TagInv ==
    /\ TagTypes
    /\ \A p \in Phone : owed[p] \subseteq tags[p]
    /\ \A p \in Phone \ known : owed[p] = {}
    /\ \A w \in Writer : WriterInv(w)

LEMMA SheetRows ==
    ASSUME NEW sheet \in Seq(SheetRow), sheet # <<>>
    PROVE  Head(sheet) \in SheetRow /\ Tail(sheet) \in Seq(SheetRow)
  BY HeadTailProperties

\* A writer takes another step, and no contact is written.
LEMMA JobMoves ==
    ASSUME TagInv, NEW w \in Writer, NEW j \in {<<>>} \cup RowJob \cup ImportJob \cup FlowJob,
           job' = [job EXCEPT ![w] = j], UNCHANGED <<tags, owed>>,
           known \subseteq known', known' \subseteq Phone,
           raced' = raced \/ raced' = raced \ {w},
           j \in ImportJob =>
              /\ j.rows # <<>> /\ Head(j.rows).phone = j.phone
              /\ j.found => j.phone \in known /\ tags[j.phone] \subseteq j.seen,
           j \in FlowJob =>
              /\ j.phone \in known /\ j.added \subseteq j.new
              /\ tags[j.phone] \ j.removed \subseteq j.new
    PROVE  TagInv'
  <1>1. job'[w] = j /\ \A v \in Writer \ {w} : job'[v] = job[v]
    BY DEF TagInv, TagTypes
  <1>2. job' \in [Writer -> {<<>>} \cup RowJob \cup ImportJob \cup FlowJob]
    BY DEF TagInv, TagTypes
  <1>3. TagTypes'
    BY <1>2 DEF TagInv, TagTypes
  <1>4. ASSUME NEW v \in Writer
        PROVE  WriterInv(v)'
    <2>1. CASE v = w
      BY <1>1, <2>1 DEF WriterInv
    <2>2. CASE v # w
      <3>1. job'[v] = job[v] /\ WriterInv(v) /\ (v \in raced' <=> v \in raced)
        BY <1>1, <2>2 DEF TagInv
      <3>2. QED
        BY <3>1 DEF WriterInv
    <2>3. QED
      BY <2>1, <2>2
  <1>5. QED
    BY <1>3, <1>4 DEF TagInv

\* A writer writes the tags of a contact and goes on: it drops nothing that is
\* owed, and the others that wait to write are noted as overtaken.
LEMMA WriteKeepsTags ==
    ASSUME TagInv, NEW w \in Writer, NEW p \in Phone, NEW j \in {<<>>} \cup RowJob,
           NEW new \in SUBSET Tag, NEW more \in SUBSET Tag, NEW less \in SUBSET Tag,
           WriteTags(w, p, new, more, less), more \subseteq new,
           w \notin raced => owed[p] \ less \subseteq new,
           known \subseteq known', known' \subseteq Phone, p \in known',
           job' = [job EXCEPT ![w] = j]
    PROVE  TagInv'
  <1>1. /\ tags' = [tags EXCEPT ![p] = new]
        /\ \E held \in SUBSET Tag :
              /\ held \ less \subseteq new
              /\ owed' = [owed EXCEPT ![p] = (held \cup more) \ less]
        /\ raced' = raced \cup {v \in Writer \ {w} : Doing(v, "write") /\ job[v].phone = p}
    BY DEF WriteTags, TagInv, TagTypes
  <1>2. PICK held \in SUBSET Tag :
              /\ held \ less \subseteq new
              /\ owed' = [owed EXCEPT ![p] = (held \cup more) \ less]
    BY <1>1
  <1>3. job'[w] = j /\ \A v \in Writer \ {w} : job'[v] = job[v]
    BY DEF TagInv, TagTypes
  <1>4. job' \in [Writer -> {<<>>} \cup RowJob \cup ImportJob \cup FlowJob]
    BY DEF TagInv, TagTypes
  <1>5. /\ tags' \in [Phone -> SUBSET Tag] /\ owed' \in [Phone -> SUBSET Tag]
        /\ tags'[p] = new /\ owed'[p] = (held \cup more) \ less
        /\ \A q \in Phone \ {p} : tags'[q] = tags[q] /\ owed'[q] = owed[q]
    BY <1>1, <1>2 DEF TagInv, TagTypes
  <1>6. TagTypes'
    BY <1>4, <1>5 DEF TagTypes
  <1>7. ASSUME NEW q \in Phone
        PROVE  owed'[q] \subseteq tags'[q] /\ (q \notin known' => owed'[q] = {})
    <2>1. CASE q = p
      BY <1>2, <1>5, <2>1
    <2>2. CASE q # p
      BY <1>5, <2>2 DEF TagInv
    <2>3. QED
      BY <2>1, <2>2
  <1>8. ASSUME NEW v \in Writer
        PROVE  WriterInv(v)'
    <2>1. CASE v = w
      <3>1. job'[v] \notin ImportJob /\ job'[v] \notin FlowJob
        BY <1>3, <2>1, JobKinds
      <3>2. QED
        BY <3>1 DEF WriterInv
    <2>2. CASE v # w /\ job[v] \notin ImportJob /\ job[v] \notin FlowJob
      <3>1. job'[v] = job[v]
        BY <1>3, <2>2
      <3>2. QED
        BY <2>2, <3>1 DEF WriterInv
    <2>3. CASE v # w /\ (job[v] \in ImportJob \/ job[v] \in FlowJob)
      <3>1. job'[v] = job[v] /\ WriterInv(v)
        BY <1>3, <2>3 DEF TagInv
      <3>2. Doing(v, "write")
        BY <2>3, JobKinds DEF Doing
      <3>3. v \notin raced' => v \notin raced /\ job[v].phone # p
        BY <1>1, <2>3, <3>2
      <3>4. job[v].phone \in Phone
        BY <2>3 DEF ImportJob, FlowJob
      <3>5. v \notin raced' => tags'[job[v].phone] = tags[job[v].phone]
        BY <1>5, <3>3, <3>4
      <3>6. QED
        BY <3>1, <3>3, <3>5 DEF WriterInv
    <2>4. QED
      BY <2>1, <2>2, <2>3
  <1>9. QED
    BY <1>6, <1>7, <1>8 DEF TagInv

LEMMA ImportKeepsTags ==
    ASSUME TagInv, NEW w \in Writer,
           FindRow(w) \/ UpdateRow(w) \/ CreateRow(w) \/ SkipRow(w) \/ EndImport(w)
    PROVE  TagInv'
  <1>a. /\ job \in [Writer -> {<<>>} \cup RowJob \cup ImportJob \cup FlowJob]
        /\ job[w] \in {<<>>} \cup RowJob \cup ImportJob \cup FlowJob
        /\ known \subseteq Phone /\ WriterInv(w)
        /\ \A p \in Phone : tags[p] \in SUBSET Tag /\ owed[p] \in SUBSET Tag
        /\ \A p \in Phone : owed[p] \subseteq tags[p]
        /\ \A p \in Phone \ known : owed[p] = {}
    BY DEF TagInv, TagTypes
  <1>b. <<>> \notin ImportJob /\ <<>> \notin FlowJob
    BY JobKinds
  <1>c. ASSUME NEW sheet \in Seq(SheetRow)
        PROVE  [step |-> "row", rows |-> sheet] \in RowJob
    BY DEF RowJob
  <1>d. ASSUME NEW j \in RowJob
        PROVE  j \notin ImportJob /\ j \notin FlowJob
    BY JobKinds
  <1>1. CASE FindRow(w)
    <2>1. job[w] \in RowJob /\ job[w].rows # <<>>
      BY <1>a, <1>1, JobKinds DEF FindRow, Doing
    <2>2. job[w].rows \in Seq(SheetRow)
      BY <2>1 DEF RowJob
    <2>3. Row(w) \in SheetRow /\ Tail(job[w].rows) \in Seq(SheetRow)
      BY <2>1, <2>2, SheetRows DEF Row
    <2>4. UNCHANGED <<known, tags, owed>>
      BY <1>1 DEF FindRow
    <2>5. CASE Row(w).phone = NoPhone
      <3> DEFINE j == [step |-> "row", rows |-> Tail(job[w].rows)]
      <3>1. job' = [job EXCEPT ![w] = j] /\ UNCHANGED raced
        BY <1>1, <2>5 DEF FindRow, NextRow
      <3>2. j \in RowJob
        BY <1>c, <2>3
      <3> HIDE DEF j
      <3>3. QED
        BY <1>a, <1>d, <2>4, <3>1, <3>2, JobMoves
    <2>6. CASE Row(w).phone # NoPhone
      <3> DEFINE p == Row(w).phone
                 j == [step |-> "write", rows |-> job[w].rows, phone |-> p,
                       found |-> p \in known, seen |-> tags[p]]
      <3>1. job' = [job EXCEPT ![w] = j] /\ raced' = raced \ {w}
        BY <1>1, <2>6 DEF FindRow
      <3>2. p \in Phone
        BY <2>3, <2>6 DEF SheetRow
      <3>3. j \in ImportJob
        BY <1>a, <2>2, <3>2 DEF ImportJob
      <3>4. /\ j.rows # <<>> /\ Head(j.rows).phone = j.phone
            /\ j.found => j.phone \in known /\ tags[j.phone] \subseteq j.seen
        BY <2>1 DEF Row
      <3>5. j \notin FlowJob
        BY <3>3, JobKinds DEF FlowJob, ImportJob
      <3> HIDE DEF j
      <3>6. QED
        BY <1>a, <2>4, <3>1, <3>3, <3>4, <3>5, JobMoves
    <2>7. QED
      BY <2>5, <2>6
  <1>e. ASSUME UpdateRow(w) \/ CreateRow(w) \/ SkipRow(w)
        PROVE  /\ job[w] \in ImportJob /\ job[w].rows \in Seq(SheetRow) /\ job[w].rows # <<>>
               /\ Row(w) \in SheetRow /\ Row(w).phone \in Phone
               /\ job[w].phone = Row(w).phone /\ Row(w).tags \in SUBSET Tag
               /\ job[w].seen \in SUBSET Tag
               /\ job[w].found => /\ job[w].phone \in known
                                  /\ w \notin raced => tags[job[w].phone] \subseteq job[w].seen
    <2>1. Doing(w, "write") /\ "found" \in DOMAIN job[w]
      BY <1>e DEF UpdateRow, CreateRow, SkipRow
    <2>2. job[w] \in ImportJob
      BY <1>a, <2>1, JobKinds DEF Doing
    <2>3. /\ job[w].rows # <<>> /\ Head(job[w].rows).phone = job[w].phone
          /\ job[w].found => /\ job[w].phone \in known
                             /\ w \notin raced => tags[job[w].phone] \subseteq job[w].seen
      BY <1>a, <2>2 DEF WriterInv
    <2>4. job[w].rows \in Seq(SheetRow) /\ job[w].phone \in Phone /\ job[w].seen \in SUBSET Tag
      BY <2>2 DEF ImportJob
    <2>5. Row(w) \in SheetRow /\ Row(w).phone = job[w].phone
      BY <2>3, <2>4, SheetRows DEF Row
    <2>6. Row(w).tags \in SUBSET Tag
      BY <2>5 DEF SheetRow
    <2>7. QED
      BY <2>2, <2>3, <2>4, <2>5, <2>6
  <1> DEFINE next == [step |-> "row", rows |-> Tail(job[w].rows)]
  <1>f. ASSUME UpdateRow(w) \/ CreateRow(w) \/ SkipRow(w)
        PROVE  next \in RowJob
    BY <1>c, <1>e, <1>f, SheetRows
  <1>2. CASE UpdateRow(w)
    <2>1. job' = [job EXCEPT ![w] = next] /\ UNCHANGED known /\ job[w].found
      BY <1>2 DEF UpdateRow, NextRow
    <2>2. CASE Row(w).tags = {}
      <3>1. UNCHANGED <<tags, owed, raced>>
        BY <1>2, <2>2 DEF UpdateRow
      <3> HIDE DEF next
      <3>2. QED
        BY <1>2, <1>a, <1>d, <1>f, <2>1, <3>1, JobMoves
    <2>3. CASE Row(w).tags # {}
      <3> DEFINE p == Row(w).phone
                 more == Row(w).tags
                 new == Merge(job[w].seen, more)
      <3>1. WriteTags(w, p, new, more, {})
        BY <1>2, <2>3 DEF UpdateRow
      <3>2. /\ new \in SUBSET Tag /\ more \in SUBSET Tag /\ {} \in SUBSET Tag
            /\ more \subseteq new /\ p \in Phone /\ p \in known
            /\ w \notin raced => owed[p] \ {} \subseteq new
        BY <1>2, <1>a, <1>e, <2>1 DEF Merge
      <3>3. next \in {<<>>} \cup RowJob /\ known \subseteq known' /\ known' \subseteq Phone
            /\ p \in known'
        BY <1>2, <1>a, <1>f, <2>1, <3>2
      <3> HIDE DEF next, new, p, more
      <3>4. QED
        BY <2>1, <3>1, <3>2, <3>3, WriteKeepsTags
    <2>4. QED
      BY <2>2, <2>3
  <1>3. CASE CreateRow(w)
    <2>1. job' = [job EXCEPT ![w] = next]
      BY <1>3 DEF CreateRow, NextRow
    <2>2. CASE Row(w).phone \in known
      <3>1. UNCHANGED <<known, tags, owed, raced>>
        BY <1>3, <2>2 DEF CreateRow
      <3> HIDE DEF next
      <3>2. QED
        BY <1>3, <1>a, <1>d, <1>f, <2>1, <3>1, JobMoves
    <2>3. CASE Row(w).phone \notin known
      <3> DEFINE p == Row(w).phone
                 new == Row(w).tags
      <3>1. WriteTags(w, p, new, new, {}) /\ known' = known \cup {p}
        BY <1>3, <2>3 DEF CreateRow
      <3>2. /\ p \in Phone /\ new \in SUBSET Tag /\ {} \in SUBSET Tag
            /\ owed[p] \ {} \subseteq new
        BY <1>3, <1>a, <1>e, <2>3
      <3>3. next \in {<<>>} \cup RowJob /\ known \subseteq known' /\ known' \subseteq Phone
            /\ p \in known'
        BY <1>3, <1>a, <1>f, <3>1, <3>2
      <3> HIDE DEF next, new, p
      <3>4. QED
        BY <2>1, <3>1, <3>2, <3>3, WriteKeepsTags
    <2>4. QED
      BY <2>2, <2>3
  <1>4. CASE SkipRow(w)
    <2>1. job' = [job EXCEPT ![w] = next] /\ UNCHANGED <<known, tags, owed, raced>>
      BY <1>4 DEF SkipRow, NextRow
    <2> HIDE DEF next
    <2>2. QED
      BY <1>4, <1>a, <1>d, <1>f, <2>1, JobMoves
  <1>5. CASE EndImport(w)
    <2>1. job' = [job EXCEPT ![w] = <<>>] /\ UNCHANGED <<known, tags, owed, raced>>
      BY <1>5 DEF EndImport, JobDone
    <2>2. QED
      BY <1>a, <1>b, <2>1, JobMoves
  <1>6. QED
    BY <1>1, <1>2, <1>3, <1>4, <1>5

LEMMA TagStep == TagInv /\ [ContactsNext]_contactVars => TagInv'
  <1> SUFFICES ASSUME TagInv, [ContactsNext]_contactVars
               PROVE  TagInv'
    OBVIOUS
  <1>a. /\ known \subseteq Phone
        /\ \A p \in Phone : tags[p] \in SUBSET Tag /\ owed[p] \subseteq tags[p]
        /\ \A w \in Writer : /\ job[w] \in {<<>>} \cup RowJob \cup ImportJob \cup FlowJob
                             /\ WriterInv(w)
    BY DEF TagInv, TagTypes
  <1>b. <<>> \notin ImportJob /\ <<>> \notin FlowJob /\ \A j \in FlowJob : j \notin ImportJob
    BY JobKinds DEF FlowJob, ImportJob
  <1>1. ASSUME NEW w \in Writer, NEW sheet \in Sheet, StartImport(w, sheet)
        PROVE  TagInv'
    <2> DEFINE j == [step |-> "row", rows |-> sheet]
    <2>1. job' = [job EXCEPT ![w] = j] /\ raced' = raced \ {w} /\ UNCHANGED <<known, tags, owed>>
      BY <1>1 DEF StartImport, StartJob
    <2>2. j \in RowJob
      BY ContactsAssumption DEF RowJob, SheetRow
    <2>3. j \notin ImportJob /\ j \notin FlowJob
      BY <2>2, JobKinds
    <2> HIDE DEF j
    <2>4. QED
      BY <1>a, <2>1, <2>2, <2>3, JobMoves
  <1>c. ASSUME NEW w \in Writer, NEW p \in Phone, p \in known,
               NEW j \in FlowJob, j.phone = p, j.added \subseteq j.new,
               tags[p] \ j.removed \subseteq j.new,
               StartJob(w, j), UNCHANGED <<known, tags, owed>>
        PROVE  TagInv'
    <2>1. job' = [job EXCEPT ![w] = j] /\ raced' = raced \ {w}
      BY <1>c DEF StartJob
    <2>2. QED
      BY <1>a, <1>b, <1>c, <2>1, JobMoves
  <1>2. ASSUME NEW w \in Writer, NEW p \in Phone, NEW t \in Tag, AddTag(w, p, t)
        PROVE  TagInv'
    <2> DEFINE j == [step |-> "write", phone |-> p, new |-> tags[p] \cup {t},
                     added |-> {t}, removed |-> {}]
    <2>1. p \in known /\ StartJob(w, j) /\ UNCHANGED <<known, tags, owed>>
      BY <1>2 DEF AddTag
    <2>2. /\ j \in FlowJob /\ j.phone = p /\ j.added \subseteq j.new
          /\ tags[p] \ j.removed \subseteq j.new
      BY <1>a DEF FlowJob
    <2> HIDE DEF j
    <2>3. QED
      BY <1>c, <2>1, <2>2
  <1>3. ASSUME NEW w \in Writer, NEW p \in Phone, NEW t \in Tag, RemoveTag(w, p, t)
        PROVE  TagInv'
    <2> DEFINE j == [step |-> "write", phone |-> p, new |-> tags[p] \ {t},
                     added |-> {}, removed |-> {t}]
    <2>1. p \in known /\ StartJob(w, j) /\ UNCHANGED <<known, tags, owed>>
      BY <1>3 DEF RemoveTag
    <2>2. /\ j \in FlowJob /\ j.phone = p /\ j.added \subseteq j.new
          /\ tags[p] \ j.removed \subseteq j.new
      BY <1>a DEF FlowJob
    <2> HIDE DEF j
    <2>3. QED
      BY <1>c, <2>1, <2>2
  <1>4. ASSUME NEW w \in Writer, SetTags(w)
        PROVE  TagInv'
    <2> DEFINE j == job[w]
    <2>1. Doing(w, "write") /\ "new" \in DOMAIN j
      BY <1>4 DEF SetTags
    <2>2. j \in FlowJob
      BY <1>a, <2>1, JobKinds DEF Doing
    <2>3. /\ j.phone \in Phone /\ j.new \in SUBSET Tag /\ j.added \in SUBSET Tag
          /\ j.removed \in SUBSET Tag
      BY <2>2 DEF FlowJob
    <2>4. /\ j.phone \in known /\ j.added \subseteq j.new
          /\ w \notin raced => tags[j.phone] \ j.removed \subseteq j.new
      BY <1>a, <2>2 DEF WriterInv
    <2>5. w \notin raced => owed[j.phone] \ j.removed \subseteq j.new
      BY <1>a, <2>3, <2>4
    <2>6. job' = [job EXCEPT ![w] = <<>>] /\ UNCHANGED known
      BY <1>4 DEF SetTags, JobDone
    <2>7. CASE WriteTags(w, j.phone, j.new, j.added, j.removed)
      BY <1>a, <2>3, <2>4, <2>5, <2>6, <2>7, WriteKeepsTags
    <2>8. CASE UNCHANGED <<tags, owed, raced>>
      BY <1>a, <1>b, <2>6, <2>8, JobMoves
    <2>9. QED
      BY <1>4, <2>7, <2>8 DEF SetTags
  <1>5. ASSUME NEW p \in Phone, UpsertFromWebhook(p)
        PROVE  TagInv'
    <2>1. known' = known \cup {p} /\ UNCHANGED <<tags, job, raced, owed>>
      BY <1>5 DEF UpsertFromWebhook
    <2>2. QED
      BY <1>a, <2>1 DEF TagInv, TagTypes, WriterInv
  <1>6. CASE UNCHANGED contactVars
    BY <1>6 DEF contactVars, TagInv, TagTypes, WriterInv
  <1>7. QED
    BY <1>1, <1>2, <1>3, <1>4, <1>5, <1>6, ImportKeepsTags DEF ContactsNext

\* A tag that an import or a flow gave a contact stays until it is removed, but
\* for writers that overlap, for any number of contacts, writers and sheets
\* (contact.service.ts: importCsv, flow.executor.ts: the tag nodes).
THEOREM TagsStay == ContactsSpec => []TagsKept
  <1>1. ContactsInit => TagInv
    BY JobKinds DEF ContactsInit, TagInv, TagTypes, WriterInv
  <1>2. TagInv => TagsKept
    BY DEF TagInv, TagsKept
  <1>3. QED
    BY <1>1, <1>2, TagStep, PTL DEF ContactsSpec

-----------------------------------------------------------------------------
(* Tables: characters, and the strings a text is made of. *)

Char == STRING \cup Special
Str == Seq(Char)

\* A function of the places from m on, and its equation.
LEMMA FromExists ==
  ASSUME NEW ss \in Seq(Str)
  PROVE  \E f \in [1 .. Len(ss) + 1 -> Str] :
            f = [i \in 1 .. Len(ss) + 1 |-> IF i > Len(ss) THEN <<>> ELSE ss[i] \o f[i + 1]]
  <1> DEFINE n == Len(ss)
             Good(m, f) == /\ f \in [m .. n + 1 -> Str] /\ f[n + 1] = <<>>
                           /\ \A i \in m .. n : f[i] = ss[i] \o f[i + 1]
             Bad == {m \in 1 .. n + 1 : ~ \E f : Good(m, f)}
  <1>1. n \in Nat /\ \A i \in 1 .. n : ss[i] \in Str
    BY LenProperties, ElementOfSeq
  <1> HIDE DEF n, Good
  <1>2. Bad = {}
    <2>1. SUFFICES ASSUME Bad # {}
                   PROVE  FALSE
      OBVIOUS
    <2>2. Bad \subseteq 1 .. n + 1 /\ n + 1 \in Nat
      BY <1>1
    <2>3. PICK m \in Bad : \A j \in Bad : j <= m
      <3> HIDE DEF Bad
      <3>1. QED
        BY <2>1, <2>2, LastOne
    <2>4. m \in 1 .. n + 1 /\ m \in Nat /\ ~ \E f : Good(m, f)
      BY <1>1, <2>3
    <2>5. CASE m = n + 1
      <3> DEFINE g == [i \in {n + 1} |-> <<>>]
      <3>1. g \in [n + 1 .. n + 1 -> Str] /\ g[n + 1] = <<>> /\ n + 1 .. n = {}
        <4>1. n + 1 .. n + 1 = {n + 1} /\ n + 1 .. n = {}
          BY <1>1
        <4>2. <<>> \in Str
          BY EmptySeq DEF Str
        <4>3. QED
          BY <4>1, <4>2
      <3> HIDE DEF g
      <3>2. Good(n + 1, g)
        BY <3>1 DEF Good
      <3>3. QED
        BY <2>4, <2>5, <3>2
    <2>6. CASE m # n + 1
      <3>1. m + 1 \in 1 .. n + 1 /\ m \in 1 .. n
        BY <1>1, <2>4, <2>6
      <3>2. m + 1 \notin Bad
        <4> HIDE DEF Bad
        <4>1. QED
          BY <2>3, <2>4
      <3>3. PICK f : Good(m + 1, f)
        BY <3>1, <3>2
      <3>4. /\ f \in [m + 1 .. n + 1 -> Str] /\ f[n + 1] = <<>>
            /\ \A i \in m + 1 .. n : f[i] = ss[i] \o f[i + 1]
        BY <3>3 DEF Good
      <3> DEFINE g == [i \in m .. n + 1 |-> IF i = m THEN ss[m] \o f[m + 1] ELSE f[i]]
      <3>5. f[m + 1] \in Str /\ ss[m] \o f[m + 1] \in Str
        BY <1>1, <3>1, <3>4, ConcatProperties DEF Str
      <3>6. ASSUME NEW i \in m .. n + 1
            PROVE  g[i] = (IF i = m THEN ss[m] \o f[m + 1] ELSE f[i]) /\ g[i] \in Str
        BY <1>1, <2>4, <3>4, <3>5
      <3>7. g \in [m .. n + 1 -> Str]
        BY <3>6
      <3>8. g[n + 1] = <<>>
        BY <1>1, <2>4, <2>6, <3>1, <3>4, <3>6
      <3> HIDE DEF g
      <3>9. ASSUME NEW i \in m .. n
            PROVE  g[i] = ss[i] \o g[i + 1]
        <4>1. i \in m .. n + 1 /\ i + 1 \in m .. n + 1 /\ i + 1 # m
          BY <1>1, <2>4, <3>9
        <4>2. g[i + 1] = f[i + 1]
          BY <3>6, <4>1
        <4>3. CASE i = m
          BY <3>6, <4>1, <4>2, <4>3
        <4>4. CASE i # m
          <5>1. i \in m + 1 .. n
            BY <1>1, <2>4, <3>9, <4>4
          <5>2. g[i] = f[i] /\ f[i] = ss[i] \o f[i + 1]
            BY <3>4, <3>6, <4>1, <4>4, <5>1
          <5>3. QED
            BY <4>2, <5>2
        <4>5. QED
          BY <4>3, <4>4
      <3>10. Good(m, g)
        BY <3>7, <3>8, <3>9 DEF Good
      <3>11. QED
        BY <2>4, <3>10
    <2>7. QED
      BY <2>5, <2>6
  <1>3. 1 \in 1 .. n + 1
    BY <1>1
  <1>4. PICK f : Good(1, f)
    BY <1>2, <1>3
  <1>5. /\ f \in [1 .. n + 1 -> Str] /\ f[n + 1] = <<>>
        /\ \A i \in 1 .. n : f[i] = ss[i] \o f[i + 1]
    BY <1>4 DEF Good
  <1>6. f = [i \in 1 .. n + 1 |-> IF i > n THEN <<>> ELSE ss[i] \o f[i + 1]]
    <2>1. ASSUME NEW i \in 1 .. n + 1
          PROVE  f[i] = IF i > n THEN <<>> ELSE ss[i] \o f[i + 1]
      <3>1. CASE i > n
        <4>1. i = n + 1
          BY <1>1, <3>1
        <4>2. QED
          BY <1>5, <3>1, <4>1
      <3>2. CASE ~ (i > n)
        <4>1. i \in 1 .. n
          BY <1>1, <3>2
        <4>2. QED
          BY <1>5, <3>2, <4>1
      <3>3. QED
        BY <3>1, <3>2
    <2>2. QED
      BY <1>5, <2>1
  <1>7. QED
    BY <1>5, <1>6 DEF n

\* What follows the i-th sequence is the next one and what follows that.
LEMMA FromUnfolds ==
  ASSUME NEW ss \in Seq(Str)
  PROVE  /\ From(ss)[Len(ss) + 1] = <<>>
         /\ \A i \in 1 .. Len(ss) + 1 : From(ss)[i] \in Str
         /\ \A i \in 1 .. Len(ss) : From(ss)[i] = ss[i] \o From(ss)[i + 1]
  <1> DEFINE f == From(ss)
             n == Len(ss)
  <1>1. n \in Nat /\ \A i \in 1 .. n : ss[i] \in Str
    BY LenProperties, ElementOfSeq
  <1>2. f = [i \in 1 .. n + 1 |-> IF i > n THEN <<>> ELSE ss[i] \o f[i + 1]]
    BY FromExists DEF From
  <1> HIDE DEF f, n
  <1> DEFINE Unfolded(i) == IF i > n THEN <<>> ELSE ss[i] \o f[i + 1]
  <1>a. \A i \in 1 .. n + 1 : f[i] = Unfolded(i)
    <2>1. f = [i \in 1 .. n + 1 |-> Unfolded(i)]
      BY <1>2
    <2> HIDE DEF Unfolded
    <2>2. QED
      BY <2>1
  <1>3. f[n + 1] = <<>>
    BY <1>1, <1>a
  <1>4. ASSUME NEW i \in 1 .. n
        PROVE  f[i] = ss[i] \o f[i + 1]
    <2>1. i \in 1 .. n + 1 /\ ~ (i > n)
      BY <1>1
    <2>2. f[i] = IF i > n THEN <<>> ELSE ss[i] \o f[i + 1]
      BY <1>a, <2>1
    <2>3. QED
      BY <2>1, <2>2
  <1>5. \A i \in 1 .. n + 1 : f[i] \in Str
    <2> DEFINE Bad == {i \in 1 .. n + 1 : f[i] \notin Str}
    <2>1. SUFFICES ASSUME Bad # {}
                   PROVE  FALSE
      OBVIOUS
    <2>2. PICK m \in Bad : \A j \in Bad : j <= m
      <3>1. Bad \subseteq 1 .. n + 1 /\ n + 1 \in Nat
        BY <1>1
      <3> HIDE DEF Bad
      <3>2. QED
        BY <2>1, <3>1, LastOne
    <2>3. m # n + 1
      BY <1>3, <2>2, EmptySeq DEF Str
    <2>4. m \in 1 .. n /\ m + 1 \in 1 .. n + 1 /\ m + 1 \notin Bad
      BY <1>1, <2>2, <2>3
    <2>5. f[m] = ss[m] \o f[m + 1] /\ ss[m] \in Str /\ f[m + 1] \in Str
      BY <1>1, <1>4, <2>4
    <2>6. f[m] \in Str
      BY <2>5, ConcatProperties DEF Str
    <2>7. QED
      BY <2>2, <2>6
  <1>6. QED
    BY <1>3, <1>4, <1>5 DEF f, n

-----------------------------------------------------------------------------
(* Tables: what is written. *)

\* Sequences by their places.
LEMMA Places ==
  ASSUME NEW S, NEW s \in Seq(S)
  PROVE  /\ Len(s) \in Nat /\ DOMAIN s = 1 .. Len(s) /\ \A k \in 1 .. Len(s) : s[k] \in S
         /\ s # <<>> => Len(s) # 0
  BY LenProperties, ElementOfSeq, EmptySeq

LEMMA Listed ==
  ASSUME NEW S, NEW n \in Nat, NEW f \in [1 .. n -> S]
  PROVE  f \in Seq(S) /\ Len(f) = n
  OBVIOUS

\* Strings are joined in any grouping.
LEMMA Joined ==
  /\ <<>> \in Str /\ "q" \in Char /\ "c" \in Char /\ "r" \in Char /\ "n" \in Char
  /\ <<"r", "n">> \in Str /\ <<"r", "n">> = <<"r">> \o <<"n">>
  /\ \A a \in Char : <<a>> \in Str /\ <<a, a>> \in Str /\ <<a, a>> = <<a>> \o <<a>>
  /\ \A s \in Str : <<>> \o s = s /\ s \o <<>> = s
  /\ \A s, u \in Str : s \o u \in Str
  /\ \A s, u, v \in Str : (s \o u) \o v = s \o (u \o v)
  <1>1. <<>> \in Str /\ \A s \in Str : <<>> \o s = s /\ s \o <<>> = s
    BY EmptySeq, ConcatEmptySeq DEF Str
  <1>2. \A a \in Char : <<a>> \in Str /\ <<a, a>> \in Str /\ <<a, a>> = <<a>> \o <<a>>
    BY DEF Str
  <1>3. \A s, u \in Str : s \o u \in Str
    BY ConcatProperties DEF Str
  <1>4. \A s, u, v \in Str : (s \o u) \o v = s \o (u \o v)
    BY ConcatAssociative DEF Str
  <1>5. "q" \in Char /\ "c" \in Char /\ "r" \in Char /\ "n" \in Char
    BY DEF Char, Special
  <1>6. <<"r", "n">> \in Str /\ <<"r", "n">> = <<"r">> \o <<"n">>
    BY <1>5 DEF Str
  <1>7. QED
    BY <1>1, <1>2, <1>3, <1>4, <1>5, <1>6

Grouped(s, u, v, w) == ((s \o u) \o v) \o w = s \o (u \o (v \o w))

LEMMA Regrouped ==
  ASSUME NEW s \in Str, NEW u \in Str, NEW v \in Str, NEW w \in Str
  PROVE  Grouped(s, u, v, w)
  <1>1. s \o u \in Str /\ v \o w \in Str
    BY Joined
  <1>2. \A a, b, c \in Str : (a \o b) \o c = a \o (b \o c)
    BY Joined
  <1> DEFINE su == s \o u
             vw == v \o w
  <1>3. (su \o v) \o w = su \o vw
    <2> HIDE DEF su
    <2>1. su \in Str
      BY <1>1 DEF su
    <2>2. QED
      BY <1>2, <2>1
  <1>4. su \o vw = s \o (u \o vw)
    <2> HIDE DEF vw
    <2>1. vw \in Str
      BY <1>1 DEF vw
    <2>2. QED
      BY <1>2, <2>1, Zenon
  <1>5. QED
    BY <1>3, <1>4 DEF Grouped

LEMMA FlatBegins ==
  ASSUME NEW ss \in Seq(Str)
  PROVE  /\ Flat(ss) \in Str
         /\ Len(ss) # 0 => Flat(ss) = ss[1] \o From(ss)[2]
  <1>1. Len(ss) \in Nat
    BY Places
  <1>2. 1 \in 1 .. Len(ss) + 1 /\ (Len(ss) # 0 => 1 \in 1 .. Len(ss))
    BY <1>1
  <1>3. From(ss)[1] \in Str
    BY <1>2, FromUnfolds
  <1>4. ASSUME Len(ss) # 0
        PROVE  From(ss)[1] = ss[1] \o From(ss)[2]
    <2>1. From(ss)[1] = ss[1] \o From(ss)[1 + 1]
      BY <1>2, <1>4, FromUnfolds
    <2>2. QED
      BY <2>1
  <1>5. QED
    BY <1>3, <1>4 DEF Flat

LEMMA FromStep ==
  ASSUME NEW ss \in Seq(Str), NEW n, Len(ss) = n, n \in Nat
  PROVE  /\ From(ss)[n + 1] = <<>>
         /\ \A i \in 1 .. n : From(ss)[i] \in Str /\ From(ss)[i + 1] \in Str
         /\ \A i \in 1 .. n : From(ss)[i] = ss[i] \o From(ss)[i + 1]
  <1>1. \A i \in 1 .. n : i \in 1 .. n + 1 /\ i + 1 \in 1 .. n + 1
    OBVIOUS
  <1>2. QED
    BY <1>1, FromUnfolds

EolOf(t, eol, last, i) == IF i < Len(t) \/ last THEN eol ELSE <<>>
LinesFrom(t, eol, last, i) == From(Lines(t, eol, last))[i]
AfterLine(t, eol, last, i) == EolOf(t, eol, last, i) \o LinesFrom(t, eol, last, i + 1)
AfterCell(t, eol, last, i, j) == From(Cells(t[i]))[j + 1] \o AfterLine(t, eol, last, i)

LEMMA CharsWritten ==
  ASSUME NEW s \in Str
  PROVE  /\ Chars(s) \in Seq(Str) /\ Len(Chars(s)) = Len(s) /\ Len(s) \in Nat
         /\ \A k \in 1 .. Len(s) :
               /\ s[k] \in Char
               /\ Chars(s)[k] = IF s[k] = "q" THEN <<"q", "q">> ELSE <<s[k]>>
         /\ Quote(s) \in Str /\ Cell(s) \in Str
         /\ Quote(s) = <<>> \/ Quote(s) = <<"q">>
         /\ Quote(s) = <<>> => \A k \in 1 .. Len(s) : s[k] \notin Special
  <1>1. Len(s) \in Nat /\ DOMAIN s = 1 .. Len(s) /\ \A k \in 1 .. Len(s) : s[k] \in Char
    BY Places DEF Str
  <1>2. ASSUME NEW a \in Char
        PROVE  <<a>> \in Str /\ <<a, a>> \in Str
    BY DEF Str
  <1>3. /\ Quote(s) = <<>> \/ Quote(s) = <<"q">>
        /\ Quote(s) = <<>> => \A k \in 1 .. Len(s) : s[k] \notin Special
    BY <1>1 DEF Quote
  <1>4. Quote(s) \in Str
    BY <1>2, <1>3, Joined
  <1>5. /\ Chars(s) \in [1 .. Len(s) -> Str]
        /\ \A k \in 1 .. Len(s) : Chars(s)[k] = IF s[k] = "q" THEN <<"q", "q">> ELSE <<s[k]>>
    BY <1>1, <1>2 DEF Chars
  <1>6. Chars(s) \in Seq(Str) /\ Len(Chars(s)) = Len(s)
    BY <1>1, <1>5, Listed
  <1>7. Flat(Chars(s)) \in Str
    BY <1>6, FlatBegins
  <1>8. Cell(s) \in Str
    BY <1>4, <1>7, Joined DEF Cell
  <1>9. QED
    BY <1>1, <1>3, <1>4, <1>5, <1>6, <1>8

LEMMA CellsWritten ==
  ASSUME NEW r \in Seq(Str)
  PROVE  /\ Cells(r) \in Seq(Str) /\ Len(Cells(r)) = Len(r) /\ Len(r) \in Nat
         /\ \A j \in 1 .. Len(r) :
               /\ r[j] \in Str
               /\ Cells(r)[j] = (IF j = 1 THEN <<>> ELSE <<"c">>) \o Cell(r[j])
  <1>1. Len(r) \in Nat /\ \A j \in 1 .. Len(r) : r[j] \in Str /\ Cell(r[j]) \in Str
    <2>1. Len(r) \in Nat /\ \A j \in 1 .. Len(r) : r[j] \in Str
      BY Places
    <2>2. QED
      BY <2>1, CharsWritten
  <1>2. <<>> \in Str /\ <<"c">> \in Str
    BY Joined
  <1>3. ASSUME NEW j \in 1 .. Len(r)
        PROVE  (IF j = 1 THEN <<>> ELSE <<"c">>) \o Cell(r[j]) \in Str
    BY <1>1, <1>2, Joined
  <1>4. /\ Cells(r) \in [1 .. Len(r) -> Str]
        /\ \A j \in 1 .. Len(r) :
              Cells(r)[j] = (IF j = 1 THEN <<>> ELSE <<"c">>) \o Cell(r[j])
    BY <1>3 DEF Cells
  <1>5. Cells(r) \in Seq(Str) /\ Len(Cells(r)) = Len(r)
    BY <1>1, <1>4, Listed
  <1>6. QED
    BY <1>1, <1>4, <1>5

LEMMA LinesWritten ==
  ASSUME NEW t \in Seq(Seq(Str)), NEW eol \in EndOfLine, NEW last \in BOOLEAN
  PROVE  /\ Lines(t, eol, last) \in Seq(Str) /\ Len(Lines(t, eol, last)) = Len(t)
         /\ Len(t) \in Nat
         /\ \A i \in 1 .. Len(t) :
               /\ t[i] \in Seq(Str) /\ Flat(Cells(t[i])) \in Str
               /\ Lines(t, eol, last)[i] = Flat(Cells(t[i])) \o EolOf(t, eol, last, i)
         /\ \A i : EolOf(t, eol, last, i) \in Str
  <1>1. Len(t) \in Nat /\ \A i \in 1 .. Len(t) : t[i] \in Seq(Str)
    BY Places
  <1>2. ASSUME NEW r \in Seq(Str)
        PROVE  Flat(Cells(r)) \in Str
    BY CellsWritten, FlatBegins
  <1>3. ASSUME NEW i
        PROVE  EolOf(t, eol, last, i) \in Str
    BY Joined DEF EolOf, EndOfLine
  <1>4. ASSUME NEW i \in 1 .. Len(t)
        PROVE  Flat(Cells(t[i])) \o EolOf(t, eol, last, i) \in Str
    <2>1. Flat(Cells(t[i])) \in Str
      BY <1>1, <1>2
    <2>2. QED
      BY <1>3, <2>1, Joined
  <1>5. /\ Lines(t, eol, last) \in [1 .. Len(t) -> Str]
        /\ \A i \in 1 .. Len(t) :
              Lines(t, eol, last)[i] = Flat(Cells(t[i])) \o EolOf(t, eol, last, i)
    <2>1. Lines(t, eol, last) = [i \in 1 .. Len(t) |-> Flat(Cells(t[i])) \o EolOf(t, eol, last, i)]
      BY DEF Lines, EolOf
    <2>2. QED
      BY <1>4, <2>1
  <1>6. Lines(t, eol, last) \in Seq(Str) /\ Len(Lines(t, eol, last)) = Len(t)
    BY <1>1, <1>5, Listed
  <1>7. QED
    BY <1>1, <1>2, <1>3, <1>5, <1>6

\* What follows has a type, and ends with the table.
LEMMA RestWritten ==
  ASSUME NEW t \in Seq(Seq(Str)), NEW eol \in EndOfLine, NEW last \in BOOLEAN
  PROVE  /\ LinesFrom(t, eol, last, Len(t) + 1) = <<>>
         /\ \A i \in 1 .. Len(t) + 1 : LinesFrom(t, eol, last, i) \in Str
         /\ \A i \in 1 .. Len(t) : AfterLine(t, eol, last, i) \in Str
         /\ \A i \in 1 .. Len(t) : \A j \in 1 .. Len(t[i]) :
               AfterCell(t, eol, last, i, j) \in Str
  <1>1. /\ LinesFrom(t, eol, last, Len(t) + 1) = <<>>
        /\ \A i \in 1 .. Len(t) + 1 : LinesFrom(t, eol, last, i) \in Str
    <2> DEFINE ls == Lines(t, eol, last)
    <2>1. ls \in Seq(Str) /\ Len(ls) = Len(t)
      BY LinesWritten
    <2> HIDE DEF ls
    <2>2. From(ls)[Len(t) + 1] = <<>> /\ \A i \in 1 .. Len(t) + 1 : From(ls)[i] \in Str
      BY <2>1, FromUnfolds
    <2>3. QED
      BY <2>2 DEF LinesFrom, ls
  <1>2. ASSUME NEW i \in 1 .. Len(t)
        PROVE  AfterLine(t, eol, last, i) \in Str
    <2>1. LinesFrom(t, eol, last, i + 1) \in Str /\ EolOf(t, eol, last, i) \in Str
      BY <1>1, LinesWritten
    <2>2. QED
      BY <2>1, Joined DEF AfterLine
  <1>3. ASSUME NEW i \in 1 .. Len(t), NEW j \in 1 .. Len(t[i])
        PROVE  AfterCell(t, eol, last, i, j) \in Str
    <2>1. t[i] \in Seq(Str) /\ Len(t[i]) \in Nat
      BY LinesWritten, CellsWritten
    <2>2. From(Cells(t[i]))[j + 1] \in Str
      <3> DEFINE cs == Cells(t[i])
      <3>1. cs \in Seq(Str) /\ Len(cs) = Len(t[i])
        BY <2>1, CellsWritten
      <3> HIDE DEF cs
      <3>2. From(cs)[j + 1] \in Str
        BY <2>1, <3>1, FromStep
      <3>3. QED
        BY <3>2 DEF cs
    <2>3. QED
      BY <1>2, <2>2, Joined DEF AfterCell
  <1>4. QED
    BY <1>1, <1>2, <1>3

\* A line begins with its first cell.
LEMMA LineBegins ==
  ASSUME NEW t \in Seq(Seq(Str)), NEW eol \in EndOfLine, NEW last \in BOOLEAN,
         NEW i \in 1 .. Len(t), t[i] # <<>>
  PROVE  1 \in 1 .. Len(t[i])
         /\ LinesFrom(t, eol, last, i) = Cell(t[i][1]) \o AfterCell(t, eol, last, i, 1)
  <1> DEFINE r == t[i]
             next == LinesFrom(t, eol, last, i + 1)
             more == From(Cells(r))[2]
             end == EolOf(t, eol, last, i)
  <1>1. /\ r \in Seq(Str) /\ Len(r) \in Nat \ {0} /\ 1 \in 1 .. Len(r)
        /\ r[1] \in Str /\ Cell(r[1]) \in Str
    BY LinesWritten, Places, CellsWritten, CharsWritten
  <1>2. next \in Str /\ end \in Str /\ more \in Str
    <2>1. i + 1 \in 1 .. Len(t) + 1
      BY LinesWritten
    <2>2. next \in Str /\ end \in Str
      BY <2>1, RestWritten, LinesWritten
    <2>3. more \in Str
      <3> DEFINE cs == Cells(r)
      <3>1. cs \in Seq(Str) /\ Len(cs) = Len(r)
        BY <1>1, CellsWritten
      <3> HIDE DEF cs
      <3>2. From(cs)[1 + 1] \in Str
        BY <1>1, <3>1, FromStep
      <3>3. QED
        BY <3>2 DEF cs
    <2>4. QED
      BY <2>2, <2>3
  <1>3. LinesFrom(t, eol, last, i) = (Flat(Cells(r)) \o end) \o next
    BY LinesWritten, FromUnfolds, Zenon DEF LinesFrom
  <1>4. Flat(Cells(r)) = Cell(r[1]) \o more
    <2>1. Flat(Cells(r)) = Cells(r)[1] \o From(Cells(r))[1 + 1]
      BY <1>1, CellsWritten, FromUnfolds DEF Flat
    <2>2. Cells(r)[1] = <<>> \o Cell(r[1])
      BY <1>1, CellsWritten
    <2>3. QED
      BY <1>1, <2>1, <2>2, Joined
  <1>5. AfterCell(t, eol, last, i, 1) = more \o (end \o next)
    BY DEF AfterCell, AfterLine
  <1> HIDE DEF r, next, more, end
  <1>6. ((Cell(r[1]) \o more) \o end) \o next = Cell(r[1]) \o (more \o (end \o next))
    <2>1. Grouped(Cell(r[1]), more, end, next)
      BY <1>1, <1>2, Regrouped
    <2>2. QED
      BY <2>1 DEF Grouped
  <1>7. QED
    BY <1>1, <1>3, <1>4, <1>5, <1>6 DEF r

\* A cell is followed by a comma and the next cell, or by the end of the line.
LEMMA CellEnds ==
  ASSUME NEW t \in Seq(Seq(Str)), NEW eol \in EndOfLine, NEW last \in BOOLEAN,
         NEW i \in 1 .. Len(t), NEW j \in 1 .. Len(t[i])
  PROVE  /\ j = Len(t[i]) => AfterCell(t, eol, last, i, j) = AfterLine(t, eol, last, i)
         /\ j # Len(t[i]) =>
               /\ j + 1 \in 1 .. Len(t[i])
               /\ AfterCell(t, eol, last, i, j) =
                    <<"c">> \o (Cell(t[i][j + 1]) \o AfterCell(t, eol, last, i, j + 1))
  <1> DEFINE r == t[i]
             after == AfterLine(t, eol, last, i)
             cs == From(Cells(r))
             n == Len(r)
  <1>1. /\ r \in Seq(Str) /\ Len(r) \in Nat /\ after \in Str
        /\ AfterCell(t, eol, last, i, j) = cs[j + 1] \o after
    BY LinesWritten, CellsWritten, RestWritten DEF AfterCell
  <1>a. /\ cs[n + 1] = <<>>
        /\ \A k \in 1 .. n : cs[k] \in Str /\ cs[k + 1] \in Str /\ cs[k] = Cells(r)[k] \o cs[k + 1]
    <2>1. Cells(r) \in Seq(Str) /\ Len(Cells(r)) = n /\ n \in Nat
      BY <1>1, CellsWritten
    <2> HIDE DEF n
    <2>2. QED
      BY <2>1, FromStep
  <1>2. CASE j = Len(t[i])
    <2>1. cs[j + 1] = <<>>
      BY <1>2, <1>a
    <2>2. QED
      BY <1>1, <1>2, <2>1, Joined
  <1>3. CASE j # Len(t[i])
    <2>1. j + 1 \in 1 .. Len(r) /\ j + 1 # 1
      BY <1>1, <1>3
    <2> DEFINE c == Cell(r[j + 1])
               more == cs[(j + 1) + 1]
    <2>2. cs[j + 1] = (<<"c">> \o c) \o more
      BY <1>1, <1>a, <2>1, CellsWritten
    <2>3. c \in Str /\ more \in Str /\ <<"c">> \in Str
      <3>1. r[j + 1] \in Str
        BY <1>1, <2>1, CellsWritten
      <3>2. c \in Str
        BY <3>1, CharsWritten
      <3>3. more \in Str
        BY <1>a, <2>1
      <3>4. QED
        BY <3>2, <3>3, Joined
    <2>4. AfterCell(t, eol, last, i, j + 1) = more \o after
      BY DEF AfterCell
    <2> HIDE DEF c, more, after
    <2>5. ((<<"c">> \o c) \o more) \o after = <<"c">> \o (c \o (more \o after))
      <3>1. Grouped(<<"c">>, c, more, after)
        BY <1>1, <2>3, Regrouped
      <3>2. QED
        BY <3>1 DEF Grouped
    <2>6. QED
      BY <1>1, <1>3, <2>1, <2>2, <2>4, <2>5 DEF c
  <1>4. QED
    BY <1>2, <1>3

\* What ends a line.
LEMMA LineEnds ==
  ASSUME NEW t \in Seq(Seq(Str)), NEW eol \in EndOfLine, NEW last \in BOOLEAN,
         NEW i \in 1 .. Len(t)
  PROVE  \/ i = Len(t) /\ AfterLine(t, eol, last, i) = <<>>
         \/ AfterLine(t, eol, last, i) = <<"n">> \o LinesFrom(t, eol, last, i + 1)
         \/ AfterLine(t, eol, last, i) =
              <<"r">> \o (<<"n">> \o LinesFrom(t, eol, last, i + 1))
  <1> DEFINE next == LinesFrom(t, eol, last, i + 1)
             end == EolOf(t, eol, last, i)
  <1>1. /\ Len(t) \in Nat /\ next \in Str
        /\ i = Len(t) => next = <<>>
        /\ AfterLine(t, eol, last, i) = end \o next
    <2>1. Len(t) \in Nat /\ i + 1 \in 1 .. Len(t) + 1
      BY Places
    <2>2. QED
      BY <2>1, RestWritten DEF AfterLine
  <1>2. \/ i = Len(t) /\ end = <<>>
        \/ end = <<"n">>
        \/ end = <<"r", "n">>
    <2>1. CASE i < Len(t) \/ last
      BY <2>1 DEF EolOf, EndOfLine
    <2>2. CASE ~ (i < Len(t) \/ last)
      BY <1>1, <2>2 DEF EolOf
    <2>3. QED
      BY <2>1, <2>2
  <1> HIDE DEF next, end
  <1>3. CASE i = Len(t) /\ end = <<>>
    BY <1>1, <1>3, Joined
  <1>4. CASE end = <<"n">>
    BY <1>1, <1>4 DEF next
  <1>5. CASE end = <<"r", "n">>
    <2>1. <<"r", "n">> = <<"r">> \o <<"n">> /\ <<"r">> \in Str /\ <<"n">> \in Str
      BY Joined
    <2>2. (<<"r">> \o <<"n">>) \o next = <<"r">> \o (<<"n">> \o next)
      BY <1>1, <2>1, Joined, Zenon
    <2>3. QED
      BY <1>1, <1>5, <2>1, <2>2 DEF next
  <1>6. QED
    BY <1>2, <1>3, <1>4, <1>5

\* No quote follows a cell.
LEMMA NoQuoteFollows ==
  ASSUME NEW t \in Seq(Seq(Str)), NEW eol \in EndOfLine, NEW last \in BOOLEAN,
         NEW i \in 1 .. Len(t), NEW j \in 1 .. Len(t[i])
  PROVE  \/ AfterCell(t, eol, last, i, j) = <<>>
         \/ \E b \in Char, x \in Str : b # "q" /\ AfterCell(t, eol, last, i, j) = <<b>> \o x
  <1> DEFINE next == LinesFrom(t, eol, last, i + 1)
             after == AfterCell(t, eol, last, i, j)
  <1>1. next \in Str /\ <<"n">> \o next \in Str
    <2>1. i + 1 \in 1 .. Len(t) + 1
      BY Places
    <2>2. QED
      BY <2>1, RestWritten, Joined
  <1>2. CASE j = Len(t[i])
    <2>1. \/ after = <<>> \/ after = <<"n">> \o next \/ after = <<"r">> \o (<<"n">> \o next)
      <3> DEFINE line == AfterLine(t, eol, last, i)
      <3>1. after = line
        BY <1>2, CellEnds
      <3>2. line = <<>> \/ line = <<"n">> \o next \/ line = <<"r">> \o (<<"n">> \o next)
        BY LineEnds
      <3> HIDE DEF line, after, next
      <3>3. QED
        BY <3>1, <3>2
    <2> HIDE DEF after, next
    <2>2. QED
      BY <1>1, <2>1, Joined DEF after
  <1>3. CASE j # Len(t[i])
    <2> DEFINE x == Cell(t[i][j + 1]) \o AfterCell(t, eol, last, i, j + 1)
    <2>1. j + 1 \in 1 .. Len(t[i]) /\ after = <<"c">> \o x
      BY <1>3, CellEnds
    <2>2. x \in Str
      <3>1. t[i][j + 1] \in Str
        BY <2>1, LinesWritten, CellsWritten
      <3>2. Cell(t[i][j + 1]) \in Str /\ AfterCell(t, eol, last, i, j + 1) \in Str
        BY <2>1, <3>1, CharsWritten, RestWritten
      <3>3. QED
        BY <3>2, Joined
    <2> HIDE DEF after, x
    <2>3. QED
      BY <2>1, <2>2, Joined DEF after
  <1>4. QED
    BY <1>2, <1>3

-----------------------------------------------------------------------------
(* Tables: what is read. *)

\* Before the quote that opens a cell; in the cell before its k-th character;
\* after it; and within the end of its line.
Opening(t, eol, last, i, j, u, q, left) ==
    /\ ~q /\ u = <<>> /\ Quote(t[i][j]) = <<"q">>
    /\ left = <<"q">> \o (From(Chars(t[i][j]))[1] \o
                            (Quote(t[i][j]) \o AfterCell(t, eol, last, i, j)))
Inside(t, eol, last, i, j, k, u, q, left) ==
    /\ q = (Quote(t[i][j]) # <<>>) /\ u = SubSeq(t[i][j], 1, k - 1)
    /\ left = From(Chars(t[i][j]))[k] \o (Quote(t[i][j]) \o AfterCell(t, eol, last, i, j))
CellClosed(t, eol, last, i, j, u, q, left) ==
    ~q /\ u = t[i][j] /\ left = AfterCell(t, eol, last, i, j)
Ending(t, eol, last, i, j, u, q, left) ==
    /\ ~q /\ u = t[i][j] /\ j = Len(t[i])
    /\ left = <<"n">> \o LinesFrom(t, eol, last, i + 1)

InCell(t, eol, last, i, j, u, q, left) ==
    \/ Opening(t, eol, last, i, j, u, q, left)
    \/ \E k \in 1 .. Len(t[i][j]) + 1 : Inside(t, eol, last, i, j, k, u, q, left)
    \/ CellClosed(t, eol, last, i, j, u, q, left)
    \/ Ending(t, eol, last, i, j, u, q, left)

\* Rows, cells and characters have been read as far as the text is.
Reading(t, eol, last, o, cs, u, q, left) ==
    \/ o = t /\ cs = <<>> /\ u = <<>> /\ ~q /\ left = <<>>
    \/ \E i \in 1 .. Len(t) : \E j \in 1 .. Len(t[i]) :
          /\ o = SubSeq(t, 1, i - 1) /\ cs = SubSeq(t[i], 1, j - 1)
          /\ InCell(t, eol, last, i, j, u, q, left)

Left == SubSeq(text, pos + 1, Len(text))

CsvAt(eol, last) ==
    /\ text \in Str /\ pos \in 0 .. Len(text) + 1
    /\ pos > Len(text) => out = table_
    /\ pos <= Len(text) => Reading(table_, eol, last, out, cells, cur, quoted, Left)

TableRec == {t \in Seq(Seq(Str)) :
                /\ \A i \in DOMAIN t : t[i] # <<>>
                /\ t # <<>> => t[Len(t)] # << <<>> >>}

CsvInv == table_ \in TableRec /\ \E eol \in EndOfLine, last \in BOOLEAN : CsvAt(eol, last)

\* One more element of a sequence has been read.
LEMMA OneMore ==
  ASSUME NEW S, NEW s \in Seq(S), NEW k \in 1 .. Len(s)
  PROVE  /\ Append(SubSeq(s, 1, k - 1), s[k]) = SubSeq(s, 1, k)
         /\ Append(SubSeq(s, 1, k - 1), s[k]) = SubSeq(s, 1, (k + 1) - 1)
         /\ SubSeq(s, 1, k - 1) \in Seq(S) /\ s[k] \in S
         /\ k = Len(s) => SubSeq(s, 1, k) = s
         /\ Len(SubSeq(s, 1, k - 1)) = k - 1
  <1>1. Len(s) \in Nat /\ s[k] \in S /\ \A m \in 1 .. Len(s) : s[m] \in S
    BY Places
  <1>2. SubSeq(s, 1, k - 1) \in Seq(S) /\ Len(SubSeq(s, 1, k - 1)) = k - 1
    <2>1. 1 \in Int /\ k - 1 \in Int /\ \A m \in 1 .. k - 1 : s[m] \in S
      BY <1>1
    <2>2. QED
      BY <1>1, <2>1, SubSeqProperties
  <1>3. SubSeq(s, 1, k) = SubSeq(s, 1, k - 1) \o <<s[k]>>
    <2>1. 1 \in 1 .. Len(s) /\ k \in 1 .. Len(s)
      BY <1>1
    <2>2. QED
      BY <2>1, SubSeqRecursiveSecond
  <1>4. Append(SubSeq(s, 1, k - 1), s[k]) = SubSeq(s, 1, k)
    BY <1>1, <1>2, <1>3, AppendIsConcat
  <1>5. (k + 1) - 1 = k
    BY <1>1
  <1>6. k = Len(s) => SubSeq(s, 1, k) = s
    BY SubSeqFull
  <1>7. QED
    BY <1>1, <1>2, <1>4, <1>5, <1>6

\* The next character of a text.
LEMMA NextChar ==
  ASSUME NEW x \in Str, NEW p \in 0 .. Len(x), NEW a \in Char, NEW more \in Str,
         SubSeq(x, p + 1, Len(x)) = <<a>> \o more
  PROVE  /\ p < Len(x) /\ x[p + 1] = a /\ p + 1 \in 0 .. Len(x)
         /\ SubSeq(x, (p + 1) + 1, Len(x)) = more
  <1> DEFINE n == Len(x)
  <1>1. n \in Nat /\ \A m \in 1 .. n : x[m] \in Char
    BY Places DEF Str
  <1>2. Len(<<a>> \o more) = 1 + Len(more) /\ Len(more) \in Nat /\ (<<a>> \o more)[1] = a
    <2>1. <<a>> \in Seq(Char) /\ more \in Seq(Char) /\ Len(<<a>>) = 1 /\ <<a>>[1] = a
      BY DEF Str
    <2>2. QED
      BY <2>1, Places, ConcatProperties
  <1>3. p < n
    <2>1. SUFFICES ASSUME ~ (p < n)
                   PROVE  FALSE
      OBVIOUS
    <2>2. n < p + 1 /\ p + 1 \in Int /\ n \in Int
      BY <1>1, <2>1
    <2>3. SubSeq(x, p + 1, n) = <<>>
      BY <2>2, SubSeqEmpty
    <2>4. Len(<<a>> \o more) = 0
      BY <2>3
    <2>5. QED
      BY <1>2, <2>4
  <1>4. p + 1 \in 1 .. n /\ n \in p + 1 .. n
    BY <1>1, <1>3
  <1>5. SubSeq(x, p + 1, n) = <<x[p + 1]>> \o SubSeq(x, (p + 1) + 1, n)
    BY <1>4, SubSeqRecursiveFirst DEF Str
  <1>6. SubSeq(x, (p + 1) + 1, n) \in Str
    <2>1. (p + 1) + 1 \in Int /\ n \in Int /\ \A m \in (p + 1) + 1 .. n : x[m] \in Char
      BY <1>1, <1>4
    <2>2. QED
      BY <2>1, SubSeqProperties DEF Str
  <1>7. x[p + 1] = a
    <2>1. x[p + 1] \in Char
      BY <1>1, <1>4
    <2> DEFINE b == x[p + 1]
               rest == SubSeq(x, (p + 1) + 1, n)
    <2>2. b \in Char /\ rest \in Str /\ <<a>> \o more = <<b>> \o rest
      BY <1>5, <1>6, <2>1
    <2> HIDE DEF b, rest
    <2>3. (<<b>> \o rest)[1] = b
      <3>1. <<b>> \in Seq(Char) /\ rest \in Seq(Char) /\ Len(<<b>>) = 1 /\ <<b>>[1] = b
        BY <2>2 DEF Str
      <3>2. QED
        BY <3>1, Places, ConcatProperties
    <2>4. QED
      BY <1>2, <2>2, <2>3 DEF b
  <1>8. SubSeq(x, (p + 1) + 1, n) = more
    <2> DEFINE rest == SubSeq(x, (p + 1) + 1, n)
    <2>1. rest \in Seq(Char) /\ more \in Seq(Char) /\ <<a>> \in Seq(Char) /\ <<a>> \o rest = <<a>> \o more
      BY <1>5, <1>6, <1>7 DEF Str
    <2> HIDE DEF rest
    <2>2. rest = more
      BY <2>1, ConcatSimplifications
    <2>3. QED
      BY <2>2 DEF rest
  <1>9. QED
    BY <1>1, <1>3, <1>4, <1>7, <1>8

LEMMA NoChar ==
  ASSUME NEW x \in Str, NEW p \in 0 .. Len(x), SubSeq(x, p + 1, Len(x)) = <<>>
  PROVE  p = Len(x)
  <1>1. Len(x) \in Nat /\ \A m \in 1 .. Len(x) : x[m] \in Char
    BY Places DEF Str
  <1>2. SUFFICES ASSUME p # Len(x)
                 PROVE  FALSE
    OBVIOUS
  <1>3. p + 1 \in Int /\ Len(x) \in Int /\ p + 1 <= Len(x) /\ \A m \in p + 1 .. Len(x) : x[m] \in Char
    BY <1>1, <1>2
  <1>4. Len(SubSeq(x, p + 1, Len(x))) = Len(x) - (p + 1) + 1
    BY <1>3, SubSeqProperties
  <1>5. Len(SubSeq(x, p + 1, Len(x))) = 0
    BY EmptySeq
  <1> DEFINE left == Len(SubSeq(x, p + 1, Len(x)))
  <1>6. left = Len(x) - (p + 1) + 1 /\ left = 0
    BY <1>4, <1>5
  <1> HIDE DEF left
  <1>7. QED
    BY <1>1, <1>3, <1>6

\* A step of the loop is outside or inside quotes.
LEMMA LoopSteps ==
  ASSUME text \in Str, pos < Len(text), pos \in Nat, CsvNext
  PROVE  /\ quoted => ReadQuoted
         /\ ~quoted => ReadPlain
  <1>1. Len(text) \in Nat
    BY Places DEF Str
  <1>2. ~LastRow
    BY <1>1 DEF LastRow
  <1>3. (quoted => ~ReadPlain) /\ (~quoted => ~ReadQuoted)
    BY Zenon DEF ReadPlain, ReadQuoted
  <1>4. QED
    BY <1>2, <1>3 DEF CsvNext

\* A step outside quotes, in quotes and at a quote; none is the end of the loop.
LEMMA PlainChar ==
  ASSUME text \in Str, pos \in 0 .. Len(text), NEW a \in Char, NEW more \in Str,
         Left = <<a>> \o more, ~quoted, CsvNext
  PROVE  /\ pos' = pos + 1 /\ pos' \in 0 .. Len(text) /\ Left' = more
         /\ text' = text /\ table_' = table_ /\ quoted' = (a = "q")
         /\ cur' = IF a \in {"c", "n"} THEN <<>>
                   ELSE IF a \in {"q", "r"} THEN cur ELSE Append(cur, a)
         /\ cells' = IF a = "c" THEN Append(cells, cur) ELSE IF a = "n" THEN <<>> ELSE cells
         /\ out' = IF a = "n" THEN Append(out, Append(cells, cur)) ELSE out
  <1>0. Len(text) \in Nat
    BY Places DEF Str
  <1>1. /\ pos < Len(text) /\ text[pos + 1] = a /\ pos + 1 \in 0 .. Len(text)
        /\ SubSeq(text, (pos + 1) + 1, Len(text)) = more
    BY NextChar DEF Left
  <1>2. ReadPlain /\ Ahead(1) = a
    BY <1>0, <1>1, LoopSteps DEF Ahead
  <1>3. pos' = pos + 1 /\ text' = text /\ table_' = table_
    BY <1>2 DEF ReadPlain
  <1>4. Left' = more
    BY <1>1, <1>3 DEF Left
  <1>5. /\ quoted' = (a = "q")
        /\ cur' = IF a \in {"c", "n"} THEN <<>>
                  ELSE IF a \in {"q", "r"} THEN cur ELSE Append(cur, a)
    BY <1>2 DEF ReadPlain
  <1>6. /\ cells' = IF a = "c" THEN Append(cells, cur) ELSE IF a = "n" THEN <<>> ELSE cells
        /\ out' = IF a = "n" THEN Append(out, Append(cells, cur)) ELSE out
    BY <1>2 DEF ReadPlain
  <1>7. QED
    BY <1>1, <1>3, <1>4, <1>5, <1>6

LEMMA QuotedChar ==
  ASSUME text \in Str, pos \in 0 .. Len(text), NEW a \in Char, NEW more \in Str,
         Left = <<a>> \o more, a # "q", quoted, CsvNext
  PROVE  /\ pos' \in 0 .. Len(text) /\ Left' = more /\ text' = text /\ table_' = table_
         /\ quoted' = quoted /\ cur' = Append(cur, a) /\ cells' = cells /\ out' = out
  <1>0. Len(text) \in Nat
    BY Places DEF Str
  <1>1. /\ pos < Len(text) /\ text[pos + 1] = a /\ pos + 1 \in 0 .. Len(text)
        /\ SubSeq(text, (pos + 1) + 1, Len(text)) = more
    BY NextChar DEF Left
  <1>2. ReadQuoted /\ Ahead(1) = a
    BY <1>0, <1>1, LoopSteps DEF Ahead
  <1>3. /\ pos' = pos + 1 /\ text' = text /\ table_' = table_
        /\ quoted' = quoted /\ cur' = Append(cur, a) /\ cells' = cells /\ out' = out
    BY <1>2 DEF ReadQuoted
  <1>4. Left' = more
    BY <1>1, <1>3 DEF Left
  <1>5. QED
    BY <1>1, <1>3, <1>4

LEMMA DoubledQuote ==
  ASSUME text \in Str, pos \in 0 .. Len(text), NEW more \in Str,
         Left = <<"q">> \o (<<"q">> \o more), quoted, CsvNext
  PROVE  /\ pos' \in 0 .. Len(text) /\ Left' = more /\ text' = text /\ table_' = table_
         /\ quoted' = quoted /\ cur' = Append(cur, "q") /\ cells' = cells /\ out' = out
  <1>0. Len(text) \in Nat /\ "q" \in Char /\ <<"q">> \o more \in Str
    BY Places, Joined DEF Str
  <1>1. /\ pos < Len(text) /\ text[pos + 1] = "q" /\ pos + 1 \in 0 .. Len(text)
        /\ SubSeq(text, (pos + 1) + 1, Len(text)) = <<"q">> \o more
    BY <1>0, NextChar DEF Left
  <1>2. /\ pos + 1 < Len(text) /\ text[(pos + 1) + 1] = "q"
        /\ (pos + 1) + 1 \in 0 .. Len(text)
        /\ SubSeq(text, ((pos + 1) + 1) + 1, Len(text)) = more
    <2>1. PICK a \in Char : a = "q"
      BY <1>0
    <2>2. PICK p \in 0 .. Len(text) : p = pos + 1
      BY <1>1
    <2>3. SubSeq(text, p + 1, Len(text)) = <<a>> \o more
      BY <1>1, <2>1, <2>2
    <2>4. /\ p < Len(text) /\ text[p + 1] = a /\ p + 1 \in 0 .. Len(text)
          /\ SubSeq(text, (p + 1) + 1, Len(text)) = more
      BY <2>3, NextChar
    <2>5. QED
      BY <2>1, <2>2, <2>4
  <1>3. (pos + 1) + 1 = pos + 2
    BY <1>0
  <1>4. ReadQuoted /\ Ahead(1) = "q" /\ Ahead(2) = "q"
    BY <1>0, <1>1, <1>2, <1>3, LoopSteps DEF Ahead
  <1>5. /\ pos' = pos + 2 /\ text' = text /\ table_' = table_
        /\ quoted' = quoted /\ cur' = Append(cur, "q") /\ cells' = cells /\ out' = out
    BY <1>4 DEF ReadQuoted
  <1>6. Left' = more
    BY <1>2, <1>3, <1>5 DEF Left
  <1>7. QED
    BY <1>2, <1>3, <1>5, <1>6

LEMMA ClosingQuote ==
  ASSUME text \in Str, pos \in 0 .. Len(text), NEW more \in Str,
         Left = <<"q">> \o more, quoted, CsvNext,
         more = <<>> \/ \E b \in Char, x \in Str : b # "q" /\ more = <<b>> \o x
  PROVE  /\ pos' \in 0 .. Len(text) /\ Left' = more /\ text' = text /\ table_' = table_
         /\ ~quoted' /\ cur' = cur /\ cells' = cells /\ out' = out
  <1>0. Len(text) \in Nat /\ "q" \in Char
    BY Places, Joined DEF Str
  <1>1. /\ pos < Len(text) /\ text[pos + 1] = "q" /\ pos + 1 \in 0 .. Len(text)
        /\ SubSeq(text, (pos + 1) + 1, Len(text)) = more
    <2>1. PICK a \in Char : a = "q"
      BY <1>0
    <2>2. SubSeq(text, pos + 1, Len(text)) = <<a>> \o more
      BY <2>1 DEF Left
    <2>3. QED
      BY <2>1, <2>2, NextChar
  <1>2. Ahead(2) # "q"
    <2>1. CASE more = <<>>
      <3>1. pos + 1 = Len(text)
        BY <1>1, <2>1, NoChar
      <3>2. QED
        BY <1>0, <1>1, <3>1 DEF Ahead
    <2>2. CASE more # <<>>
      <3>1. PICK b \in Char, x \in Str : b # "q" /\ more = <<b>> \o x
        BY <2>2
      <3>2. text[(pos + 1) + 1] = b /\ pos + 1 < Len(text)
        BY <1>1, <3>1, NextChar
      <3>3. (pos + 1) + 1 = pos + 2
        BY <1>0
      <3>4. QED
        BY <1>0, <1>1, <3>1, <3>2, <3>3 DEF Ahead
    <2>3. QED
      BY <2>1, <2>2
  <1>3. ReadQuoted /\ Ahead(1) = "q"
    BY <1>0, <1>1, LoopSteps DEF Ahead
  <1>4. /\ pos' = pos + 1 /\ text' = text /\ table_' = table_
        /\ ~quoted' /\ cur' = cur /\ cells' = cells /\ out' = out
    BY <1>2, <1>3 DEF ReadQuoted
  <1>5. Left' = more
    BY <1>1, <1>4 DEF Left
  <1>6. QED
    BY <1>1, <1>4, <1>5

LEMMA LoopEnds ==
  ASSUME text \in Str, pos \in 0 .. Len(text), Left = <<>>, CsvNext
  PROVE  LastRow
  <1>1. pos = Len(text) /\ Len(text) \in Nat
    BY NoChar, Places DEF Left, Str
  <1>2. QED
    BY <1>1 DEF CsvNext, ReadQuoted, ReadPlain

-----------------------------------------------------------------------------
(* Tables: how far the parser is. *)

\* The text of a cell and what follows it.
LEMMA CellBegins ==
  ASSUME NEW t \in Seq(Seq(Str)), NEW eol \in EndOfLine, NEW last \in BOOLEAN,
         NEW i \in 1 .. Len(t), NEW j \in 1 .. Len(t[i]), NEW q, q = FALSE,
         NEW left, left = Cell(t[i][j]) \o AfterCell(t, eol, last, i, j)
  PROVE  InCell(t, eol, last, i, j, <<>>, q, left)
  <1> DEFINE s == t[i][j]
             after == AfterCell(t, eol, last, i, j)
             body == Flat(Chars(s))
             qt == Quote(s)
  <1>1. s \in Str /\ after \in Str /\ Len(s) \in Nat
    <2>1. s \in Str
      BY LinesWritten, CellsWritten
    <2>2. QED
      BY <2>1, RestWritten, CharsWritten
  <1>2. qt \in Str /\ (qt = <<>> \/ qt = <<"q">>) /\ body \in Str /\ Chars(s) \in Seq(Str)
    BY <1>1, CharsWritten, FlatBegins
  <1>3. left = (qt \o (body \o qt)) \o after
    BY DEF Cell
  <1>4. (qt \o (body \o qt)) \o after = qt \o (body \o (qt \o after))
    <2> HIDE DEF qt, body, after
    <2>1. \A a, b, c \in Str : (a \o b) \o c = a \o (b \o c)
      BY Joined
    <2> DEFINE bq == body \o qt
    <2>2. bq \in Str
      BY <1>2, Joined
    <2>3. bq \o after = body \o (qt \o after)
      BY <1>1, <1>2, <2>1
    <2>4. (qt \o bq) \o after = qt \o (bq \o after)
      <3> HIDE DEF bq
      <3>1. QED
        BY <1>1, <1>2, <2>1, <2>2, Zenon
    <2>5. QED
      BY <2>3, <2>4
  <1>5. body = From(Chars(s))[1]
    BY DEF Flat
  <1>6. CASE qt = <<"q">>
    <2>1. Opening(t, eol, last, i, j, <<>>, q, left)
      BY <1>3, <1>4, <1>5, <1>6, Zenon DEF Opening
    <2>2. QED
      BY <2>1 DEF InCell
  <1>7. CASE qt = <<>>
    <2>1. left = body \o (qt \o after)
      <3> DEFINE x == body \o (qt \o after)
      <3>1. x \in Str
        BY <1>1, <1>2, Joined
      <3>2. left = qt \o x
        BY <1>3, <1>4
      <3> HIDE DEF x, qt
      <3>3. left = x
        BY <1>7, <3>1, <3>2, Joined
      <3>4. QED
        BY <3>3 DEF x, qt
    <2>2. SubSeq(s, 1, 1 - 1) = <<>> /\ 1 \in 1 .. Len(s) + 1
      BY <1>1, SubSeqEmpty
    <2>3. Inside(t, eol, last, i, j, 1, <<>>, q, left)
      BY <1>5, <1>7, <2>1, <2>2 DEF Inside
    <2>4. QED
      BY <2>2, <2>3 DEF InCell
  <1>8. QED
    BY <1>2, <1>6, <1>7

\* What follows a line: the next one, or nothing.
LEMMA NextLine ==
  ASSUME NEW t \in TableRec, NEW eol \in EndOfLine, NEW last \in BOOLEAN,
         NEW i \in 0 .. Len(t), NEW q, q = FALSE
  PROVE  Reading(t, eol, last, SubSeq(t, 1, i), <<>>, <<>>, q, LinesFrom(t, eol, last, i + 1))
  <1>1. t \in Seq(Seq(Str)) /\ Len(t) \in Nat
    BY Places DEF TableRec
  <1>2. CASE i = Len(t)
    <2>1. SubSeq(t, 1, i) = t /\ LinesFrom(t, eol, last, i + 1) = <<>>
      BY <1>1, <1>2, SubSeqFull, RestWritten
    <2>2. QED
      BY <2>1 DEF Reading
  <1>3. CASE i # Len(t)
    <2>1. i + 1 \in 1 .. Len(t) /\ (i + 1) - 1 = i
      BY <1>1, <1>3
    <2>2. t[i + 1] # <<>>
      BY <1>1, <2>1, Places DEF TableRec
    <2> DEFINE m == i + 1
               left == LinesFrom(t, eol, last, m)
    <2>3. 1 \in 1 .. Len(t[m]) /\ left = Cell(t[m][1]) \o AfterCell(t, eol, last, m, 1)
      BY <1>1, <2>1, <2>2, LineBegins
    <2>4. InCell(t, eol, last, m, 1, <<>>, q, left)
      BY <1>1, <2>1, <2>3, CellBegins
    <2>5. SubSeq(t[m], 1, 1 - 1) = <<>> /\ SubSeq(t, 1, i) = SubSeq(t, 1, m - 1)
      BY <2>1, SubSeqEmpty
    <2> HIDE DEF m, left
    <2>6. Reading(t, eol, last, SubSeq(t, 1, i), <<>>, <<>>, q, left)
      BY <2>1, <2>3, <2>4, <2>5 DEF Reading, m
    <2>7. QED
      BY <2>6 DEF left, m
  <1>4. QED
    BY <1>2, <1>3

\* A step that reads on, in table t.
Reads(t, eol, last) ==
    /\ text' = text /\ table_' = t /\ pos' \in 0 .. Len(text)
    /\ Reading(t, eol, last, out', cells', cur', quoted', Left')

\* The last step.
Finishes(t) == pos' = Len(text) + 1 /\ out' = t /\ text' = text /\ table_' = t

\* The parser is in the j-th cell of the i-th row.
AtCell(t, eol, last, i, j) ==
    /\ text \in Str /\ pos \in 0 .. Len(text) /\ table_ = t
    /\ t \in TableRec /\ eol \in EndOfLine /\ last \in BOOLEAN
    /\ i \in 1 .. Len(t) /\ j \in 1 .. Len(t[i])
    /\ out = SubSeq(t, 1, i - 1) /\ cells = SubSeq(t[i], 1, j - 1)

\* The rest of a cell, character by character.
Written(s) ==
    /\ From(Chars(s))[Len(s) + 1] = <<>>
    /\ \A k \in 1 .. Len(s) + 1 : From(Chars(s))[k] \in Str
    /\ \A k \in 1 .. Len(s) : From(Chars(s))[k] = Chars(s)[k] \o From(Chars(s))[k + 1]

\* The parts of a cell are strings.
LEMMA CellParts ==
  ASSUME NEW t, NEW eol, NEW last, NEW i, NEW j, AtCell(t, eol, last, i, j)
  PROVE  /\ t \in Seq(Seq(Str)) /\ Len(t) \in Nat /\ t[i] \in Seq(Str) /\ Len(t[i]) \in Nat
         /\ t[i][j] \in Str /\ Len(t[i][j]) \in Nat /\ Quote(t[i][j]) \in Str
         /\ AfterCell(t, eol, last, i, j) \in Str
         /\ Quote(t[i][j]) \o AfterCell(t, eol, last, i, j) \in Str
         /\ Written(t[i][j])
  <1>1. t \in Seq(Seq(Str)) /\ eol \in EndOfLine /\ last \in BOOLEAN /\ i \in 1 .. Len(t) /\ j \in 1 .. Len(t[i])
    BY DEF AtCell, TableRec
  <1>2. Len(t) \in Nat /\ t[i] \in Seq(Str)
    BY <1>1, Places
  <1>3. Len(t[i]) \in Nat /\ t[i][j] \in Str
    BY <1>1, <1>2, Places
  <1> DEFINE s == t[i][j]
             cs == Chars(s)
             after == AfterCell(t, eol, last, i, j)
             qt == Quote(s)
  <1>4. after \in Str
    BY <1>1, RestWritten
  <1>5. Len(s) \in Nat /\ qt \in Str /\ cs \in Seq(Str) /\ Len(cs) = Len(s)
    BY <1>3, CharsWritten
  <1>6. Written(s)
    <2> HIDE DEF s
    <2>1. /\ From(cs)[Len(s) + 1] = <<>>
          /\ \A k \in 1 .. Len(s) + 1 : From(cs)[k] \in Str
          /\ \A k \in 1 .. Len(s) : From(cs)[k] = cs[k] \o From(cs)[k + 1]
      <3> HIDE DEF cs
      <3>1. QED
        BY <1>5, FromUnfolds
    <2>2. QED
      BY <2>1 DEF Written
  <1>7. qt \o after \in Str
    <2> HIDE DEF qt, after
    <2>1. QED
      BY <1>4, <1>5, Joined
  <1>8. QED
    BY <1>1, <1>2, <1>3, <1>4, <1>5, <1>6, <1>7

LEMMA OpeningRead ==
  ASSUME NEW t, NEW eol, NEW last, NEW i, NEW j, AtCell(t, eol, last, i, j),
         Opening(t, eol, last, i, j, cur, quoted, Left), CsvNext
  PROVE  Reads(t, eol, last)
  <1> DEFINE s == t[i][j]
             more == From(Chars(s))[1] \o (Quote(s) \o AfterCell(t, eol, last, i, j))
  <1>1. /\ text \in Str /\ pos \in 0 .. Len(text) /\ table_ = t
        /\ i \in 1 .. Len(t) /\ j \in 1 .. Len(t[i])
        /\ out = SubSeq(t, 1, i - 1) /\ cells = SubSeq(t[i], 1, j - 1)
    BY DEF AtCell
  <1>2. ~quoted /\ cur = <<>> /\ Quote(s) = <<"q">> /\ Left = <<"q">> \o more
    BY DEF Opening
  <1>3. more \in Str /\ 1 \in 1 .. Len(s) + 1 /\ Len(s) \in Nat
    <2> DEFINE rest == Quote(s) \o AfterCell(t, eol, last, i, j)
    <2>a. Len(s) \in Nat /\ rest \in Str
      BY CellParts
    <2>1. 1 \in 1 .. Len(s) + 1
      BY <2>a
    <2>2. From(Chars(s))[1] \in Str
      BY <2>1, CellParts DEF Written
    <2> HIDE DEF rest
    <2>3. From(Chars(s))[1] \o rest \in Str
      BY <2>a, <2>2, Joined
    <2>4. QED
      BY <2>a, <2>1, <2>3 DEF rest
  <1> HIDE DEF more
  <1>4. PICK a \in Char : a = "q"
    BY Joined
  <1>5. /\ text' = text /\ table_' = table_ /\ pos' \in 0 .. Len(text) /\ Left' = more
        /\ quoted' = TRUE /\ cur' = cur /\ cells' = cells /\ out' = out
    BY <1>1, <1>2, <1>3, <1>4, PlainChar
  <1>6. SubSeq(s, 1, 1 - 1) = <<>>
    BY <1>3, SubSeqEmpty
  <1>7. Inside(t, eol, last, i, j, 1, cur', quoted', Left')
    <2>1. quoted' = (Quote(s) # <<>>)
      <3>1. Quote(s) # <<>>
        BY <1>2
      <3>2. quoted' = TRUE
        BY <1>5
      <3>3. QED
        BY <3>1, <3>2, Zenon
    <2>2. cur' = SubSeq(s, 1, 1 - 1)
      BY <1>2, <1>5, <1>6
    <2>3. Left' = From(Chars(s))[1] \o (Quote(s) \o AfterCell(t, eol, last, i, j))
      BY <1>5 DEF more
    <2>4. QED
      BY <2>1, <2>2, <2>3, Zenon DEF Inside
  <1>8. InCell(t, eol, last, i, j, cur', quoted', Left')
    BY <1>3, <1>7 DEF InCell
  <1>9. QED
    BY <1>1, <1>5, <1>8 DEF Reads, Reading

\* A character of the cell has been read.
LEMMA CharRead ==
  ASSUME NEW t, NEW eol, NEW last, NEW i, NEW j, AtCell(t, eol, last, i, j),
         NEW k \in 1 .. Len(t[i][j]), NEW more,
         more = From(Chars(t[i][j]))[k + 1] \o (Quote(t[i][j]) \o AfterCell(t, eol, last, i, j)),
         quoted = (Quote(t[i][j]) # <<>>), cur = SubSeq(t[i][j], 1, k - 1),
         pos' \in 0 .. Len(text), Left' = more, text' = text, table_' = table_,
         quoted' = quoted, cur' = Append(cur, t[i][j][k]), cells' = cells, out' = out
  PROVE  Reads(t, eol, last)
  <1> DEFINE s == t[i][j]
  <1>1. /\ text \in Str /\ pos \in 0 .. Len(text) /\ table_ = t
        /\ i \in 1 .. Len(t) /\ j \in 1 .. Len(t[i])
        /\ out = SubSeq(t, 1, i - 1) /\ cells = SubSeq(t[i], 1, j - 1)
    BY DEF AtCell
  <1>2. s \in Seq(Char) /\ Len(s) \in Nat
    BY CellParts DEF Str
  <1>3. k + 1 \in 1 .. Len(s) + 1
    BY <1>2
  <1>4. cur' = SubSeq(s, 1, (k + 1) - 1)
    BY <1>2, OneMore
  <1>5. Inside(t, eol, last, i, j, k + 1, cur', quoted', Left')
    BY <1>4 DEF Inside
  <1>6. InCell(t, eol, last, i, j, cur', quoted', Left')
    BY <1>3, <1>5 DEF InCell
  <1>7. QED
    BY <1>1, <1>6 DEF Reads, Reading

\* The line ends after its last cell.
LEMMA EndingRead ==
  ASSUME NEW t, NEW eol, NEW last, NEW i, NEW j, AtCell(t, eol, last, i, j),
         Ending(t, eol, last, i, j, cur, quoted, Left), CsvNext
  PROVE  Reads(t, eol, last)
  <1> DEFINE more == LinesFrom(t, eol, last, i + 1)
             r == t[i]
  <1>1. /\ text \in Str /\ pos \in 0 .. Len(text) /\ table_ = t
        /\ t \in TableRec /\ eol \in EndOfLine /\ last \in BOOLEAN
        /\ i \in 1 .. Len(t) /\ j \in 1 .. Len(r)
        /\ out = SubSeq(t, 1, i - 1) /\ cells = SubSeq(r, 1, j - 1)
    BY DEF AtCell
  <1>2. ~quoted /\ cur = r[j] /\ j = Len(r) /\ Left = <<"n">> \o more
    BY DEF Ending
  <1>3. t \in Seq(Seq(Str)) /\ Len(t) \in Nat /\ r \in Seq(Str) /\ Len(r) \in Nat
    BY CellParts
  <1>4. more \in Str
    <2>1. i + 1 \in 1 .. Len(t) + 1
      BY <1>1, <1>3
    <2>2. QED
      BY <1>1, <1>3, <2>1, RestWritten
  <1> HIDE DEF more
  <1>5. PICK a \in Char : a = "n"
    BY Joined
  <1>6. /\ text' = text /\ table_' = table_ /\ pos' \in 0 .. Len(text) /\ Left' = more
        /\ quoted' = FALSE /\ cur' = <<>> /\ cells' = <<>>
        /\ out' = Append(out, Append(cells, cur))
    BY <1>1, <1>2, <1>4, <1>5, PlainChar
  <1>7. out' = SubSeq(t, 1, i)
    <2>1. Append(cells, cur) = r
      BY <1>1, <1>2, <1>3, OneMore
    <2>2. Append(out, r) = SubSeq(t, 1, i)
      BY <1>1, <1>3, OneMore
    <2>3. QED
      BY <1>6, <2>1, <2>2
  <1>8. i \in 0 .. Len(t)
    BY <1>1, <1>3
  <1>9. Reading(t, eol, last, SubSeq(t, 1, i), <<>>, <<>>, quoted', more)
    BY <1>1, <1>6, <1>8, NextLine DEF more
  <1>10. Reading(t, eol, last, out', cells', cur', quoted', Left')
    BY <1>6, <1>7, <1>9
  <1>11. QED
    BY <1>1, <1>6, <1>10 DEF Reads

\* After a cell come the next one, the end of the line or the end of the text.
LEMMA ClosedRead ==
  ASSUME NEW t, NEW eol, NEW last, NEW i, NEW j, AtCell(t, eol, last, i, j),
         CellClosed(t, eol, last, i, j, cur, quoted, Left), CsvNext
  PROVE  Reads(t, eol, last) \/ Finishes(t)
  <1> DEFINE r == t[i]
             after == AfterCell(t, eol, last, i, j)
             next == LinesFrom(t, eol, last, i + 1)
  <1>1. /\ text \in Str /\ pos \in 0 .. Len(text) /\ table_ = t
        /\ t \in TableRec /\ eol \in EndOfLine /\ last \in BOOLEAN
        /\ i \in 1 .. Len(t) /\ j \in 1 .. Len(r)
        /\ out = SubSeq(t, 1, i - 1) /\ cells = SubSeq(r, 1, j - 1)
    BY DEF AtCell
  <1>2. ~quoted /\ cur = r[j] /\ Left = after
    BY DEF CellClosed
  <1>3. t \in Seq(Seq(Str)) /\ Len(t) \in Nat /\ r \in Seq(Str) /\ Len(r) \in Nat
    BY CellParts
  <1>4. CASE j # Len(r)
    <2> DEFINE x == Cell(r[j + 1]) \o AfterCell(t, eol, last, i, j + 1)
    <2>1. j + 1 \in 1 .. Len(r) /\ after = <<"c">> \o x
      BY <1>1, <1>3, <1>4, CellEnds
    <2>2. x \in Str
      <3>1. r[j + 1] \in Str
        BY <1>3, <2>1, CellsWritten
      <3>2. Cell(r[j + 1]) \in Str /\ AfterCell(t, eol, last, i, j + 1) \in Str
        BY <1>1, <1>3, <2>1, <3>1, CharsWritten, RestWritten
      <3>3. QED
        BY <3>2, Joined
    <2> HIDE DEF x
    <2>3. PICK a \in Char : a = "c"
      BY Joined
    <2>4. Left = <<a>> \o x
      BY <1>2, <2>1, <2>3
    <2>5. /\ text' = text /\ table_' = table_ /\ pos' \in 0 .. Len(text) /\ Left' = x
          /\ quoted' = FALSE /\ cur' = <<>> /\ cells' = Append(cells, cur) /\ out' = out
      BY <1>1, <1>2, <2>2, <2>3, <2>4, PlainChar
    <2>6. InCell(t, eol, last, i, j + 1, <<>>, quoted', Left')
      BY <1>1, <1>3, <2>1, <2>5, CellBegins DEF x
    <2>7. cells' = SubSeq(r, 1, (j + 1) - 1)
      BY <1>1, <1>2, <1>3, <2>5, OneMore
    <2>8. Reading(t, eol, last, out', cells', cur', quoted', Left')
      BY <1>1, <2>1, <2>5, <2>6, <2>7 DEF Reading
    <2>9. QED
      BY <1>1, <2>5, <2>8 DEF Reads
  <1>5. CASE j = Len(r)
    <2>1. \/ i = Len(t) /\ after = <<>>
          \/ after = <<"n">> \o next
          \/ after = <<"r">> \o (<<"n">> \o next)
      <3> DEFINE line == AfterLine(t, eol, last, i)
      <3>1. after = line
        BY <1>1, <1>3, <1>5, CellEnds
      <3>2. \/ i = Len(t) /\ line = <<>>
            \/ line = <<"n">> \o next
            \/ line = <<"r">> \o (<<"n">> \o next)
        BY <1>1, <1>3, LineEnds
      <3> HIDE DEF line, after, next
      <3>3. QED
        BY <3>1, <3>2
    <2>2. CASE i = Len(t) /\ after = <<>>
      <3>1. LastRow /\ Len(text) \in Nat
        BY <1>1, <1>2, <2>2, LoopEnds, Places DEF Str
      <3>2. Append(cells, cur) = r /\ Append(out, r) = t /\ Len(cells) = j - 1
        BY <1>1, <1>2, <1>3, <1>5, <2>2, OneMore, Zenon
      <3>3. cur # <<>> \/ cells # <<>>
        <4>1. SUFFICES ASSUME cur = <<>>, cells = <<>>
                       PROVE  FALSE
          OBVIOUS
        <4>2. r = << <<>> >>
          BY <3>2, <4>1
        <4>3. t # <<>> /\ r = t[Len(t)]
          BY <1>1, <1>3, <2>2
        <4>4. QED
          BY <1>1, <4>2, <4>3 DEF TableRec
      <3>4. pos' = Len(text) + 1 /\ out' = t /\ text' = text /\ table_' = table_
        BY <3>1, <3>2, <3>3 DEF LastRow
      <3>5. QED
        BY <1>1, <3>4 DEF Finishes
    <2>3. CASE after = <<"n">> \o next
      <3>1. Ending(t, eol, last, i, j, cur, quoted, Left)
        BY <1>2, <1>5, <2>3 DEF Ending
      <3>2. QED
        BY <3>1, EndingRead
    <2>4. CASE after = <<"r">> \o (<<"n">> \o next)
      <3> DEFINE more == <<"n">> \o next
      <3>1. more \in Str
        <4>1. i + 1 \in 1 .. Len(t) + 1
          BY <1>1, <1>3
        <4>2. QED
          BY <1>1, <1>3, <4>1, RestWritten, Joined
      <3>2. Left = <<"r">> \o more
        BY <1>2, <2>4
      <3> HIDE DEF more
      <3>3. PICK a \in Char : a = "r"
        BY Joined
      <3>4. /\ text' = text /\ table_' = table_ /\ pos' \in 0 .. Len(text) /\ Left' = more
            /\ quoted' = FALSE /\ cur' = cur /\ cells' = cells /\ out' = out
        BY <1>1, <1>2, <3>1, <3>2, <3>3, PlainChar
      <3>5. Ending(t, eol, last, i, j, cur', quoted', Left')
        BY <1>2, <1>5, <3>4 DEF Ending, more
      <3>6. InCell(t, eol, last, i, j, cur', quoted', Left')
        BY <3>5 DEF InCell
      <3>7. Reading(t, eol, last, out', cells', cur', quoted', Left')
        BY <1>1, <3>4, <3>6 DEF Reading
      <3>8. QED
        BY <1>1, <3>4, <3>7 DEF Reads
    <2>5. QED
      BY <2>1, <2>2, <2>3, <2>4
  <1>6. QED
    BY <1>4, <1>5

LEMMA InsideRead ==
  ASSUME NEW t, NEW eol, NEW last, NEW i, NEW j, AtCell(t, eol, last, i, j),
         NEW k \in 1 .. Len(t[i][j]) + 1,
         Inside(t, eol, last, i, j, k, cur, quoted, Left), CsvNext
  PROVE  Reads(t, eol, last) \/ Finishes(t)
  <1> DEFINE s == t[i][j]
             qt == Quote(s)
             after == AfterCell(t, eol, last, i, j)
             rest == qt \o after
             cs == From(Chars(s))
  <1>1. /\ text \in Str /\ pos \in 0 .. Len(text) /\ table_ = t
        /\ t \in TableRec /\ eol \in EndOfLine /\ last \in BOOLEAN
        /\ i \in 1 .. Len(t) /\ j \in 1 .. Len(t[i])
        /\ out = SubSeq(t, 1, i - 1) /\ cells = SubSeq(t[i], 1, j - 1)
    BY DEF AtCell
  <1>2. quoted = (qt # <<>>) /\ cur = SubSeq(s, 1, k - 1) /\ Left = cs[k] \o rest
    BY DEF Inside
  <1>3. /\ t \in Seq(Seq(Str)) /\ s \in Str /\ Len(s) \in Nat /\ after \in Str /\ rest \in Str
        /\ cs[Len(s) + 1] = <<>>
        /\ \A m \in 1 .. Len(s) + 1 : cs[m] \in Str
        /\ \A m \in 1 .. Len(s) : cs[m] = Chars(s)[m] \o cs[m + 1]
    <2>1. t \in Seq(Seq(Str)) /\ s \in Str /\ Len(s) \in Nat /\ after \in Str /\ rest \in Str
      BY CellParts
    <2>2. Written(s)
      BY CellParts
    <2> HIDE DEF after, rest, s
    <2>3. QED
      BY <2>1, <2>2 DEF Written
  <1>4. /\ qt = <<>> \/ qt = <<"q">>
        /\ qt = <<>> => \A m \in 1 .. Len(s) : s[m] \notin Special
        /\ \A m \in 1 .. Len(s) :
              /\ s[m] \in Char
              /\ Chars(s)[m] = IF s[m] = "q" THEN <<"q", "q">> ELSE <<s[m]>>
    BY <1>3, CharsWritten
  <1>5. CASE k = Len(s) + 1
    <2>1. Left = rest
      <3> HIDE DEF rest, cs
      <3>1. QED
        BY <1>2, <1>3, <1>5, Joined
    <2>2. cur = s
      <3>1. s \in Seq(Char) /\ Len(s) \in Nat
        BY <1>3 DEF Str
      <3>2. k - 1 = Len(s) /\ cur = SubSeq(s, 1, k - 1)
        BY <1>2, <1>5, <3>1
      <3> HIDE DEF s
      <3>3. QED
        BY <3>1, <3>2, SubSeqFull
    <2>3. CASE qt = <<>>
      <3>1. Left = after /\ ~quoted
        <4> HIDE DEF after, qt
        <4>1. QED
          BY <1>2, <1>3, <2>1, <2>3, Joined
      <3>2. CellClosed(t, eol, last, i, j, cur, quoted, Left)
        BY <2>2, <3>1 DEF CellClosed
      <3>3. QED
        BY <3>2, ClosedRead
    <2>4. CASE qt = <<"q">>
      <3>1. Left = <<"q">> \o after /\ quoted
        <4> HIDE DEF after, qt
        <4>1. QED
          BY <1>2, <2>1, <2>4
      <3>2. after = <<>> \/ \E b \in Char, x \in Str : b # "q" /\ after = <<b>> \o x
        BY <1>1, <1>3, NoQuoteFollows
      <3> HIDE DEF after
      <3>3. /\ pos' \in 0 .. Len(text) /\ Left' = after /\ text' = text /\ table_' = table_
            /\ ~quoted' /\ cur' = cur /\ cells' = cells /\ out' = out
        BY <1>1, <1>3, <3>1, <3>2, ClosingQuote
      <3>4. CellClosed(t, eol, last, i, j, cur', quoted', Left')
        BY <2>2, <3>3 DEF CellClosed, after
      <3>5. InCell(t, eol, last, i, j, cur', quoted', Left')
        BY <3>4 DEF InCell
      <3>6. QED
        BY <1>1, <3>3, <3>5 DEF Reads, Reading
    <2>5. QED
      BY <1>4, <2>3, <2>4
  <1>6. CASE k # Len(s) + 1
    <2>1. k \in 1 .. Len(s) /\ k + 1 \in 1 .. Len(s) + 1
      <3>1. Len(s) \in Nat
        BY <1>3
      <3>2. QED
        BY <1>6, <3>1
    <2> DEFINE a == s[k]
               more == cs[k + 1] \o rest
               tail == cs[k + 1]
    <2>2. tail \in Str /\ more \in Str
      <3>1. tail \in Str
        BY <1>3, <2>1
      <3> HIDE DEF rest, cs
      <3>2. QED
        BY <1>3, <3>1, Joined
    <2>3. a \in Char /\ Chars(s)[k] = (IF a = "q" THEN <<"q", "q">> ELSE <<a>>)
      BY <1>4, <2>1
    <2>4. Left = (Chars(s)[k] \o tail) \o rest
      BY <1>2, <1>3, <2>1, Zenon
    <2>5. more = tail \o rest
      OBVIOUS
    <2> HIDE DEF a, more, tail, rest
    <2>6. CASE a = "q"
      <3>1. quoted
        BY <1>2, <1>4, <2>1, <2>6 DEF a, Special
      <3>2. Left = <<"q">> \o (<<"q">> \o more)
        <4>1. Chars(s)[k] = <<"q">> \o <<"q">> /\ <<"q">> \in Str
          BY <2>3, <2>6, Joined
        <4>2. Grouped(<<"q">>, <<"q">>, tail, rest)
          BY <1>3, <2>2, <4>1, Regrouped
        <4>3. QED
          BY <2>4, <2>5, <4>1, <4>2 DEF Grouped
      <3>3. /\ pos' \in 0 .. Len(text) /\ Left' = more /\ text' = text /\ table_' = table_
            /\ quoted' = quoted /\ cur' = Append(cur, "q") /\ cells' = cells /\ out' = out
        BY <1>1, <2>2, <3>1, <3>2, DoubledQuote
      <3>4. QED
        BY <1>2, <2>1, <2>6, <3>3, CharRead, Zenon DEF a, more, rest
    <2>7. CASE a # "q"
      <3>1. Left = <<a>> \o more
        <4>1. Chars(s)[k] = <<a>> /\ <<a>> \in Str
          BY <2>3, <2>7, Joined
        <4>2. (<<a>> \o tail) \o rest = <<a>> \o (tail \o rest)
          <5> DEFINE one == <<a>>
          <5>1. one \in Str
            BY <4>1
          <5> HIDE DEF one
          <5>2. (one \o tail) \o rest = one \o (tail \o rest)
            <6>1. \A x, y, z \in Str : (x \o y) \o z = x \o (y \o z)
              BY Joined
            <6>2. rest \in Str
              BY <1>3
            <6>3. QED
              BY <2>2, <5>1, <6>1, <6>2
          <5>3. QED
            BY <5>2 DEF one
        <4>3. QED
          BY <2>4, <2>5, <4>1, <4>2
      <3>2. CASE quoted
        <4>1. /\ pos' \in 0 .. Len(text) /\ Left' = more /\ text' = text /\ table_' = table_
              /\ quoted' = quoted /\ cur' = Append(cur, a) /\ cells' = cells /\ out' = out
          BY <1>1, <2>2, <2>3, <2>7, <3>1, <3>2, QuotedChar, Zenon
        <4>2. QED
          BY <1>2, <2>1, <4>1, CharRead, Zenon DEF a, more, rest
      <3>3. CASE ~quoted
        <4>1. a \notin Special
          BY <1>2, <1>4, <2>1, <3>3 DEF a
        <4>2. /\ pos' \in 0 .. Len(text) /\ Left' = more /\ text' = text /\ table_' = table_
              /\ quoted' = FALSE /\ cur' = Append(cur, a) /\ cells' = cells /\ out' = out
          BY <1>1, <2>2, <2>3, <3>1, <3>3, <4>1, PlainChar DEF Special
        <4>3. quoted' = quoted
          BY <1>2, <3>3, <4>2, Zenon
        <4>4. QED
          BY <1>2, <2>1, <4>2, <4>3, CharRead, Zenon DEF a, more, rest
      <3>4. QED
        BY <3>2, <3>3
    <2>8. QED
      BY <2>6, <2>7
  <1>7. QED
    BY <1>5, <1>6

LEMMA CsvStep ==
  ASSUME CsvInv, [CsvNext]_csvVars
  PROVE  CsvInv'
  <1>1. PICK eol \in EndOfLine, last \in BOOLEAN : CsvAt(eol, last)
    BY DEF CsvInv
  <1>2. PICK t \in TableRec : t = table_
    BY DEF CsvInv
  <1>3. text \in Str /\ Len(text) \in Nat /\ pos \in 0 .. Len(text) + 1
    BY <1>1, Places DEF CsvAt, Str
  <1>4. CASE UNCHANGED csvVars
    <2>1. /\ table_' = table_ /\ text' = text /\ pos' = pos /\ cur' = cur
          /\ cells' = cells /\ out' = out /\ quoted' = quoted
      BY <1>4 DEF csvVars
    <2>2. Left' = Left
      BY <2>1 DEF Left
    <2>3. CsvAt(eol, last)'
      BY <1>1, <2>1, <2>2 DEF CsvAt
    <2>4. QED
      BY <1>2, <2>1, <2>3 DEF CsvInv
  <1>5. CASE CsvNext
    <2>1. pos \in 0 .. Len(text)
      BY <1>3, <1>5 DEF CsvNext, ReadQuoted, ReadPlain, LastRow
    <2>2. Reading(t, eol, last, out, cells, cur, quoted, Left)
      BY <1>1, <1>2, <1>3, <2>1 DEF CsvAt
    <2>3. Reads(t, eol, last) \/ Finishes(t)
      <3>1. CASE out = t /\ cells = <<>> /\ cur = <<>> /\ ~quoted /\ Left = <<>>
        <4>1. LastRow
          BY <1>3, <1>5, <2>1, <3>1, LoopEnds
        <4>2. QED
          BY <1>2, <3>1, <4>1 DEF LastRow, Finishes
      <3>2. ASSUME NEW i \in 1 .. Len(t), NEW j \in 1 .. Len(t[i]),
                   out = SubSeq(t, 1, i - 1), cells = SubSeq(t[i], 1, j - 1),
                   InCell(t, eol, last, i, j, cur, quoted, Left)
            PROVE  Reads(t, eol, last) \/ Finishes(t)
        <4>1. AtCell(t, eol, last, i, j)
          BY <1>2, <1>3, <2>1, <3>2 DEF AtCell
        <4>2. CASE Opening(t, eol, last, i, j, cur, quoted, Left)
          BY <1>5, <4>1, <4>2, OpeningRead
        <4>3. ASSUME NEW k \in 1 .. Len(t[i][j]) + 1,
                     Inside(t, eol, last, i, j, k, cur, quoted, Left)
              PROVE  Reads(t, eol, last) \/ Finishes(t)
          BY <1>5, <4>1, <4>3, InsideRead
        <4>4. CASE CellClosed(t, eol, last, i, j, cur, quoted, Left)
          BY <1>5, <4>1, <4>4, ClosedRead
        <4>5. CASE Ending(t, eol, last, i, j, cur, quoted, Left)
          BY <1>5, <4>1, <4>5, EndingRead
        <4>6. QED
          BY <3>2, <4>2, <4>3, <4>4, <4>5 DEF InCell
      <3>3. QED
        BY <2>2, <3>1, <3>2 DEF Reading
    <2>4. CASE Reads(t, eol, last)
      <3>1. /\ text' = text /\ table_' = t /\ pos' \in 0 .. Len(text)
            /\ Reading(t, eol, last, out', cells', cur', quoted', Left')
        BY <2>4 DEF Reads
      <3>2. pos' \in 0 .. Len(text) + 1 /\ ~ (pos' > Len(text))
        BY <1>3, <3>1
      <3>3. CsvAt(eol, last)'
        BY <1>3, <3>1, <3>2 DEF CsvAt
      <3>4. QED
        BY <3>1, <3>3 DEF CsvInv
    <2>5. CASE Finishes(t)
      <3>1. text' = text /\ table_' = t /\ pos' = Len(text) + 1 /\ out' = t
        BY <2>5 DEF Finishes
      <3>2. pos' \in 0 .. Len(text) + 1 /\ ~ (pos' <= Len(text))
        BY <1>3, <3>1
      <3>3. CsvAt(eol, last)'
        BY <1>3, <3>1, <3>2 DEF CsvAt
      <3>4. QED
        BY <3>1, <3>3 DEF CsvInv
    <2>6. QED
      BY <2>3, <2>4, <2>5
  <1>6. QED
    BY <1>4, <1>5

\* A table to read back is one of strings, and the reading starts at its text.
LEMMA CsvStart ==
  ASSUME CsvInit
  PROVE  CsvInv
  <1>1. PICK t \in Table : t = table_
    BY DEF CsvInit
  <1>2. t \in TableRec
    <2>1. /\ t \in Seq(Seq(Seq(STRING))) /\ \A i \in DOMAIN t : t[i] # <<>>
          /\ t # <<>> => t[Len(t)] # << <<>> >>
      BY CsvAssumption
    <2>2. Seq(STRING) \subseteq Str
      BY SeqMonotonic DEF Str, Char
    <2>3. Seq(Seq(STRING)) \subseteq Seq(Str)
      BY <2>2, SeqMonotonic
    <2>4. Seq(Seq(Seq(STRING))) \subseteq Seq(Seq(Str))
      BY <2>3, SeqMonotonic
    <2>5. QED
      BY <2>1, <2>4 DEF TableRec
  <1>3. PICK eol \in EndOfLine, last \in BOOLEAN : text = Flat(Lines(t, eol, last))
    BY <1>1 DEF CsvInit, Texts
  <1>4. t \in Seq(Seq(Str)) /\ Len(t) \in Nat
    BY <1>2, Places DEF TableRec
  <1>5. text = LinesFrom(t, eol, last, 0 + 1)
    BY <1>3 DEF Flat, LinesFrom
  <1>6. text \in Str /\ Len(text) \in Nat
    <2>1. 0 + 1 \in 1 .. Len(t) + 1
      BY <1>4
    <2>2. text \in Str
      BY <1>4, <1>5, <2>1, RestWritten
    <2>3. QED
      BY <2>2, Places DEF Str
  <1>7. pos = 0 /\ cur = <<>> /\ cells = <<>> /\ out = <<>> /\ quoted = FALSE
    BY DEF CsvInit
  <1>8. Left = text
    <2>1. SubSeq(text, 1, Len(text)) = text
      BY <1>6, SubSeqFull DEF Str
    <2>2. QED
      BY <1>7, <2>1 DEF Left
  <1>9. SubSeq(t, 1, 0) = <<>>
    BY SubSeqEmpty
  <1>10. PICK none \in 0 .. Len(t) : none = 0
    BY <1>4
  <1>a. Reading(t, eol, last, SubSeq(t, 1, none), <<>>, <<>>, quoted,
                LinesFrom(t, eol, last, none + 1))
    BY <1>2, <1>7, NextLine
  <1>11. Reading(table_, eol, last, out, cells, cur, quoted, Left)
    BY <1>1, <1>5, <1>7, <1>8, <1>9, <1>10, <1>a
  <1>12. pos \in 0 .. Len(text) + 1 /\ ~ (pos > Len(text))
    BY <1>6, <1>7
  <1>13. CsvAt(eol, last)
    BY <1>6, <1>11, <1>12 DEF CsvAt
  <1>14. QED
    BY <1>1, <1>2, <1>13 DEF CsvInv

\* parseCsv: for any table of cells of any characters, with either line end and
\* with or without one after the last row, the rows read are the table's.
THEOREM TablesComeBack == CsvSpec => []CsvRoundTrip
  <1>1. CsvInit => CsvInv
    BY CsvStart
  <1>2. CsvInv /\ [CsvNext]_csvVars => CsvInv'
    BY CsvStep
  <1>3. CsvInv => CsvRoundTrip
    BY DEF CsvInv, CsvAt, CsvRoundTrip
  <1>4. QED
    BY <1>1, <1>2, <1>3, PTL DEF CsvSpec

=============================================================================
