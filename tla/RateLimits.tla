----------------------------- MODULE RateLimits -----------------------------
(***************************************************************************)
(* The rate limits before the handlers: every call of an address passes    *)
(* the middleware (common/global-rate-limit.middleware.ts), calls of some  *)
(* routes the guard after it (common/rate-limit.guard.ts).                 *)
(*                                                                         *)
(* Both count with INCR and give the key its expiry with a second command, *)
(* sent only by the call that found the key new.  An error of Redis lets a *)
(* call through the middleware, and not through the guard.                 *)
(***************************************************************************)
EXTENDS Integers, FiniteSets

CONSTANTS Visit,         \* calls of one route from one address at a time
          RouteMax,      \* max of the route's @RateLimit
          AnonLimit,     \* GLOBAL_RATE_LIMIT_PER_MIN
          AuthedLimit,   \* GLOBAL_RATE_LIMIT_AUTHED_PER_MIN
          LastMinute,    \* bound: minutes that pass
          MaxVisits      \* bound: calls made

ASSUME RateLimitsAssumption ==
    {RouteMax, AnonLimit, AuthedLimit, LastMinute, MaxVisits} \subseteq Nat \ {0}

VARIABLES
    minute,     \* Date.now() / 60 s
    counter,    \* Redis keys: count, with an expiry or without
    visit,      \* a call: its step, its minute, authorization header or none
    visits,     \* calls made so far
    let,        \* history: calls a key's counts let through while it lives
    orphaned    \* history: keys whose first call failed before their expiry

rateVars == <<minute, counter, visit, visits, let, orphaned>>

\* rl:<route>:<ip>, and gr:<ip>:<minute>.
Route == -1
Keys == {Route} \cup 0 .. LastMinute
NoKey == [count |-> 0, expires |-> FALSE]
Away == [step |-> "away", key |-> 0, authed |-> FALSE]

RateInit ==
    /\ minute = 0 /\ counter = [k \in Keys |-> NoKey]
    /\ visit = [v \in Visit |-> Away] /\ visits = 0
    /\ let = [k \in Keys |-> 0] /\ orphaned = {}

KeyOf(v) == IF visit[v].step \in {"count", "expire"} THEN visit[v].key ELSE Route
LimitOf(v) == IF visit[v].authed THEN AuthedLimit ELSE AnonLimit
Move(v, s) == visit' = [visit EXCEPT ![v].step = s]
Leave(v) == visit' = [visit EXCEPT ![v] = Away]

\* The minute of the key is taken before the count is.
Visit_(v, authed) ==
    /\ visit[v] = Away /\ visits < MaxVisits
    /\ visits' = visits + 1
    /\ visit' = [visit EXCEPT ![v] = [step |-> "count", key |-> minute, authed |-> authed]]
    /\ UNCHANGED <<minute, counter, let, orphaned>>

\* Past the check of a key: let through, or refused.
Pass(v, k, count, limit, onward) ==
    IF count > limit
    THEN Leave(v) /\ UNCHANGED let
    ELSE onward /\ let' = [let EXCEPT ![k] = @ + 1]

\* INCR; the first call of a key has its expiry to set.
IncrGlobal(v) ==
    LET k == KeyOf(v)
        n == counter[k].count + 1
    IN  /\ visit[v].step = "count"
        /\ counter' = [counter EXCEPT ![k].count = n]
        /\ IF n = 1 THEN Move(v, "expire") /\ UNCHANGED let
                    ELSE Pass(v, k, n, LimitOf(v), Move(v, "guard"))
        /\ UNCHANGED <<minute, visits, orphaned>>

\* EXPIRE.
ExpireGlobal(v) ==
    /\ visit[v].step = "expire"
    /\ counter' = [counter EXCEPT ![KeyOf(v)].expires = TRUE]
    /\ Pass(v, KeyOf(v), 1, LimitOf(v), Move(v, "guard"))
    /\ UNCHANGED <<minute, visits, orphaned>>

\* As if the guard gave the key its expiry before it counted.
ExpireThenIncr(v) ==
    LET n == counter[Route].count + 1
    IN  /\ visit[v].step = "guard"
        /\ counter' = [counter EXCEPT ![Route] =
                          [count |-> n, expires |-> @.expires \/ @.count > 0]]
        /\ Pass(v, Route, n, RouteMax, Leave(v))
        /\ UNCHANGED <<minute, visits, orphaned>>

\* The guard's INCR, of a key that does not name the minute.
IncrRoute(v) ==
    LET n == counter[Route].count + 1
    IN  /\ visit[v].step = "guard"
        /\ counter' = [counter EXCEPT ![Route].count = n]
        /\ IF n = 1 THEN Move(v, "expire route") /\ UNCHANGED let
                    ELSE Pass(v, Route, n, RouteMax, Leave(v))
        /\ UNCHANGED <<minute, visits, orphaned>>

ExpireRoute(v) ==
    /\ visit[v].step = "expire route"
    /\ counter' = [counter EXCEPT ![Route].expires = TRUE]
    /\ Pass(v, Route, 1, RouteMax, Leave(v))
    /\ UNCHANGED <<minute, visits, orphaned>>

\* A command throws: the middleware lets the call through ...
RedisFails(v) ==
    /\ visit[v].step \in {"count", "expire"}
    /\ Move(v, "guard")
    /\ orphaned' = IF visit[v].step = "expire" THEN orphaned \cup {KeyOf(v)} ELSE orphaned
    /\ UNCHANGED <<minute, counter, visits, let>>

\* ... and the guard does not; or the process dies.
VisitFails(v) ==
    /\ visit[v] # Away /\ Leave(v)
    /\ orphaned' = IF visit[v].step \in {"expire", "expire route"}
                   THEN orphaned \cup {KeyOf(v)} ELSE orphaned
    /\ UNCHANGED <<minute, counter, visits, let>>

\* A key with an expiry goes: a minute's not before the minute is over.
KeyExpires(k) ==
    /\ counter[k].expires /\ (k # Route => k < minute)
    /\ counter' = [counter EXCEPT ![k] = NoKey]
    /\ let' = [let EXCEPT ![k] = 0] /\ orphaned' = orphaned \ {k}
    /\ UNCHANGED <<minute, visit, visits>>

MinutePasses ==
    /\ minute < LastMinute /\ minute' = minute + 1
    /\ UNCHANGED <<counter, visit, visits, let, orphaned>>

RateNext ==
    \/ \E v \in Visit :
          \/ \E authed \in BOOLEAN : Visit_(v, authed)
          \/ IncrGlobal(v) \/ ExpireGlobal(v) \/ IncrRoute(v) \/ ExpireRoute(v)
          \/ RedisFails(v) \/ VisitFails(v)
    \/ \E k \in Keys : KeyExpires(k)
    \/ MinutePasses

RateSpec == RateInit /\ [][RateNext]_rateVars
-----------------------------------------------------------------------------

(* Nobody is shut out for good, and nobody gets more than the limit: a key *)
(* that counts has an expiry, or the call that found it new is about to    *)
(* set one or has failed in between; and the calls a key has let through   *)
(* in its life are no more than the route's limit, or than the higher of   *)
(* the two limits of a minute (RateLimitGuard, GlobalRateLimitMiddleware). *)
LimitsLapse ==
    \A k \in Keys :
        /\ counter[k].count > 0 /\ ~counter[k].expires /\ k \notin orphaned =>
               \E v \in Visit : KeyOf(v) = k /\ visit[v].step \in {"expire", "expire route"}
        /\ k = Route => let[k] <= RouteMax
        /\ k # Route => let[k] <= (IF AuthedLimit > AnonLimit THEN AuthedLimit ELSE AnonLimit)
=============================================================================
