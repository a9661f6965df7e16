------------------------------ MODULE JobQueue ------------------------------
(***************************************************************************)
(* One BullMQ queue as the workers of queue/processors.service.ts use it.  *)
(* BullMQ itself is a library: this module states what the code relies on. *)
(*                                                                         *)
(*  - add() with a jobId that is already in the queue, in any state, does  *)
(*    nothing; the producers derive the jobId from a database id.          *)
(*  - a worker takes waiting jobs, at most `concurrency` at a time;        *)
(*  - a handler that throws costs an attempt; the job comes back after its *)
(*    backoff until defaultJobOpts.attempts are used up, then stays in the *)
(*    failed set;                                                          *)
(*  - the job of a process that died is found stalled and handed out again *)
(*    MaxStalls times, then it fails.                                      *)
(*                                                                         *)
(* The order of waiting jobs is left out: a retry comes back in an order   *)
(* that depends on its backoff.                                            *)
(***************************************************************************)
EXTENDS Integers, FiniteSets

CONSTANTS Job,
          MaxAttempts,  \* defaultJobOpts.attempts, at least 1
          MaxStalls,    \* the library's maxStalledCount
          Concurrency   \* the worker's concurrency option

VARIABLES jobState, attempts, stalls

queueVars == <<jobState, attempts, stalls>>

JobState == {"absent", "waiting", "active", "delayed", "completed", "failed"}

TypeOK ==
    /\ jobState \in [Job -> JobState]
    /\ attempts \in [Job -> 0 .. MaxAttempts]
    /\ stalls \in [Job -> 0 .. MaxStalls]

Init ==
    /\ jobState = [j \in Job |-> "absent"]
    /\ attempts = [j \in Job |-> 0]
    /\ stalls = [j \in Job |-> 0]

InState(s) == {j \in Job : jobState[j] = s}

Move(j, s) == jobState' = [jobState EXCEPT ![j] = s]

Add(j) ==
    /\ IF jobState[j] = "absent" THEN Move(j, "waiting") ELSE UNCHANGED jobState
    /\ UNCHANGED <<attempts, stalls>>

Take(j) ==
    /\ jobState[j] = "waiting"
    /\ Cardinality(InState("active")) < Concurrency
    /\ Move(j, "active")
    /\ UNCHANGED <<attempts, stalls>>

Complete(j) ==
    /\ jobState[j] = "active"
    /\ Move(j, "completed")
    /\ UNCHANGED <<attempts, stalls>>

FailUncounted(j) ==
    /\ jobState[j] = "active"
    /\ Move(j, "delayed")
    /\ UNCHANGED <<attempts, stalls>>

\* The handler threw: back off and try again, or give up.
Fail(j) ==
    /\ jobState[j] = "active"
    /\ attempts' = [attempts EXCEPT ![j] = @ + 1]
    /\ Move(j, IF attempts[j] + 1 < MaxAttempts THEN "delayed" ELSE "failed")
    /\ UNCHANGED stalls

Promote(j) ==
    /\ jobState[j] = "delayed"
    /\ Move(j, "waiting")
    /\ UNCHANGED <<attempts, stalls>>

\* Only the last `keep` completed jobs are kept (removeOnComplete): the jobId
\* of a removed one can be added again.
Remove(j, keep) ==
    /\ jobState[j] = "completed"
    /\ Cardinality(InState("completed")) > keep
    /\ Move(j, "absent")
    /\ attempts' = [attempts EXCEPT ![j] = 0]
    /\ stalls' = [stalls EXCEPT ![j] = 0]

\* The process died while the jobs of `js` were active.
Stall(js) ==
    /\ jobState' = [j \in Job |->
                       IF j \in js
                       THEN IF stalls[j] < MaxStalls THEN "waiting" ELSE "failed"
                       ELSE jobState[j]]
    /\ stalls' = [j \in Job |-> IF j \in js /\ stalls[j] < MaxStalls
                               THEN stalls[j] + 1 ELSE stalls[j]]
    /\ UNCHANGED attempts
=============================================================================
