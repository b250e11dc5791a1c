------------------------------- MODULE JobRunner -------------------------------
(***************************************************************************)
(* core/job_runner.py: background jobs with a concurrency limit, a hard      *)
(* timeout per attempt, bounded retries, a dead-letter store, cancellation  *)
(* and a circuit breaker on new work.                                        *)
(*                                                                         *)
(* Every job has a task.  It waits in the semaphore's FIFO, holds a slot      *)
(* through all its attempts and backoffs, and is cut at each await, where    *)
(* cancel() may strike: cancel() files the record at once, and the task      *)
(* learns of it, and gives its slot back, in a later step.                   *)
(***************************************************************************)
EXTENDS Naturals, Sequences, FiniteSets

CONSTANTS Jobs,           \* JobRecord identifiers
          MaxConcurrent,  \* the semaphore's initial value
          MaxRetries,     \* JobConfig.max_retries
          Threshold,      \* circuit_breaker_threshold
          MaxCompleted,   \* max_completed_history
          MaxDead         \* max_dead_letters

ASSUME JobAssumption ==
    /\ IsFiniteSet(Jobs)
    /\ MaxConcurrent \in Nat \ {0}
    /\ MaxRetries \in Nat
    /\ {Threshold, MaxCompleted, MaxDead} \subseteq Nat \ {0}

VARIABLES
    status,     \* JobRecord.status, "none" before schedule()
    attempt,    \* JobRecord.retry_count
    task,       \* where the job's task is
    waiters,    \* the semaphore's queue
    holders,    \* the jobs whose task is inside the semaphore
    active,     \* the keys of _active_jobs
    completed,  \* the keys of _completed_jobs, in insertion order
    dead,       \* the keys of _dead_letters, in insertion order
    failures    \* _cb_failures within the window

jobVars == <<status, attempt, task, waiters, holders, active, completed, dead, failures>>

Terminal == {"completed", "cancelled", "dead_lettered"}
Places == {"none", "waiting", "calling", "sleeping", "cancelled", "gone"}
Members(s) == {s[i] : i \in DOMAIN s}

JobTypeOK ==
    /\ status \in [Jobs -> {"none", "scheduled", "running"} \cup Terminal]
    /\ attempt \in [Jobs -> 0..MaxRetries]
    /\ task \in [Jobs -> Places]
    /\ waiters \in Seq(Jobs)
    /\ holders \subseteq Jobs
    /\ active \subseteq Jobs
    /\ completed \in Seq(Jobs) /\ Len(completed) <= MaxCompleted
    /\ dead \in Seq(Jobs) /\ Len(dead) <= MaxDead
    /\ failures \in Nat

JobInit ==
    /\ status = [j \in Jobs |-> "none"]
    /\ attempt = [j \in Jobs |-> 0]
    /\ task = [j \in Jobs |-> "none"]
    /\ waiters = <<>> /\ holders = {} /\ active = {}
    /\ completed = <<>> /\ dead = <<>>
    /\ failures = 0

-------------------------------------------------------------------------------
\* _store_completed and _store_dead_letter: the oldest record makes room
Stored(s, j, bound) == Append(IF Len(s) >= bound THEN Tail(s) ELSE s, j)

\* schedule(): the breaker is open while the window holds Threshold failures
Schedule(j) ==
    /\ status[j] = "none" /\ failures < Threshold
    /\ status' = [status EXCEPT ![j] = "scheduled"]
    /\ task' = [task EXCEPT ![j] = "waiting"]
    /\ waiters' = Append(waiters, j)
    /\ active' = active \cup {j}
    /\ UNCHANGED <<attempt, holders, completed, dead, failures>>

\* The semaphore is fair: cancelled tasks aside, the first in its queue is next.
FirstInLine(j) ==
    \E k \in DOMAIN waiters :
        /\ waiters[k] = j /\ task[j] = "waiting"
        /\ \A i \in 1..(k - 1) : task[waiters[i]] # "waiting"

\* The task takes its place out of that queue, if it has one.
Dequeue(j) ==
    \/ j \notin Members(waiters) /\ UNCHANGED waiters
    \/ \E k \in DOMAIN waiters :
          /\ waiters[k] = j
          /\ waiters' = SubSeq(waiters, 1, k - 1) \o SubSeq(waiters, k + 1, Len(waiters))

\* A task enters the semaphore and begins its first attempt.
Start(j) ==
    /\ Cardinality(holders) < MaxConcurrent /\ FirstInLine(j)
    /\ Dequeue(j)
    /\ holders' = holders \cup {j}
    /\ task' = [task EXCEPT ![j] = "calling"]
    /\ status' = [status EXCEPT ![j] = "running"]
    /\ UNCHANGED <<attempt, active, completed, dead, failures>>

\* The task ends: `async with' gives the slot back
Leave(j) ==
    /\ task' = [task EXCEPT ![j] = "gone"]
    /\ holders' = holders \ {j}

Succeed(j) ==
    /\ task[j] = "calling"
    /\ Leave(j)
    /\ status' = [status EXCEPT ![j] = "completed"]
    /\ active' = active \ {j}
    /\ completed' = Stored(completed, j, MaxCompleted)
    /\ UNCHANGED <<attempt, waiters, dead, failures>>

\* Timeout, exception, or a result that is no JSON dict, with attempts left
FailOnce(j) ==
    /\ task[j] = "calling" /\ attempt[j] < MaxRetries
    /\ task' = [task EXCEPT ![j] = "sleeping"]
    /\ failures' = failures + 1
    /\ UNCHANGED <<status, attempt, waiters, holders, active, completed, dead>>

Retry(j) ==
    /\ task[j] = "sleeping"
    /\ task' = [task EXCEPT ![j] = "calling"]
    /\ attempt' = [attempt EXCEPT ![j] = @ + 1]
    /\ UNCHANGED <<status, waiters, holders, active, completed, dead, failures>>

MutantGiveUp(j) ==                               \* leaves it in _active_jobs
    /\ task[j] = "calling" /\ attempt[j] >= MaxRetries
    /\ Leave(j)
    /\ status' = [status EXCEPT ![j] = "dead_lettered"]
    /\ dead' = Stored(dead, j, MaxDead)
    /\ failures' = failures + 1
    /\ UNCHANGED <<attempt, waiters, active, completed>>

GiveUp(j) ==
    /\ task[j] = "calling" /\ attempt[j] >= MaxRetries
    /\ Leave(j)
    /\ status' = [status EXCEPT ![j] = "dead_lettered"]
    /\ active' = active \ {j}
    /\ dead' = Stored(dead, j, MaxDead)
    /\ failures' = failures + 1
    /\ UNCHANGED <<attempt, waiters, completed>>

MutantCancel(j) ==                               \* files the record, lets the task run
    /\ j \in active
    /\ active' = active \ {j}
    /\ status' = [status EXCEPT ![j] = "cancelled"]
    /\ completed' = Stored(completed, j, MaxCompleted)
    /\ UNCHANGED <<attempt, task, waiters, holders, dead, failures>>

\* cancel(): task.cancel() only marks the task
Cancel(j) ==
    /\ j \in active
    /\ task' = [task EXCEPT ![j] = "cancelled"]
    /\ active' = active \ {j}
    /\ status' = [status EXCEPT ![j] = "cancelled"]
    /\ completed' = Stored(completed, j, MaxCompleted)
    /\ UNCHANGED <<attempt, waiters, holders, dead, failures>>

MutantUnwind(j) ==                               \* the slot is not given back
    /\ task[j] = "cancelled"
    /\ task' = [task EXCEPT ![j] = "gone"]
    /\ Dequeue(j)
    /\ UNCHANGED <<status, attempt, holders, active, completed, dead, failures>>

\* CancelledError reaches the task, in the semaphore's queue or inside it.
Unwind(j) ==
    /\ task[j] = "cancelled"
    /\ Leave(j)
    /\ Dequeue(j)
    /\ UNCHANGED <<status, attempt, active, completed, dead, failures>>

\* A failure leaves the breaker's window.
Age ==
    /\ failures > 0 /\ failures' = failures - 1
    /\ UNCHANGED <<status, attempt, task, waiters, holders, active, completed, dead>>

Run(j) == Start(j) \/ Succeed(j) \/ FailOnce(j) \/ Retry(j) \/ GiveUp(j) \/ Unwind(j)

JobNext ==
    \/ \E j \in Jobs : Schedule(j) \/ Run(j) \/ Cancel(j)
    \/ Age

\* wait_for's timeout ends every call and sleep every backoff; nobody need cancel.
JobFairness == \A j \in Jobs : WF_jobVars(Run(j))
JobSpec == JobInit /\ [][JobNext]_jobVars /\ JobFairness
-------------------------------------------------------------------------------
(* "All jobs are tracked from creation to completion/failure": a job is in exactly   *)
(* one of the three stores, the one its status names, with a live task while it is   *)
(* active; only a full store may have dropped it.                                    *)
Tracked ==
    \A j \in Jobs :
        LET kept == {store \in {"active", "completed", "dead"} :
                       \/ store = "active" /\ j \in active
                       \/ store = "completed" /\ j \in Members(completed)
                       \/ store = "dead" /\ j \in Members(dead)}
        IN  /\ status[j] = "none" => kept = {}
            /\ status[j] \in {"scheduled", "running"} =>
                  kept = {"active"} /\ task[j] \in {"waiting", "calling", "sleeping"}
            /\ status[j] \in {"completed", "cancelled"} =>
                  kept = {"completed"} \/ (kept = {} /\ Len(completed) = MaxCompleted)
            /\ status[j] = "dead_lettered" =>
                  kept = {"dead"} \/ (kept = {} /\ Len(dead) = MaxDead)

(* A job that was completed, cancelled or dead-lettered stays so: a cancelled task    *)
(* that had not unwound yet does not complete, retry or dead-letter it later.         *)
TerminalIsFinal ==
    [][\A j \in Jobs : status[j] \in Terminal =>
          status'[j] = status[j] /\ attempt'[j] = attempt[j]]_jobVars

(* The runner (schedule, cancel, _execute_job) implements the service of JobService:    *)
(* turns are kept past the cancelled tasks that have not left the queue yet, and the    *)
(* jobs shown as running are no more than the slots, the ones that unwind included.     *)
Ahead(i, j) ==
    /\ task[i] = "waiting" /\ task[j] = "waiting"
    /\ \E p, q \in DOMAIN waiters : p < q /\ waiters[p] = i /\ waiters[q] = j
Service == INSTANCE JobService WITH
    stage <- status, retries <- attempt,
    ahead <- {p \in Jobs \X Jobs : Ahead(p[1], p[2])}
KeepsService == Service!ServiceSpec

(* "NO job runs forever": what was scheduled ends, however many jobs were cancelled    *)
(* while they held or awaited a slot.                                                  *)
Finishes == \A j \in Jobs : status[j] = "scheduled" ~> status[j] \in Terminal
===============================================================================
