-------------------------------- MODULE TaskTable -------------------------------
(***************************************************************************)
(* tasks/manager.py: tasks, what they depend on, and the row of each.  Every    *)
(* call sets the status in memory, hands SQLite's thread the row, and goes on    *)
(* when that answers; a completion then looks through the dict for the tasks it  *)
(* unblocks, with a write, and so a pause, at each.                          *)
(***************************************************************************)
EXTENDS Integers, Sequences, FiniteSets

CONSTANTS Tasks,         \* the tasks of a run of the model
          Dependencies,  \* the ones each is created with
          TaskCalls      \* the calls that may wait for SQLite at once

ASSUME TaskAssumption ==
    Dependencies \in [Tasks -> SUBSET Tasks] /\ TaskCalls \in Nat \ {0}

VARIABLES
    tasks,       \* the status of each in _tasks
    taskRows,    \* and in its row
    taskWrites,  \* the rows SQLite has still to write, and for which call
    grown,       \* the completions whose walk through the dict meets one that has grown
    finished     \* the tasks complete_task was ever called for

taskVars == <<tasks, taskRows, taskWrites, grown, finished>>

\* A cancelled task goes the way of a failed one.
TaskStatuses == {"none", "queued", "blocked", "running", "completed", "failed"}
CallKinds == {"create", "start", "complete", "unblock", "fail"}

\* of is the completed task a walk is about, and the task itself in every other call.
TaskWrite == [task : Tasks, status : TaskStatuses, by : CallKinds, of : Tasks]

TaskTypeOK ==
    /\ tasks \in [Tasks -> TaskStatuses] /\ taskRows \in [Tasks -> TaskStatuses]
    /\ taskWrites \in Seq(TaskWrite) /\ Len(taskWrites) <= TaskCalls
    /\ grown \subseteq Tasks /\ finished \subseteq Tasks

TaskInit ==
    /\ tasks = [t \in Tasks |-> "none"] /\ taskRows = tasks
    /\ taskWrites = <<>> /\ grown = {} /\ finished = {}

-----------------------------------------------------------------------------
\* The coroutines inside _check_unblock, each by the task it completed
Walks == {taskWrites[i].of : i \in {j \in DOMAIN taskWrites : taskWrites[j].by = "unblock"}}

\* _all_deps_completed
AllDepsCompleted(t) == \A d \in Dependencies[t] : tasks[d] = "completed"

\* A call that sets a status and waits for its row
Sets(t, to, by, of, before) ==
    /\ tasks' = [tasks EXCEPT ![t] = to]
    /\ taskWrites' = Append(before, [task |-> t, status |-> to, by |-> by, of |-> of])

Begins(t, to, by) == Len(taskWrites) < TaskCalls /\ Sets(t, to, by, t, taskWrites)

Created(t) == tasks[t] # "none"

CreateTask(t) ==
    /\ ~Created(t) /\ \A d \in Dependencies[t] : Created(d)
    /\ Begins(t, IF AllDepsCompleted(t) THEN "queued" ELSE "blocked", "create")
    /\ grown' = grown \cup Walks
    /\ UNCHANGED <<taskRows, finished>>

\* start_task: its one guard; _job_process_next_task starts a queued one.
StartTask(t) ==
    /\ Created(t) /\ tasks[t] # "blocked" /\ Begins(t, "running", "start")
    /\ UNCHANGED <<taskRows, grown, finished>>

CompleteTask(t) ==
    /\ Created(t) /\ Begins(t, "completed", "complete")
    /\ finished' = finished \cup {t}
    /\ UNCHANGED <<taskRows, grown>>

\* fail_task and cancel_task
FailTask(t) == Created(t) /\ Begins(t, "failed", "fail") /\ UNCHANGED <<taskRows, grown, finished>>

-----------------------------------------------------------------------------
\* _check_unblock goes on to the next task it unblocks, if there is one.  In which order it
\* meets them is left open.
MutantUnblocks(t, ended) == tasks[t] = "blocked" /\ ended \in Dependencies[t]
Unblocks(t, ended) ==
    tasks[t] = "blocked" /\ ended \in Dependencies[t] /\ AllDepsCompleted(t)

Walk(ended, before) ==
    \/ /\ ~\E t \in Tasks : Unblocks(t, ended)
       /\ tasks' = tasks /\ taskWrites' = before
    \/ \E t \in Tasks :
          Unblocks(t, ended) /\ Sets(t, "queued", "unblock", ended, before)

\* SQLite answers its oldest write: the call that waited for it returns, or walks on.
\* A dict that has grown meanwhile ends the walk with a RuntimeError.
WriteAnswered ==
    LET write == Head(taskWrites)
        walks == write.by = "complete" \/ (write.by = "unblock" /\ write.of \notin grown)
    IN
    /\ taskWrites # <<>>
    /\ taskRows' = [taskRows EXCEPT ![write.task] = write.status]
    /\ \/ walks /\ Walk(write.of, Tail(taskWrites))
       \/ ~walks /\ tasks' = tasks /\ taskWrites' = Tail(taskWrites)
    /\ grown' = IF write.by = "unblock" THEN grown \ {write.of} ELSE grown
    /\ UNCHANGED finished

\* The process dies, its last writes done or not, and loads the rows.
TaskRestart ==
    /\ \E n \in 0..Len(taskWrites) :
          LET last(t) == {i \in 1..n : taskWrites[i].task = t}
          IN taskRows' = [t \in Tasks |->
                 IF last(t) = {} THEN taskRows[t]
                 ELSE taskWrites[CHOOSE i \in last(t) : \A j \in last(t) : j <= i].status]
    /\ tasks' = taskRows' /\ taskWrites' = <<>> /\ grown' = {}
    /\ UNCHANGED finished

TaskNext ==
    \/ \E t \in Tasks :
          CreateTask(t) \/ StartTask(t) \/ CompleteTask(t) \/ FailTask(t)
    \/ WriteAnswered \/ TaskRestart

TaskSpec == TaskInit /\ [][TaskNext]_taskVars

(***************************************************************************)
(* Properties                                                              *)
(***************************************************************************)
\* A task waits in the queue, in memory or after any restart, only when everything it
\* depends on has been completed, however completions, creations, failures and walks
\* overlap and whichever of their writes a death prevents.
QueuedIsReady ==
    \A t \in Tasks : "queued" \in {tasks[t], taskRows[t]} => Dependencies[t] \subseteq finished
===============================================================================
