------------------------------- MODULE Workflows -------------------------------
(***************************************************************************)
(* control/recurring.py and the loop of core/cron.py that runs what is due.    *)
(* A pass of the loop lists the due workflows once and submits them one after *)
(* the other; /workflow pauses and activates them while it runs.  The manager *)
(* exists only once /workflow has been typed: after a restart nothing is due   *)
(* until then.                                                             *)
(***************************************************************************)
EXTENDS Naturals, Sequences, FiniteSets

CONSTANTS Recurring,   \* workflows that may be created
          MaxErrors    \* max_consecutive_errors

ASSUME WorkflowAssumption == IsFiniteSet(Recurring) /\ MaxErrors \in Nat \ {0}

VARIABLES
    workflow,   \* RecurringWorkflow: its status, whether next_run_at has passed, error_count
    stored,     \* its row
    attached,   \* the agent has a manager
    pass,       \* the workflows a pass of the loop has still to run; it awaits the first
    polling     \* the loop is inside a pass

workflowVars == <<workflow, stored, attached, pass, polling>>

Entry == [status : {"none", "active", "paused", "failed"}, due : BOOLEAN, errors : 0..MaxErrors]

WorkflowsTypeOK ==
    /\ workflow \in [Recurring -> Entry] /\ stored \in [Recurring -> Entry]
    /\ attached \in BOOLEAN /\ polling \in BOOLEAN
    /\ pass \in UNION {[1..n -> Recurring] : n \in 0..Cardinality(Recurring)}

WorkflowsInit ==
    /\ workflow = [w \in Recurring |-> [status |-> "none", due |-> FALSE, errors |-> 0]]
    /\ stored = workflow
    /\ attached = FALSE /\ pass = <<>> /\ polling = FALSE

\* _persist swallows what the write raises; attaching and clocks write nothing.
Stores(w, entry) ==
    /\ workflow' = [workflow EXCEPT ![w] = entry]
    /\ stored' \in {stored, [stored EXCEPT ![w] = entry]}

\* The first /workflow of a process loads the rows.
Attach ==
    /\ ~attached /\ attached' = TRUE
    /\ workflow' = stored
    /\ UNCHANGED <<stored, pass, polling>>

CreateWorkflow(w) ==
    /\ attached /\ workflow[w].status = "none" /\ stored[w].status = "none"
    /\ Stores(w, [status |-> "active", due |-> FALSE, errors |-> 0])
    /\ UNCHANGED <<attached, pass, polling>>

Pause(w) ==
    /\ attached /\ workflow[w].status = "active"
    /\ Stores(w, [workflow[w] EXCEPT !.status = "paused"])
    /\ UNCHANGED <<attached, pass, polling>>

Activate(w) ==
    /\ attached /\ workflow[w].status \in {"paused", "failed"}
    /\ Stores(w, [status |-> "active", due |-> FALSE, errors |-> 0])
    /\ UNCHANGED <<attached, pass, polling>>

\* next_run_at passes, in the manager and in the row
Later(entry) == [entry EXCEPT !.due = entry.status # "none"]
Elapse(w) ==
    /\ \E entry \in {workflow[w], stored[w]} : entry # Later(entry)
    /\ workflow' = [workflow EXCEPT ![w] = Later(@)]
    /\ stored' = [stored EXCEPT ![w] = Later(@)]
    /\ UNCHANGED <<attached, pass, polling>>

DueWorkflows == {w \in Recurring : workflow[w].status = "active" /\ workflow[w].due}
Orders(S) == {q \in [1..Cardinality(S) -> S] : \A w \in S : \E i \in DOMAIN q : q[i] = w}

\* A pass begins: the dictionary's order, which is that of creation, is any order here.
BeginPass ==
    /\ attached /\ ~polling /\ DueWorkflows # {}
    /\ pass' \in Orders(DueWorkflows) /\ polling' = TRUE
    /\ UNCHANGED <<workflow, stored, attached>>

\* record_execution; a failure that reaches the limit leaves next_run_at where it was.
Recorded(entry, success) ==
    IF success THEN [entry EXCEPT !.errors = 0, !.due = FALSE]
    ELSE IF entry.errors + 1 >= MaxErrors
         THEN [entry EXCEPT !.errors = MaxErrors, !.status = "failed"]
         ELSE [entry EXCEPT !.errors = @ + 1, !.due = FALSE]

NextInPass == pass' = Tail(pass) /\ polling' = (Len(pass) > 1)

\* The intake's answer: completed, or anything else
Record(success) ==
    /\ polling
    /\ Stores(Head(pass), Recorded(workflow[Head(pass)], success))
    /\ NextInPass
    /\ UNCHANGED attached

\* The intake raised: a failure as well, and the pass goes on.
MutantRaised ==                                \* the exception ends the pass instead
    /\ polling
    /\ pass' = <<>> /\ polling' = FALSE
    /\ UNCHANGED <<workflow, stored, attached>>
Raised == Record(FALSE)

WorkflowsRestart ==
    /\ attached' = FALSE /\ pass' = <<>> /\ polling' = FALSE
    /\ workflow' = [w \in Recurring |-> [status |-> "none", due |-> FALSE, errors |-> 0]]
    /\ attached /\ UNCHANGED stored

WorkflowLoop == BeginPass \/ Record(TRUE) \/ Record(FALSE) \/ Raised

WorkflowsNext ==
    \/ Attach \/ WorkflowLoop \/ WorkflowsRestart
    \/ \E w \in Recurring : CreateWorkflow(w) \/ Pause(w) \/ Activate(w) \/ Elapse(w)

\* The loop wakes every minute, and every intake it awaits ends.
WorkflowFairness == WF_workflowVars(WorkflowLoop)
WorkflowsSpec == WorkflowsInit /\ [][WorkflowsNext]_workflowVars /\ WorkflowFairness

(***************************************************************************)
(* Properties                                                              *)
(***************************************************************************)
\* A workflow that is due is run, and its next run set or the workflow given up, however
\* the workflows before it in a pass end; unless it is paused or the process ends.
DueIsRun ==
    \A w \in Recurring :
        attached /\ w \in DueWorkflows ~> ~attached \/ w \notin DueWorkflows
===============================================================================
