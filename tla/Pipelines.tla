------------------------------- MODULE Pipelines -------------------------------
(***************************************************************************)
(* control/pipeline.py: one pipeline, whose stages are objects that every run *)
(* of it shares, while last_status is each run's own.  /pipeline run does not  *)
(* look whether the pipeline is running already, in this chat or in another.  *)
(* Stages that /pipeline create makes all have the condition on_success.      *)
(***************************************************************************)
EXTENDS Naturals, Sequences

CONSTANTS Runs,    \* executions that may run side by side
          Stages   \* the number of stages

ASSUME PipelineAssumption == Stages \in Nat \ {0}

VARIABLES
    stage,      \* PipelineStage.status, shared by the runs
    result,     \* JobPipeline.status
    record,     \* the row: what the two were when it was last written
    at,         \* the stage a run awaits, 0 when it does not run
    answers,    \* history: how the stages a run submitted ended, in order
    told        \* what the caller of a run was told

pipelineVars == <<stage, result, record, at, answers, told>>

StageNumbers == 1..Stages
StageStatuses == {"pending", "running", "completed", "failed", "skipped"}
Results == {"pending", "executing", "completed", "failed"}

PipelinesTypeOK ==
    /\ stage \in [StageNumbers -> StageStatuses] /\ result \in Results
    /\ record \in [stage : [StageNumbers -> StageStatuses], result : Results]
    /\ at \in [Runs -> StageNumbers \cup {0}]
    /\ answers \in [Runs -> UNION {[1..n -> {"completed", "failed"}] : n \in 0..Stages}]
    /\ told \in [Runs -> {"nothing", "ok", "failed"}]

\* create_pipeline has persisted it.
PipelinesInit ==
    /\ stage = [s \in StageNumbers |-> "pending"] /\ result = "pending"
    /\ record = [stage |-> stage, result |-> result]
    /\ at = [r \in Runs |-> 0] /\ answers = [r \in Runs |-> <<>>]
    /\ told = [r \in Runs |-> "nothing"]

\* execute_pipeline up to its first await: the first stage's condition holds.
Execute(r) ==
    /\ at[r] = 0
    /\ at' = [at EXCEPT ![r] = 1]
    /\ stage' = [stage EXCEPT ![1] = "running"] /\ result' = "executing"
    /\ answers' = [answers EXCEPT ![r] = <<>>] /\ told' = [told EXCEPT ![r] = "nothing"]
    /\ UNCHANGED record

\* The intake of the stage completed: on to the next one.
StageEnds(r, outcome) == answers' = [answers EXCEPT ![r] = Append(@, outcome)]
Proceed(r) ==
    /\ at[r] \in 1..Stages - 1
    /\ StageEnds(r, "completed")
    /\ stage' = [stage EXCEPT ![at[r]] = "completed", ![at[r] + 1] = "running"]
    /\ at' = [at EXCEPT ![r] = @ + 1]
    /\ UNCHANGED <<result, record, told>>

\* No stage is left whose condition holds: the result is read off the shared stages.
AllCompleted(statuses) == \A s \in StageNumbers : statuses[s] \in {"completed", "skipped"}
FinalizePipeline(r, statuses) ==
    LET verdict == IF AllCompleted(statuses) THEN "completed" ELSE "failed"
    IN  /\ stage' = statuses /\ result' = verdict
        /\ record' \in {record, [stage |-> statuses, result |-> verdict]}  \* _persist swallows errors
        /\ told' = [told EXCEPT ![r] = IF verdict = "completed" THEN "ok" ELSE "failed"]
        /\ at' = [at EXCEPT ![r] = 0]

Complete(r) ==
    /\ at[r] = Stages
    /\ StageEnds(r, "completed")
    /\ FinalizePipeline(r, [stage EXCEPT ![Stages] = "completed"])

\* A stage that did not complete, or raised: on_success skips every later one.
MutantFail(r) ==                    \* the stage fails, last_status keeps what it was
    /\ at[r] # 0
    /\ StageEnds(r, "failed")
    /\ IF at[r] < Stages
       THEN /\ stage' = [stage EXCEPT ![at[r]] = "failed", ![at[r] + 1] = "running"]
            /\ at' = [at EXCEPT ![r] = @ + 1]
            /\ UNCHANGED <<result, record, told>>
       ELSE FinalizePipeline(r, [stage EXCEPT ![Stages] = "failed"])
Fail(r) ==
    /\ at[r] # 0
    /\ StageEnds(r, "failed")
    /\ FinalizePipeline(r, [s \in StageNumbers |-> IF s < at[r] THEN stage[s]
                                           ELSE IF s = at[r] THEN "failed" ELSE "skipped"])

\* A new process reads the row: of a run that was cut short nothing remains in it.
PipelineRestart ==
    /\ stage' = record.stage /\ result' = record.result
    /\ at' = [r \in Runs |-> 0] /\ answers' = [r \in Runs |-> <<>>]
    /\ told' = [r \in Runs |-> "nothing"]
    /\ UNCHANGED record

PipelinesNext == \/ \E r \in Runs : Execute(r) \/ Proceed(r) \/ Complete(r) \/ Fail(r)
                 \/ PipelineRestart

PipelinesSpec == PipelinesInit /\ [][PipelinesNext]_pipelineVars

(***************************************************************************)
(* Properties                                                              *)
(***************************************************************************)
\* However runs of one pipeline overlap, the caller of a run is told ok only when every
\* stage it submitted itself completed, and it submitted them all: the results of another
\* run, which stand in the same objects, never stand in for its own.
OkIsOwn ==
    \A r \in Runs : told[r] = "ok" => answers[r] = [s \in StageNumbers |-> "completed"]
===============================================================================
