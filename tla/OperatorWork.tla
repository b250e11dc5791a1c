----------------------------- MODULE OperatorWork -----------------------------
(***************************************************************************)
(* core/agent.py: submit_operator_intake, which plans an intake, decides      *)
(* whether it may run, and runs it as a build or a review, with the build     *)
(* service, the review service and the workspaces they share.                *)
(*                                                                         *)
(* Plans, job rows and workspaces are three tables written one after the     *)
(* other, and nothing puts them right when the process dies in between.      *)
(***************************************************************************)
EXTENDS BuildJobs

CONSTANTS PlanIds,   \* JobPlanRecord identifiers
          NoPlan,    \* the asker of a build run or resumed directly
          NoLink     \* linked_job_id before the job ended

ASSUME OperatorAssumption ==
    /\ NoPlan \notin PlanIds /\ NoLink \notin Builds \cup PlanIds
    /\ Builds \cap PlanIds = {}

VARIABLES
    plan,       \* JobPlanRecord.status, "none" before the intake
    linked,     \* linked_job_id: a build, or the plan's own name for its review
    review,     \* the row of the review job a plan ran, by plan
    asker,      \* the submission that waits for a build
    stranded    \* plans whose submission was cut short

operatorVars == <<buildVars, plan, linked, review, asker, stranded>>

PlanStatuses == {"none", "submitted", "blocked", "awaiting_approval", "executing",
                 "completed", "failed"}
JobEnds == {"completed", "failed", "blocked"}

OperatorTypeOK ==
    /\ BuildsTypeOK
    /\ plan \in [PlanIds -> PlanStatuses]
    /\ linked \in [PlanIds -> Builds \cup PlanIds \cup {NoLink}]
    /\ review \in [PlanIds -> {"none", "validating"} \cup JobEnds]
    /\ asker \in [Builds -> PlanIds \cup {NoPlan}]
    /\ stranded \subseteq PlanIds

OperatorInit ==
    /\ BuildsInit
    /\ plan = [p \in PlanIds |-> "none"] /\ linked = [p \in PlanIds |-> NoLink]
    /\ review = [p \in PlanIds |-> "none"]
    /\ asker = [j \in Builds |-> NoPlan]
    /\ stranded = {}

recordVars == <<plan, linked, review, stranded>>

\* A new submission takes the first unused identifier.
NewPlans == {p \in PlanIds : plan[p] = "none"}
Submitting(p) == Idle /\ p \in NewPlans /\ p = CHOOSE q \in NewPlans : TRUE

\* Not supported, over budget, or not acquired: blocked.  Costly or risky: put to the
\* approval queue, and nothing comes back to the plan from there.
SubmitRefused(p) ==
    /\ Submitting(p)
    /\ \E status \in {"blocked", "awaiting_approval"} : plan' = [plan EXCEPT ![p] = status]
    /\ UNCHANGED <<buildVars, linked, review, asker, stranded>>

\* plan_status is the job's status; _plan_status keeps the three a job can end with.
MutantPlanStatus(r) == IF r.status = "failed" THEN "failed" ELSE "completed"
PlanStatus(r) == r.status

SubmitBuild(p, j, intake) ==
    /\ Submitting(p)
    /\ \/ RunBuild(j, intake)
       \/ \E status \in {"failed", "blocked"} : RefuseBuild(j, intake, status)
    /\ plan' = [plan EXCEPT ![p] = "executing"]
    /\ asker' = [asker EXCEPT ![j] = p]
    /\ UNCHANGED <<linked, review, stranded>>

\* to_build_intake raises, once the plan is set to executing: of a git URL the intake is a
\* copy in which the steps of an implementation plan are dictionaries.
SubmitUnreadable(p) ==
    /\ Submitting(p)
    /\ plan' = [plan EXCEPT ![p] = "executing"]
    /\ stranded' = stranded \cup {p}
    /\ UNCHANGED <<buildVars, linked, review, asker>>

\* run_build_job and resume_build_job, called by a channel
Direct(j) ==
    /\ \/ \E intake \in Intakes : RunBuild(j, intake)
       \/ \E p \in Builds : ResumeInPlace(j, p) \/ ResumeElsewhere(j, p) \/ RefuseResume(j, p)
    /\ UNCHANGED <<asker, recordVars>>

\* The build returned to submit_operator_intake, or raised through it.
ReturnBuild(j) ==
    /\ Returned(j)
    /\ asker' = [asker EXCEPT ![j] = NoPlan]
    /\ LET p == asker[j]
       IN IF p = NoPlan THEN UNCHANGED <<plan, linked, stranded>>
          ELSE IF live[j].status = "none"
          THEN stranded' = stranded \cup {p} /\ UNCHANGED <<plan, linked>>
          ELSE /\ plan' = [plan EXCEPT ![p] = PlanStatus(live[j])]
               /\ linked' = [linked EXCEPT ![p] = j]
               /\ UNCHANGED stranded
    /\ UNCHANGED review

\* run_review never gives way.  It works without a workspace when there is none to be
\* had, closes the one it opened whatever happens, and lets an exception through.
ReviewWorkspace(ended) ==
    IF CanCreate(wsStatus)
    THEN /\ Unused(wsStatus) # {}
         /\ wsStatus' = Closed(wsStatus, NewId(wsStatus), ended)
         /\ wsDir' = wsDir \cup {NewId(wsStatus)}
    ELSE UNCHANGED wsVars

\* _run_review_pipeline: an invalid intake or an error fails the job, a gate blocks it.
ReviewEnds == JobEnds

SubmitReview(p) ==
    /\ Submitting(p)
    /\ \E ended \in ReviewEnds :
          /\ review' = [review EXCEPT ![p] = ended]
          /\ \/ ReviewWorkspace(ended)
             \/ ended = "failed" /\ UNCHANGED wsVars       \* an invalid intake
          /\ \/ /\ plan' = [plan EXCEPT ![p] = ended] /\ linked' = [linked EXCEPT ![p] = p]
                /\ UNCHANGED stranded
             \/ /\ ended = "failed"                         \* the exception goes on
                /\ plan' = [plan EXCEPT ![p] = "executing"]
                /\ stranded' = stranded \cup {p} /\ UNCHANGED linked
    /\ UNCHANGED <<jobs, live, at, lost, asker>>

BuildStep(j) ==
    /\ \/ CodegenAnswers(j) \/ DockerAnswers(j) \/ HostRun(j) \/ HostRaises(j)
       \/ CloseWorkspace(j)
    /\ UNCHANGED <<asker, recordVars>>

NightlyCleanup == \E w \in WorkspaceIds : Cleanup(w) /\ UNCHANGED <<asker, recordVars>>

\* A death in submit_operator_intake leaves the plan as last written, and one inside
\* run_review leaves its row validating and its workspace open.
Death ==
    /\ Die
    /\ asker' = [j \in Builds |-> NoPlan]
    /\ \/ UNCHANGED <<plan, linked, review>>
       \/ \E p \in PlanIds :
             /\ Submitting(p)
             /\ \E status \in {"submitted", "executing"} : plan' = [plan EXCEPT ![p] = status]
             /\ \E row \in {"none", "validating"} : review' = [review EXCEPT ![p] = row]
             /\ UNCHANGED linked
    /\ stranded' = {p \in PlanIds : plan'[p] \in {"submitted", "executing"}}

OperatorNext ==
    \/ \E p \in PlanIds : SubmitRefused(p) \/ SubmitUnreadable(p) \/ SubmitReview(p)
    \/ \E p \in PlanIds, j \in Builds, intake \in Intakes : SubmitBuild(p, j, intake)
    \/ \E j \in Builds : Direct(j) \/ BuildStep(j) \/ ReturnBuild(j)
    \/ NightlyCleanup
    \/ Death

OperatorSpec == OperatorInit /\ [][OperatorNext]_operatorVars

-------------------------------------------------------------------------------
\* A completed build was accepted, and one with a criterion that is required passed its
\* verification, and the review gate of this very attempt if it has one, whatever earlier
\* attempts it took results from.
CompletedIsSound ==
    \A j \in Builds : jobs[j].status = "completed" =>
        /\ jobs[j].accepted
        /\ ~jobs[j].optional => jobs[j].verified = "passed"
        /\ jobs[j].gated /\ jobs[j].verified = "passed" => jobs[j].verdict = "clear"

\* Nothing that counts against a limit or reads as work in progress is left over by the
\* normal course of things: an active workspace has a build, an executing plan has a
\* submission, or a death or an exception cut theirs short.
Held ==
    /\ \A w \in InStatus(wsStatus, "active") \ lost : InUse(w)
    /\ \A p \in PlanIds : plan[p] \in {"submitted", "executing"} =>
          p \in stranded \/ \E j \in Builds : at[j] # "nowhere" /\ asker[j] = p

\* create() keeps its limit: what is active beyond it was opened again by a resume, or
\* is the wreck of one that died.
LimitHolds ==
    Cardinality({w \in InStatus(wsStatus, "active") \ lost :
                    ~ \E j \in Builds : live[j].skip /\ live[j].ws = w}) <= MaxActive

\* Nothing is held over: what is open is in use, and no more of it than create() allows.
NothingIsHeldOver == Held /\ LimitHolds

\* What a plan says of its job is what the job's row says.
PlanTellsTruth ==
    \A p \in PlanIds :
        /\ plan[p] \in {"completed", "failed"} => linked[p] # NoLink
        /\ linked[p] \in Builds => jobs[linked[p]].status = plan[p]
        /\ linked[p] \in PlanIds => review[linked[p]] = plan[p]

\* The guard before Step 4 says: "a build that produced zero changes must not pass".
NoEmptyBuild == \A j \in Builds : jobs[j].status = "completed" => jobs[j].mode = "engine"
===============================================================================
