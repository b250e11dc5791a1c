------------------------------- MODULE BuildJobs -------------------------------
(***************************************************************************)
(* build/service.py: run_build, resume_build and the stages they share, over *)
(* the workspaces.                                                           *)
(*                                                                         *)
(* A build is suspended only while the language model writes a plan and      *)
(* while Docker tests it.  Everything else is one synchronous stretch, during *)
(* which no other coroutine runs (Busy), but the process may die.  The job's  *)
(* row is written once, at the end: a build that dies leaves no row.          *)
(***************************************************************************)
EXTENDS Workspaces

CONSTANTS Builds,   \* job identifiers: every run and every resume draws one
          Intakes   \* what may be asked for: a plan or none, a review gate or none, and
                    \* acceptance criteria that are all optional or not

ASSUME IntakeAssumption ==
    Intakes \subseteq [plan : {"none", "given"}, gated : BOOLEAN, optional : BOOLEAN]

VARIABLES
    jobs,   \* the saved rows, by job
    live,   \* the same record in memory, while the job runs
    at,     \* where the job's coroutine is
    lost    \* workspaces left open by a death or an escaped exception

buildVars == <<wsVars, jobs, live, at, lost>>

PlanKinds == {"none", "given", "generated"}
Places == {"nowhere", "codegen", "docker", "host", "saved", "returned"}

\* BuildJob, as much of it as decides what happens
Job == [status : {"none", "running", "completed", "failed", "blocked"},
        plan : PlanKinds,                            \* intake.implementation_plan
        gated : BOOLEAN,                         \* run_post_build_review, with a blocking gate
        optional : BOOLEAN,                      \* there are criteria, and none is required
        built : BOOLEAN,                         \* has_checkpoint(BUILT)
        mode : {"marker", "engine"},             \* implementation_mode
        verified : {"no", "failed", "passed"},   \* verification_results, once VERIFIED
        accepted : BOOLEAN,                      \* acceptance.accepted, once evaluated
        verdict : {"none", "clear", "blocking"}, \* of this attempt's post-build review
        skip : BOOLEAN,                          \* can_skip_completed_steps, never saved
        ws : WorkspaceIds \cup {NoWorkspace}]

NewJob(intake) ==
    [status |-> "running", plan |-> intake.plan, gated |-> intake.gated,
     optional |-> intake.optional, built |-> FALSE, mode |-> "marker", verified |-> "no",
     accepted |-> FALSE, verdict |-> "none", skip |-> FALSE, ws |-> NoWorkspace]

NoJob == [NewJob([plan |-> "none", gated |-> FALSE, optional |-> FALSE]) EXCEPT !.status = "none"]

BuildsTypeOK ==
    /\ WorkspacesTypeOK
    /\ jobs \in [Builds -> Job] /\ live \in [Builds -> Job]
    /\ at \in [Builds -> Places]
    /\ lost \subseteq WorkspaceIds

BuildsInit ==
    /\ WorkspacesInit
    /\ jobs = [j \in Builds |-> NoJob] /\ live = [j \in Builds |-> NoJob]
    /\ at = [j \in Builds |-> "nowhere"]
    /\ lost = {}

Busy == \E j \in Builds : at[j] \in {"host", "saved", "returned"}
Idle == ~Busy
NewBuilds == {j \in Builds : jobs[j].status = "none" /\ at[j] = "nowhere"}
IsNew(j) == j \in NewBuilds /\ j = CHOOSE k \in NewBuilds : TRUE

-------------------------------------------------------------------------------
(* The stages, each as the records it may leave behind.                       *)

\* _execute_build: the operations one by one, up to the first that fails
Applied(r) ==
    IF r.plan = "none" THEN {[r EXCEPT !.mode = "marker", !.built = TRUE]}
    ELSE {[r EXCEPT !.mode = "engine", !.built = TRUE],
          [r EXCEPT !.mode = "engine", !.status = "failed"]}

\* Step 3: a BUILT checkpoint is reused; with no plan only the marker is written.
Executed(r) == IF r.skip /\ r.built THEN {r} ELSE Applied(r)

\* The codegen fallback guard.  This attempt's codegen failed only if it left no plan.
Guarded(r) ==
    IF r.status = "running" /\ r.mode = "marker" /\ r.plan = "none"
    THEN [r EXCEPT !.status = "failed", !.accepted = FALSE]
    ELSE r

\* run_verification_suite: tests, lint and types, each with its timeout
SuiteResults == {"passed", "failed"}

\* Step 4: a VERIFIED checkpoint counts only if all its results passed.
Verified(r) ==
    IF r.status = "failed" \/ (r.skip /\ r.verified = "passed") THEN {r}
    ELSE {[r EXCEPT !.verified = v] : v \in SuiteResults}

\* _apply_review_gate_policy: the findings are below or above the gate's limits
Gated(r) == {[r EXCEPT !.verdict = "clear"],
             [r EXCEPT !.verdict = "blocking", !.status = "blocked"]}

\* Step 6: the review is never reused.  Without a review service the build fails.
Reviewed(r) ==
    IF r.status = "failed" \/ r.verified # "passed" \/ ~r.gated THEN {r}
    ELSE Gated(r) \cup {[r EXCEPT !.status = "failed"]}

\* Criteria arrive pending, and a failed verification fails all of them; the verdict
\* looks at the required ones only.
Evaluated(r) ==
    IF r.optional THEN {TRUE} ELSE {a \in BOOLEAN : a => r.verified = "passed"}

\* Step 7: an evaluation that accepted is reused.
Accepted(r) ==
    IF r.status = "failed" \/ (r.skip /\ r.accepted) THEN {r}
    ELSE {[r EXCEPT !.accepted = a] : a \in Evaluated(r)}

\* _finalize: the status the row is saved with
MutantFinal(r) ==                                        \* forgets BLOCKED
    IF r.status = "failed" THEN r
    ELSE [r EXCEPT !.status = IF r.accepted THEN "completed" ELSE "failed"]
Final(r) ==
    IF r.status \in {"failed", "blocked"} THEN r
    ELSE [r EXCEPT !.status = IF r.accepted THEN "completed" ELSE "failed"]

\* The post-build review is a review job: it opens a workspace of its own if the
\* limit allows, goes on without one if not, and closes it before it returns.
ReviewCloses(judged) ==
    IF judged.verdict # "none" /\ CanCreate(wsStatus)
    THEN /\ Unused(wsStatus) # {}
         /\ wsStatus' = [wsStatus EXCEPT ![NewId(wsStatus)] = "completed"]
         /\ wsDir' = wsDir \cup {NewId(wsStatus)}
    ELSE UNCHANGED wsVars

-------------------------------------------------------------------------------
Begin(j, r, place) ==
    /\ live' = [live EXCEPT ![j] = r]
    /\ at' = [at EXCEPT ![j] = place]

Save(j, r) ==
    /\ jobs' = [jobs EXCEPT ![j] = [r EXCEPT !.skip = FALSE]]
    /\ live' = [live EXCEPT ![j] = r]
    /\ at' = [at EXCEPT ![j] = "saved"]

AfterSetup(r) == IF r.plan = "none" THEN "codegen" ELSE "host"

\* run_build, turned away: an invalid intake, capability constraints, the execution
\* policy, or a workspace that cannot be created.
RefuseBuild(j, intake, status) ==
    /\ Idle /\ IsNew(j)
    /\ Save(j, [NewJob(intake) EXCEPT !.status = status])
    /\ UNCHANGED <<wsVars, lost>>

\* run_build up to the synced workspace; a failed sync is saved as a failed build
RunBuild(j, intake) ==
    /\ Idle /\ IsNew(j) /\ CanCreate(wsStatus) /\ Unused(wsStatus) # {}
    /\ LET w == NewId(wsStatus)
           r == [NewJob(intake) EXCEPT !.ws = w]
       IN /\ wsStatus' = Opened(wsStatus, w) /\ wsDir' = wsDir \cup {w}
          /\ \/ Begin(j, r, AfterSetup(r)) /\ UNCHANGED jobs
             \/ Save(j, [r EXCEPT !.status = "failed"])
    /\ UNCHANGED lost

\* What resume_build copies: not the review's verdict, and not the workspace yet
Resumable(p) == jobs[p].status \in {"failed", "blocked"}
Copied(p) == [jobs[p] EXCEPT !.status = "running", !.verdict = "none",
                             !.ws = NoWorkspace]
Reusable(p) == jobs[p].ws \in wsDir

ResumeInPlace(j, p) ==
    /\ Idle /\ IsNew(j) /\ Resumable(p) /\ Reusable(p)
    /\ wsStatus' = Opened(wsStatus, jobs[p].ws)
    /\ LET r == [Copied(p) EXCEPT !.skip = TRUE, !.ws = jobs[p].ws]
       IN Begin(j, r, AfterSetup(r))
    /\ UNCHANGED <<wsDir, jobs, lost>>

\* A sync that raises here is caught by nobody.
ResumeElsewhere(j, p) ==
    /\ Idle /\ IsNew(j) /\ Resumable(p) /\ ~Reusable(p)
    /\ CanCreate(wsStatus) /\ Unused(wsStatus) # {}
    /\ LET w == NewId(wsStatus)
           r == [Copied(p) EXCEPT !.ws = w]
       IN /\ wsStatus' = Opened(wsStatus, w) /\ wsDir' = wsDir \cup {w}
          /\ \/ Begin(j, r, AfterSetup(r)) /\ UNCHANGED lost
             \/ lost' = lost \cup {w} /\ UNCHANGED <<live, at>>
    /\ UNCHANGED jobs

\* The execution policy is asked again, and may now refuse.
RefuseResume(j, p) ==
    /\ Idle /\ IsNew(j) /\ Resumable(p)
    /\ Save(j, [Copied(p) EXCEPT !.status = "blocked"])
    /\ UNCHANGED <<wsVars, lost>>

\* generate_build_operations: operations that parse, or an exception
Generated == {"generated", "none"}

CodegenAnswers(j) ==
    /\ Idle /\ at[j] = "codegen"
    /\ \E plan \in Generated :
          Begin(j, [live[j] EXCEPT !.plan = plan], IF plan = "none" THEN "host" ELSE "docker")
    /\ UNCHANGED <<wsVars, jobs, lost>>

\* run_project_in_docker: the tests passed, at once or after fixes; they did not; it raised.
DockerResults == {"completed", "failed", "raised"}

\* When it reports, the plan is applied to the workspace as well.  A success is "completed"
\* here, and _finalize looks at an acceptance that nothing has evaluated.
DockerAnswers(j) ==
    /\ Idle /\ at[j] = "docker"
    /\ \E result \in DockerResults :
          Save(j, Final(IF result = "raised" THEN [live[j] EXCEPT !.status = "failed"]
                        ELSE [live[j] EXCEPT !.mode = "engine", !.status = result]))
    /\ UNCHANGED <<wsVars, lost>>

\* _continue_from_workspace from Step 3 to the saved row
HostRun(j) ==
    /\ at[j] = "host"
    /\ \E built \in Executed(live[j]) : \E checked \in Verified(Guarded(built)) :
       \E judged \in Reviewed(checked) : \E r \in Accepted(judged) :
          Save(j, Final(r)) /\ ReviewCloses(judged)
    /\ UNCHANGED lost

\* An analyzer, a file or the database raises in the middle of it.
HostRaises(j) ==
    /\ at[j] = "host"
    /\ lost' = lost \cup {live[j].ws}
    /\ Begin(j, NoJob, "returned")
    /\ UNCHANGED <<wsVars, jobs>>

\* The rest of _finalize: the workspace is closed after the row is saved.
MutantCloseWorkspace(j) ==                               \* only a completed build closes it
    /\ at[j] = "saved"
    /\ wsStatus' = IF live[j].ws \in WorkspaceIds /\ live[j].status = "completed"
                   THEN Closed(wsStatus, live[j].ws, live[j].status) ELSE wsStatus
    /\ at' = [at EXCEPT ![j] = "returned"]
    /\ UNCHANGED <<wsDir, jobs, live, lost>>
CloseWorkspace(j) ==
    /\ at[j] = "saved"
    /\ wsStatus' = IF live[j].ws \in WorkspaceIds
                   THEN Closed(wsStatus, live[j].ws, live[j].status) ELSE wsStatus
    /\ at' = [at EXCEPT ![j] = "returned"]
    /\ UNCHANGED <<wsDir, jobs, live, lost>>

\* The coroutine returns to its caller.
Returned(j) ==
    /\ at[j] = "returned"
    /\ Begin(j, NoJob, "nowhere")
    /\ UNCHANGED <<wsVars, jobs, lost>>

\* The nightly cleanup: the TTL is longer than any build is suspended.
InUse(w) == \E j \in Builds : at[j] # "nowhere" /\ live[j].ws = w
Cleanup(w) ==
    /\ Idle /\ ~InUse(w)
    /\ CleanupExpired(w)
    /\ UNCHANGED <<jobs, live, at, lost>>

\* The process dies: rows and workspaces stay as they are.  It may die inside create()
\* or cleanup(), or inside a review, a build's or one of its own, with its workspace open.
Forget ==
    /\ live' = [j \in Builds |-> NoJob]
    /\ at' = [j \in Builds |-> "nowhere"]
    /\ UNCHANGED jobs

Die ==
    /\ Forget
    /\ \/ UNCHANGED wsVars
       \/ Idle /\ HalfCreated
       \/ Idle /\ \E w \in WorkspaceIds : ~InUse(w) /\ HalfCleaned(w)
       \/ /\ Idle \/ \E j \in Builds : at[j] = "host" /\ live[j].gated
          /\ CanCreate(wsStatus) /\ Unused(wsStatus) # {}
          /\ wsStatus' = Opened(wsStatus, NewId(wsStatus))
          /\ wsDir' = wsDir \cup {NewId(wsStatus)}
    /\ lost' = InStatus(wsStatus', "active")
===============================================================================
