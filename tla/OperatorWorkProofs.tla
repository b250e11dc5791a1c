--------------------------- MODULE OperatorWorkProofs ---------------------------
(***************************************************************************)
(* Theorems about OperatorWork, for any builds, workspaces, plans, intakes    *)
(* and limit.                                                                *)
(***************************************************************************)
EXTENDS OperatorWork, FiniteSetTheorems, TLAPS

-------------------------------------------------------------------------------
(* Records: what a build carries from stage to stage and from attempt to attempt. *)

\* What was accepted was verified, unless no criterion was required; and without a plan
\* nothing was applied or accepted.
RecordOK(r) ==
    /\ r.accepted /\ ~r.optional => r.verified = "passed"
    /\ r.plan = "none" => r.mode = "marker" /\ ~r.accepted

\* What CompletedIsSound says of one row
RowSound(r) ==
    r.status = "completed" =>
        /\ r.accepted
        /\ ~r.optional => r.verified = "passed"
        /\ r.gated /\ r.verified = "passed" => r.verdict = "clear"

\* A job's row, its record in memory and the place of its coroutine fit together.
Fits(row, r, place) ==
    /\ RecordOK(row) /\ RowSound(row) /\ row.status \in {"none"} \cup JobEnds
    /\ RecordOK(r)
    /\ place = "nowhere" => r = NoJob
    /\ place \in {"codegen", "docker", "host"} =>
          r.status = "running" /\ row.status = "none" /\ r.ws \in WorkspaceIds
    /\ place \in {"codegen", "docker"} => ~r.accepted
    /\ place = "codegen" => r.plan = "none"
    /\ place = "docker" => r.plan # "none"
    /\ place = "saved" => r.status \in JobEnds /\ row.status = r.status
    /\ place = "returned" =>
          \/ r = NoJob /\ row.status = "none"
          \/ r.status \in JobEnds /\ row.status = r.status

\* The record of a job that was never created
LEMMA NoJobFacts ==
    /\ NoJob \in Job /\ RecordOK(NoJob) /\ RowSound(NoJob)
    /\ NoJob.status = "none" /\ ~NoJob.skip /\ NoJob.ws = NoWorkspace
BY WorkspaceAssumption DEF NoJob, NewJob, Job, PlanKinds, RecordOK, RowSound

\* A new BuildJob has applied and accepted nothing.
LEMMA NewJobFacts ==
    ASSUME NEW intake \in Intakes
    PROVE  /\ NewJob(intake) \in Job /\ RecordOK(NewJob(intake))
           /\ NewJob(intake).status = "running" /\ NewJob(intake).plan = intake.plan
           /\ ~NewJob(intake).accepted /\ ~NewJob(intake).skip
           /\ NewJob(intake).ws = NoWorkspace
<1>1. intake \in [plan : {"none", "given"}, gated : BOOLEAN, optional : BOOLEAN]
  BY IntakeAssumption
<1> QED
  BY <1>1 DEF NewJob, Job, PlanKinds, RecordOK

\* Fields no stage looks at: the workspace, and skip in a saved row
LEMMA OtherFields ==
    ASSUME NEW r \in Job, NEW w \in WorkspaceIds \cup {NoWorkspace}, NEW s \in BOOLEAN
    PROVE  /\ [r EXCEPT !.ws = w] \in Job /\ [r EXCEPT !.skip = s] \in Job
           /\ RecordOK(r) => RecordOK([r EXCEPT !.ws = w]) /\ RecordOK([r EXCEPT !.skip = s])
           /\ RowSound(r) => RowSound([r EXCEPT !.ws = w]) /\ RowSound([r EXCEPT !.skip = s])
BY DEF Job, RecordOK, RowSound

\* A status other than completed says nothing that could be false.
LEMMA OtherStatus ==
    ASSUME NEW r \in Job, NEW s \in {"running", "failed", "blocked"}, RecordOK(r)
    PROVE  /\ [r EXCEPT !.status = s] \in Job /\ RecordOK([r EXCEPT !.status = s])
           /\ RowSound([r EXCEPT !.status = s])
BY DEF Job, RecordOK, RowSound

-------------------------------------------------------------------------------
(* The stages of _continue_from_workspace, in their order *)

\* _execute_build
LEMMA ExecutedFacts ==
    ASSUME NEW r \in Job, RecordOK(r), r.status = "running", NEW b \in Executed(r)
    PROVE  /\ b \in Job /\ RecordOK(b) /\ b.status \in {"running", "failed"}
           /\ b.plan = r.plan /\ b.skip = r.skip /\ b.ws = r.ws /\ b.gated = r.gated
<1>1. CASE r.skip /\ r.built
  BY <1>1 DEF Executed
<1>2. CASE ~(r.skip /\ r.built)
  <2>1. b \in Applied(r)
    BY <1>2 DEF Executed
  <2>2. CASE r.plan = "none"
    BY <2>1, <2>2 DEF Applied, Job, RecordOK
  <2>3. CASE r.plan # "none"
    <3>1. \/ b = [r EXCEPT !.mode = "engine", !.built = TRUE]
          \/ b = [r EXCEPT !.mode = "engine", !.status = "failed"]
      BY <2>1, <2>3 DEF Applied
    <3> QED
      BY <3>1, <2>3 DEF Job, RecordOK
  <2> QED
    BY <2>2, <2>3
<1> QED
  BY <1>1, <1>2

\* The guard after codegen: only a build with a plan goes on.
LEMMA GuardedFacts ==
    ASSUME NEW b \in Job, RecordOK(b), b.status \in {"running", "failed"}
    PROVE  LET g == Guarded(b)
           IN  /\ g \in Job /\ RecordOK(g) /\ g.status \in {"running", "failed"}
               /\ g.plan = b.plan /\ g.skip = b.skip /\ g.ws = b.ws /\ g.gated = b.gated
               /\ g.status = "running" => g.plan # "none"
<1>1. CASE b.status = "running" /\ b.mode = "marker" /\ b.plan = "none"
  BY <1>1 DEF Guarded, Job, RecordOK
<1>2. CASE ~(b.status = "running" /\ b.mode = "marker" /\ b.plan = "none")
  BY <1>2 DEF Guarded, RecordOK
<1> QED
  BY <1>1, <1>2

\* Until acceptance is evaluated, what was accepted may be out of date; it is reused only
\* together with the verification it rests on.
LEMMA VerifiedFacts ==
    ASSUME NEW g \in Job, RecordOK(g), g.status \in {"running", "failed"},
           g.status = "running" => g.plan # "none", NEW v \in Verified(g)
    PROVE  /\ v \in Job /\ v.status = g.status
           /\ v.plan = g.plan /\ v.skip = g.skip /\ v.ws = g.ws /\ v.gated = g.gated
           /\ v.status = "failed" => RecordOK(v)
           /\ v.status = "running" => v.plan # "none"
           /\ v.skip /\ v.accepted /\ ~v.optional => v.verified = "passed"
<1>1. CASE g.status = "failed" \/ (g.skip /\ g.verified = "passed")
  BY <1>1 DEF Verified, RecordOK
<1>2. CASE ~(g.status = "failed" \/ (g.skip /\ g.verified = "passed"))
  <2>1. PICK result \in {"passed", "failed"} : v = [g EXCEPT !.verified = result]
    BY <1>2 DEF Verified, SuiteResults
  <2> QED
    BY <1>2, <2>1 DEF Job, RecordOK
<1> QED
  BY <1>1, <1>2

\* The review gate
LEMMA ReviewedFacts ==
    ASSUME NEW v \in Job, v.status \in {"running", "failed"},
           v.status = "failed" => RecordOK(v), v.status = "running" => v.plan # "none",
           v.skip /\ v.accepted /\ ~v.optional => v.verified = "passed",
           NEW w \in Reviewed(v)
    PROVE  /\ w \in Job /\ w.status \in {"running", "failed", "blocked"}
           /\ w.plan = v.plan /\ w.skip = v.skip /\ w.ws = v.ws
           /\ w.status = "failed" => RecordOK(w)
           /\ w.status # "failed" => w.plan # "none"
           /\ w.skip /\ w.accepted /\ ~w.optional => w.verified = "passed"
           /\ w.status = "running" /\ w.gated /\ w.verified = "passed" => w.verdict = "clear"
<1>1. CASE v.status = "failed" \/ v.verified # "passed" \/ ~v.gated
  BY <1>1 DEF Reviewed
<1>2. CASE ~(v.status = "failed" \/ v.verified # "passed" \/ ~v.gated)
  <2>1. \/ w = [v EXCEPT !.status = "failed"]
        \/ w = [v EXCEPT !.verdict = "clear"]
        \/ w = [v EXCEPT !.verdict = "blocking", !.status = "blocked"]
    BY <1>2 DEF Reviewed, Gated
  <2>2. CASE w = [v EXCEPT !.status = "failed"]
    BY <1>2, <2>2 DEF Job, RecordOK
  <2>3. CASE w = [v EXCEPT !.verdict = "clear"]
    BY <1>2, <2>3 DEF Job
  <2>4. CASE w = [v EXCEPT !.verdict = "blocking", !.status = "blocked"]
    BY <1>2, <2>4 DEF Job
  <2> QED
    BY <2>1, <2>2, <2>3, <2>4
<1> QED
  BY <1>1, <1>2

\* _evaluate_acceptance
LEMMA AcceptedFacts ==
    ASSUME NEW w \in Job, w.status \in {"running", "failed", "blocked"},
           w.status = "failed" => RecordOK(w), w.status # "failed" => w.plan # "none",
           w.skip /\ w.accepted /\ ~w.optional => w.verified = "passed",
           w.status = "running" /\ w.gated /\ w.verified = "passed" => w.verdict = "clear",
           NEW a \in Accepted(w)
    PROVE  /\ a \in Job /\ RecordOK(a) /\ a.status = w.status
           /\ a.skip = w.skip /\ a.ws = w.ws
           /\ a.status = "running" /\ a.gated /\ a.verified = "passed" => a.verdict = "clear"
<1>1. CASE w.status = "failed" \/ (w.skip /\ w.accepted)
  BY <1>1 DEF Accepted, RecordOK
<1>2. CASE ~(w.status = "failed" \/ (w.skip /\ w.accepted))
  <2>1. PICK e \in Evaluated(w) : a = [w EXCEPT !.accepted = e]
    BY <1>2 DEF Accepted
  <2>2. e \in BOOLEAN /\ (e /\ ~w.optional => w.verified = "passed")
    BY <2>1 DEF Evaluated
  <2> QED
    BY <1>2, <2>1, <2>2 DEF Job, RecordOK
<1> QED
  BY <1>1, <1>2

\* _finalize: completed needs acceptance.
LEMMA FinalFacts ==
    ASSUME NEW r \in Job, RecordOK(r), r.status \in {"running", "completed", "failed", "blocked"},
           r.status \in {"running", "completed"} /\ r.gated /\ r.verified = "passed" /\ r.accepted
                => r.verdict = "clear"
    PROVE  LET f == Final(r)
           IN  /\ f \in Job /\ RecordOK(f) /\ RowSound(f) /\ f.status \in JobEnds
               /\ f.skip = r.skip /\ f.ws = r.ws
               /\ f.status = "completed" => r.accepted
<1>1. CASE r.status \in {"failed", "blocked"}
  BY <1>1 DEF Final, RowSound, JobEnds
<1>2. CASE r.status \notin {"failed", "blocked"} /\ r.accepted
  BY <1>2 DEF Final, RowSound, JobEnds, Job, RecordOK
<1>3. CASE r.status \notin {"failed", "blocked"} /\ ~r.accepted
  BY <1>3 DEF Final, RowSound, JobEnds, Job, RecordOK
<1> QED
  BY <1>1, <1>2, <1>3

\* The whole of _continue_from_workspace: what is saved is sound.
LEMMA HostOutcome ==
    ASSUME NEW r \in Job, RecordOK(r), r.status = "running",
           NEW b \in Executed(r), NEW v \in Verified(Guarded(b)), NEW w \in Reviewed(v),
           NEW a \in Accepted(w)
    PROVE  /\ Final(a) \in Job /\ RecordOK(Final(a)) /\ RowSound(Final(a))
           /\ Final(a).status \in JobEnds
           /\ Final(a).skip = r.skip /\ Final(a).ws = r.ws
<1>1. /\ b \in Job /\ RecordOK(b) /\ b.status \in {"running", "failed"}
      /\ b.skip = r.skip /\ b.ws = r.ws
  BY ExecutedFacts
<1> DEFINE g == Guarded(b)
<1>2. /\ g \in Job /\ RecordOK(g) /\ g.status \in {"running", "failed"}
      /\ g.skip = b.skip /\ g.ws = b.ws
      /\ g.status = "running" => g.plan # "none"
  BY <1>1, GuardedFacts
<1>3. v \in Verified(g)
  OBVIOUS
<1> HIDE DEF g
<1>4. /\ v \in Job /\ v.status \in {"running", "failed"}
      /\ v.skip = g.skip /\ v.ws = g.ws
      /\ v.status = "failed" => RecordOK(v)
      /\ v.status = "running" => v.plan # "none"
      /\ v.skip /\ v.accepted /\ ~v.optional => v.verified = "passed"
  BY <1>2, <1>3, VerifiedFacts
<1>5. /\ w \in Job /\ w.status \in {"running", "failed", "blocked"}
      /\ w.skip = v.skip /\ w.ws = v.ws
      /\ w.status = "failed" => RecordOK(w)
      /\ w.status # "failed" => w.plan # "none"
      /\ w.skip /\ w.accepted /\ ~w.optional => w.verified = "passed"
      /\ w.status = "running" /\ w.gated /\ w.verified = "passed" => w.verdict = "clear"
  BY <1>4, ReviewedFacts
<1>6. /\ a \in Job /\ RecordOK(a) /\ a.status \in {"running", "failed", "blocked"}
      /\ a.skip = w.skip /\ a.ws = w.ws
      /\ a.status = "running" /\ a.gated /\ a.verified = "passed" => a.verdict = "clear"
  BY <1>5, AcceptedFacts
<1>7. /\ Final(a) \in Job /\ RecordOK(Final(a)) /\ RowSound(Final(a))
      /\ Final(a).status \in JobEnds /\ Final(a).skip = a.skip /\ Final(a).ws = a.ws
  BY <1>6, FinalFacts
<1> QED
  BY <1>1, <1>2, <1>4, <1>5, <1>6, <1>7

\* Docker's answer, after which nothing is accepted: whatever it says, the build fails.
LEMMA DockerOutcome ==
    ASSUME NEW r \in Job, RecordOK(r), ~r.accepted, r.status = "running",
           NEW result \in DockerResults, r.plan # "none"
    PROVE  LET q == IF result = "raised" THEN [r EXCEPT !.status = "failed"]
                    ELSE [r EXCEPT !.mode = "engine", !.status = result]
           IN  /\ Final(q) \in Job /\ RecordOK(Final(q)) /\ RowSound(Final(q))
               /\ Final(q).status = "failed" /\ Final(q).skip = r.skip /\ Final(q).ws = r.ws
<1> DEFINE q == IF result = "raised" THEN [r EXCEPT !.status = "failed"]
                ELSE [r EXCEPT !.mode = "engine", !.status = result]
<1>1. /\ q \in Job /\ RecordOK(q) /\ ~q.accepted /\ q.status \in {"completed", "failed"}
      /\ q.skip = r.skip /\ q.ws = r.ws
  BY DEF DockerResults, Job, RecordOK
<1> HIDE DEF q
<1>2. /\ Final(q) \in Job /\ RecordOK(Final(q)) /\ RowSound(Final(q))
      /\ Final(q).skip = r.skip /\ Final(q).ws = r.ws
  BY <1>1, FinalFacts
<1>3. Final(q).status = "failed"
  BY <1>1 DEF Final, Job
<1> QED
  BY <1>2, <1>3 DEF q

-------------------------------------------------------------------------------
(* The inductive invariant, in the parts that the steps disturb separately *)

Active == InStatus(wsStatus, "active")
BusyPlaces == {"host", "saved", "returned"}

RecordsInv == \A j \in Builds : Fits(jobs[j], live[j], at[j])

\* One coroutine at most is between two awaits.
Alone == \A j, k \in Builds : at[j] \in BusyPlaces /\ at[k] \in BusyPlaces => j = k

\* The workspaces LimitHolds counts
Counted == {w \in Active \ lost : ~ \E j \in Builds : live[j].skip /\ live[j].ws = w}

WorkspaceInv ==
    /\ \A w \in Active \ lost : InUse(w)
    /\ \A j \in Builds : at[j] = "returned" /\ live[j].ws \in WorkspaceIds =>
          wsStatus[live[j].ws] # "active"
    /\ Cardinality(Counted) <= MaxActive

PlansInv ==
    \A p \in PlanIds :
        /\ plan[p] = "none" => linked[p] = NoLink
        /\ linked[p] \in Builds => /\ jobs[linked[p]].status = plan[p]
                                   /\ jobs[linked[p]].status # "none"
        /\ linked[p] \in PlanIds => linked[p] = p /\ review[p] = plan[p]
        /\ plan[p] \in {"completed", "failed"} => linked[p] # NoLink
        /\ plan[p] \in {"submitted", "executing"} =>
              p \in stranded \/ \E j \in Builds : at[j] # "nowhere" /\ asker[j] = p

BuildsInv == BuildsTypeOK /\ RecordsInv /\ Alone /\ WorkspaceInv
OperatorInv == OperatorTypeOK /\ BuildsInv /\ PlansInv

-------------------------------------------------------------------------------
(* A step of one build, seen from outside *)

\* Only this build changes, it was its turn, and it still fits.
Turn(j) ==
    /\ jobs' \in [Builds -> Job] /\ live' \in [Builds -> Job] /\ at' \in [Builds -> Places]
    /\ \A k \in Builds \ {j} : jobs'[k] = jobs[k] /\ live'[k] = live[k] /\ at'[k] = at[k]
    /\ Fits(jobs'[j], live'[j], at'[j])
    /\ jobs[j].status # "none" => jobs'[j] = jobs[j]
    /\ Idle \/ at[j] \in BusyPlaces

\* What is active and not lost afterwards is held as before, or by this build: within the
\* limit, or because it resumes there.
Claim(j) ==
    /\ WorkspacesTypeOK' /\ lost' \subseteq WorkspaceIds
    /\ \A w \in Active' \ lost' :
          \/ /\ w \in Active \ lost
             /\ live[j].ws = w => /\ at'[j] # "nowhere" /\ live'[j].ws = w
                                  /\ live[j].skip => live'[j].skip
          \/ at'[j] # "nowhere" /\ live'[j].ws = w /\ (live'[j].skip \/ CanCreate(wsStatus))
    /\ at'[j] = "returned" /\ live'[j].ws \in WorkspaceIds => wsStatus'[live'[j].ws] # "active"

\* Sets of workspaces can be counted.
LEMMA FiniteWorkspaces ==
    ASSUME NEW S \in SUBSET WorkspaceIds
    PROVE  IsFiniteSet(S) /\ Cardinality(S) \in Nat
BY WorkspaceAssumption, FS_Subset, FS_CardinalityType

\* A build's turn that claims no workspace out of turn keeps the invariant.
LEMMA BuildTurn ==
    ASSUME BuildsInv, NEW j \in Builds, Turn(j), Claim(j)
    PROVE  BuildsInv'
<1>1. BuildsTypeOK'
  BY DEF Turn, Claim, BuildsTypeOK
<1>2. RecordsInv'
  BY DEF Turn, BuildsInv, RecordsInv
<1>3. \A k \in Builds : at[k] \in BusyPlaces => k = j
  BY DEF Turn, BuildsInv, Alone, Idle, Busy, BusyPlaces
<1>4. Alone'
  BY <1>3 DEF Turn, Alone
<1>5. ASSUME NEW w \in Active' \ lost' PROVE InUse(w)'
  <2>1. CASE at'[j] # "nowhere" /\ live'[j].ws = w
    BY <2>1 DEF InUse
  <2>2. CASE w \in Active \ lost /\ live[j].ws # w
    <3>1. PICK k \in Builds : at[k] # "nowhere" /\ live[k].ws = w
      BY <2>2 DEF BuildsInv, WorkspaceInv, InUse
    <3>2. k # j /\ at'[k] = at[k] /\ live'[k] = live[k]
      BY <2>2, <3>1 DEF Turn
    <3> QED
      BY <3>1, <3>2 DEF InUse
  <2> QED
    BY <1>5, <2>1, <2>2 DEF Claim
<1>6. ASSUME NEW k \in Builds, at'[k] = "returned", live'[k].ws \in WorkspaceIds
      PROVE  wsStatus'[live'[k].ws] # "active"
  <2>1. CASE k = j
    BY <1>6, <2>1 DEF Claim
  <2>2. CASE k # j
    BY <1>3, <1>6, <2>2 DEF Turn, BusyPlaces
  <2> QED
    BY <2>1, <2>2
<1>7. ASSUME NEW w \in Counted'
      PROVE  w \in Counted \/ (live'[j].ws = w /\ CanCreate(wsStatus))
  <2>1. w \in Active' \ lost' /\ \A k \in Builds : ~(live'[k].skip /\ live'[k].ws = w)
    BY <1>7 DEF Counted
  <2>2. CASE at'[j] # "nowhere" /\ live'[j].ws = w /\ (live'[j].skip \/ CanCreate(wsStatus))
    BY <2>1, <2>2
  <2>3. CASE /\ w \in Active \ lost
             /\ live[j].ws = w => /\ at'[j] # "nowhere" /\ live'[j].ws = w
                                  /\ live[j].skip => live'[j].skip
    <3>1. ASSUME NEW k \in Builds, live[k].skip, live[k].ws = w PROVE FALSE
      BY <2>1, <2>3, <3>1 DEF Turn
    <3> QED
      BY <2>3, <3>1 DEF Counted
  <2> QED
    BY <2>1, <2>2, <2>3 DEF Claim
<1>8. Cardinality(Counted') <= MaxActive
  <2>0. Counted \subseteq WorkspaceIds /\ Active \subseteq WorkspaceIds /\ Counted \subseteq Active
    BY DEF Counted, Active, InStatus
  <2>1. /\ IsFiniteSet(Counted) /\ Cardinality(Counted) \in Nat
        /\ IsFiniteSet(Active) /\ Cardinality(Active) \in Nat
    BY <2>0, FiniteWorkspaces
  <2>2. CASE ~CanCreate(wsStatus)
    <3>1. Counted' \subseteq Counted
      BY <1>7, <2>2
    <3>2. Cardinality(Counted') <= Cardinality(Counted) /\ Cardinality(Counted') \in Nat
      BY <2>1, <3>1, FS_Subset, FS_CardinalityType
    <3> QED
      BY <2>1, <3>2, WorkspaceAssumption DEF BuildsInv, WorkspaceInv
  <2>3. CASE CanCreate(wsStatus)
    <3>1. Cardinality(Active) + 1 <= MaxActive
      BY <2>1, <2>3, WorkspaceAssumption DEF CanCreate, Active
    <3>2. Cardinality(Counted) <= Cardinality(Active)
      BY <2>0, <2>1, FS_Subset
    <3> DEFINE x == live'[j].ws
               top == Counted \cup {x}
    <3>3. Counted' \subseteq top
      BY <1>7
    <3> HIDE DEF x
    <3>4. /\ IsFiniteSet(top)
          /\ Cardinality(top) = Cardinality(Counted) \/ Cardinality(top) = Cardinality(Counted) + 1
      BY <2>1, FS_AddElement
    <3> HIDE DEF top
    <3>5. Cardinality(Counted') <= Cardinality(top) /\ Cardinality(Counted') \in Nat
      BY <3>3, <3>4, FS_Subset, FS_CardinalityType
    <3> QED
      BY <2>1, <3>1, <3>2, <3>4, <3>5, WorkspaceAssumption
  <2> QED
    BY <2>2, <2>3
<1> QED
  BY <1>1, <1>2, <1>4, <1>5, <1>6, <1>8 DEF BuildsInv, WorkspaceInv

\* Steps that leave the builds alone and open no workspace
LEMMA QuietBuilds ==
    ASSUME BuildsInv, UNCHANGED <<jobs, live, at, lost>>, WorkspacesTypeOK', Active' \subseteq Active
    PROVE  BuildsInv'
<1>1. BuildsTypeOK' /\ RecordsInv' /\ Alone'
  BY DEF BuildsInv, BuildsTypeOK, RecordsInv, Alone
<1>2. \A w \in Active' \ lost' : InUse(w)'
  BY DEF BuildsInv, WorkspaceInv, InUse
<1>3. ASSUME NEW j \in Builds, at'[j] = "returned", live'[j].ws \in WorkspaceIds
      PROVE  wsStatus'[live'[j].ws] # "active"
  BY <1>3 DEF BuildsInv, WorkspaceInv, Active, InStatus
<1>4. Counted' \subseteq Counted
  BY DEF Counted
<1>5. IsFiniteSet(Counted) /\ Cardinality(Counted) \in Nat
  BY FiniteWorkspaces DEF Counted, Active, InStatus
<1>6. Cardinality(Counted') <= Cardinality(Counted) /\ Cardinality(Counted') \in Nat
  BY <1>4, <1>5, FS_Subset, FS_CardinalityType
<1>7. Cardinality(Counted') <= MaxActive
  BY <1>5, <1>6, WorkspaceAssumption DEF BuildsInv, WorkspaceInv
<1> QED
  BY <1>1, <1>2, <1>3, <1>7 DEF BuildsInv, WorkspaceInv

-------------------------------------------------------------------------------
(* What the steps of a build have in common *)

\* A record put in memory, with the saved row left alone
LEMMA Began ==
    ASSUME BuildsInv, NEW j \in Builds, NEW r \in Job, NEW place \in Places,
           Begin(j, r, place), jobs' = jobs, Fits(jobs[j], r, place),
           Idle \/ at[j] \in BusyPlaces
    PROVE  Turn(j) /\ live'[j] = r /\ at'[j] = place
BY DEF BuildsInv, BuildsTypeOK, Begin, Turn

\* The row saved, once
LEMMA SavedOnce ==
    ASSUME BuildsInv, NEW j \in Builds, NEW r \in Job, Save(j, r),
           RecordOK(r), RowSound(r), r.status \in JobEnds, jobs[j].status = "none",
           Idle \/ at[j] \in BusyPlaces
    PROVE  Turn(j) /\ live'[j] = r /\ at'[j] = "saved"
<1> DEFINE row == [r EXCEPT !.skip = FALSE]
<1>1. row \in Job /\ RecordOK(row) /\ RowSound(row)
  BY OtherFields
<1>2. row.status = r.status
  BY DEF Job
<1> HIDE DEF row
<1>3. Fits(row, r, "saved")
  BY <1>1, <1>2 DEF Fits
<1>4. jobs' = [jobs EXCEPT ![j] = row] /\ live' = [live EXCEPT ![j] = r]
      /\ at' = [at EXCEPT ![j] = "saved"]
  BY DEF Save, row
<1>5. jobs \in [Builds -> Job] /\ live \in [Builds -> Job] /\ at \in [Builds -> Places]
  BY DEF BuildsInv, BuildsTypeOK
<1>6. "saved" \in Places
  BY DEF Places
<1>7. jobs'[j] = row /\ live'[j] = r /\ at'[j] = "saved"
  BY <1>4, <1>5
<1>8. jobs' \in [Builds -> Job] /\ live' \in [Builds -> Job] /\ at' \in [Builds -> Places]
  BY <1>1, <1>4, <1>5, <1>6
<1>9. \A k \in Builds \ {j} : jobs'[k] = jobs[k] /\ live'[k] = live[k] /\ at'[k] = at[k]
  BY <1>4, <1>5
<1> QED
  BY <1>3, <1>7, <1>8, <1>9 DEF Turn

\* A job that has not begun
LEMMA NewFacts ==
    ASSUME BuildsInv, NEW j \in Builds, IsNew(j)
    PROVE  /\ jobs[j].status = "none" /\ at[j] = "nowhere" /\ live[j] = NoJob
           /\ ~live[j].skip /\ live[j].ws \notin WorkspaceIds
           /\ RecordOK(jobs[j]) /\ RowSound(jobs[j])
BY NoJobFacts, WorkspaceAssumption DEF BuildsInv, RecordsInv, Fits, IsNew, NewBuilds

\* A build that opens no workspace keeps its own, loses it, or had none.
LEMMA Stays ==
    ASSUME BuildsInv, NEW j \in Builds, WorkspacesTypeOK', Active' \subseteq Active,
           lost \subseteq lost', lost' \subseteq WorkspaceIds,
           live[j].ws \in Active' \ lost' =>
              at'[j] # "nowhere" /\ live'[j].ws = live[j].ws /\ (live[j].skip => live'[j].skip),
           at'[j] = "returned" /\ live'[j].ws \in WorkspaceIds => live'[j].ws \notin Active'
    PROVE  Claim(j)
BY DEF Claim, Active, InStatus

\* create(): the drawn workspace is new.
LEMMA OpenedFacts ==
    ASSUME WorkspacesTypeOK, NEW w \in WorkspaceIds, wsStatus' = Opened(wsStatus, w),
           wsDir' \subseteq WorkspaceIds
    PROVE  WorkspacesTypeOK' /\ Active' = Active \cup {w}
BY DEF WorkspacesTypeOK, Opened, Active, InStatus, WsStatuses

\* The id create() draws is unused.
LEMMA NewIdFacts ==
    ASSUME Unused(wsStatus) # {}
    PROVE  NewId(wsStatus) \in WorkspaceIds /\ wsStatus[NewId(wsStatus)] = "none"
BY DEF Unused, NewId, InStatus

\* A build that opens a workspace, or opens its old one again
LEMMA Opens ==
    ASSUME BuildsInv, NEW j \in Builds, IsNew(j), NEW w \in WorkspaceIds,
           wsStatus' = Opened(wsStatus, w), wsDir' \subseteq WorkspaceIds, lost' = lost,
           at'[j] \in {"codegen", "host", "saved"}, live'[j].ws = w,
           live'[j].skip \/ CanCreate(wsStatus)
    PROVE  Claim(j)
<1>1. WorkspacesTypeOK' /\ Active' = Active \cup {w}
  BY OpenedFacts DEF BuildsInv, BuildsTypeOK
<1>2. live[j].ws \notin WorkspaceIds
  BY NewFacts
<1> QED
  BY <1>1, <1>2 DEF Claim, BuildsInv, BuildsTypeOK, Active, InStatus

-------------------------------------------------------------------------------
(* Every step of a build is a turn, with a claim to its workspace. *)

\* run_build that ends before its workspace
LEMMA RefuseBuildStep ==
    ASSUME BuildsInv, NEW j \in Builds, NEW intake \in Intakes,
           NEW status \in {"failed", "blocked"}, RefuseBuild(j, intake, status)
    PROVE  Turn(j) /\ BuildsInv'
<1> DEFINE n == NewJob(intake)
           r == [n EXCEPT !.status = status]
<1>1. n \in Job /\ RecordOK(n)
  BY NewJobFacts
<1>2. r \in Job /\ RecordOK(r) /\ RowSound(r)
  BY <1>1, OtherStatus
<1>3. r.status \in JobEnds
  BY <1>1 DEF Job, JobEnds
<1>4. Idle /\ IsNew(j) /\ Save(j, r) /\ UNCHANGED <<wsVars, lost>>
  BY DEF RefuseBuild
<1> HIDE DEF r, n
<1>5. jobs[j].status = "none" /\ live[j].ws \notin WorkspaceIds
  BY <1>4, NewFacts
<1>6. Turn(j) /\ at'[j] = "saved"
  BY <1>2, <1>3, <1>4, <1>5, SavedOnce
<1>7. WorkspacesTypeOK' /\ Active' = Active /\ lost \subseteq WorkspaceIds
  BY <1>4 DEF BuildsInv, BuildsTypeOK, WorkspacesTypeOK, wsVars, Active, InStatus
<1>8. Active' \subseteq WorkspaceIds
  BY DEF Active, InStatus
<1>9. Claim(j)
  BY <1>4, <1>5, <1>6, <1>7, <1>8, Stays
<1> QED
  BY <1>6, <1>9, BuildTurn

\* run_build up to its first await
LEMMA RunBuildStep ==
    ASSUME BuildsInv, NEW j \in Builds, NEW intake \in Intakes, RunBuild(j, intake)
    PROVE  Turn(j) /\ BuildsInv'
<1> DEFINE w == NewId(wsStatus)
           n == NewJob(intake)
           r == [n EXCEPT !.ws = w]
           f == [r EXCEPT !.status = "failed"]
<1>1. w \in WorkspaceIds /\ wsDir \subseteq WorkspaceIds
  BY NewIdFacts DEF RunBuild, BuildsInv, BuildsTypeOK, WorkspacesTypeOK
<1>2. /\ Idle /\ IsNew(j) /\ CanCreate(wsStatus) /\ lost' = lost
      /\ wsStatus' = Opened(wsStatus, w) /\ wsDir' = wsDir \cup {w}
      /\ \/ Begin(j, r, AfterSetup(r)) /\ jobs' = jobs
         \/ Save(j, f)
  BY DEF RunBuild
<1>3. n \in Job /\ RecordOK(n) /\ n.status = "running" /\ ~n.accepted
  BY NewJobFacts
<1>4. r \in Job /\ RecordOK(r)
  BY <1>1, <1>3, OtherFields
<1>5. r.status = "running" /\ r.ws = w /\ ~r.accepted
  BY <1>3 DEF Job
<1>6. f \in Job /\ RecordOK(f) /\ RowSound(f)
  BY <1>4, OtherStatus
<1>7. f.status = "failed" /\ f.ws = w
  BY <1>4, <1>5 DEF Job
<1>8. wsDir' \subseteq WorkspaceIds
  BY <1>1, <1>2
<1> HIDE DEF w, n, r, f
<1>9. jobs[j].status = "none" /\ RecordOK(jobs[j]) /\ RowSound(jobs[j])
  BY <1>2, NewFacts
<1>10. CASE Begin(j, r, AfterSetup(r)) /\ jobs' = jobs
  <2>1. AfterSetup(r) \in {"codegen", "host"} /\ (AfterSetup(r) = "codegen" => r.plan = "none")
    BY DEF AfterSetup
  <2>2. Fits(jobs[j], r, AfterSetup(r))
    BY <1>1, <1>4, <1>5, <1>9, <2>1 DEF Fits
  <2>3. AfterSetup(r) \in Places
    BY <2>1 DEF Places
  <2>4. Turn(j) /\ live'[j] = r /\ at'[j] = AfterSetup(r)
    BY <1>2, <1>4, <1>10, <2>2, <2>3, Began
  <2>5. Claim(j)
    BY <1>1, <1>2, <1>5, <1>8, <2>1, <2>4, Opens
  <2> QED
    BY <2>4, <2>5, BuildTurn
<1>11. CASE Save(j, f)
  <2>1. f.status \in JobEnds
    BY <1>7 DEF JobEnds
  <2>2. Turn(j) /\ live'[j] = f /\ at'[j] = "saved"
    BY <1>2, <1>6, <1>9, <1>11, <2>1, SavedOnce
  <2>3. Claim(j)
    BY <1>1, <1>2, <1>7, <1>8, <2>2, Opens
  <2> QED
    BY <2>2, <2>3, BuildTurn
<1> QED
  BY <1>2, <1>10, <1>11

\* What resume_build takes over from the job it resumes
LEMMA CopiedFacts ==
    ASSUME BuildsInv, NEW p \in Builds
    PROVE  /\ Copied(p) \in Job /\ RecordOK(Copied(p)) /\ Copied(p).status = "running"
           /\ Copied(p).plan = jobs[p].plan /\ Copied(p).accepted = jobs[p].accepted
<1>1. jobs[p] \in Job /\ RecordOK(jobs[p])
  BY DEF BuildsInv, BuildsTypeOK, RecordsInv, Fits
<1> QED
  BY <1>1 DEF Copied, Job, RecordOK

\* resume_build in the workspace that is still there
LEMMA ResumeInPlaceStep ==
    ASSUME BuildsInv, NEW j \in Builds, NEW p \in Builds, ResumeInPlace(j, p)
    PROVE  Turn(j) /\ BuildsInv'
<1> DEFINE w == jobs[p].ws
           c == Copied(p)
           r == [c EXCEPT !.skip = TRUE, !.ws = w]
<1>1. w \in WorkspaceIds /\ wsDir \subseteq WorkspaceIds
  BY DEF ResumeInPlace, Reusable, BuildsInv, BuildsTypeOK, WorkspacesTypeOK
<1>2. /\ Idle /\ IsNew(j) /\ lost' = lost /\ wsDir' = wsDir /\ jobs' = jobs
      /\ wsStatus' = Opened(wsStatus, w) /\ Begin(j, r, AfterSetup(r))
  BY DEF ResumeInPlace
<1>3. c \in Job /\ RecordOK(c) /\ c.status = "running"
  BY CopiedFacts
<1> HIDE DEF w, c
<1>4. r \in Job /\ RecordOK(r) /\ r.status = "running" /\ r.ws = w /\ r.skip
      /\ (r.plan = "none" => ~r.accepted)
  BY <1>1, <1>3 DEF Job, RecordOK
<1> HIDE DEF r
<1>5. jobs[j].status = "none" /\ RecordOK(jobs[j]) /\ RowSound(jobs[j])
  BY <1>2, NewFacts
<1>6. AfterSetup(r) \in {"codegen", "host"} /\ (AfterSetup(r) = "codegen" => r.plan = "none")
  BY DEF AfterSetup
<1>7. Fits(jobs[j], r, AfterSetup(r))
  BY <1>1, <1>4, <1>5, <1>6 DEF Fits
<1>8. AfterSetup(r) \in Places
  BY <1>6 DEF Places
<1>9. Turn(j) /\ live'[j] = r /\ at'[j] = AfterSetup(r)
  BY <1>2, <1>4, <1>7, <1>8, Began
<1>10. Claim(j)
  BY <1>1, <1>2, <1>4, <1>6, <1>9, Opens
<1> QED
  BY <1>9, <1>10, BuildTurn

\* resume_build in a new workspace
LEMMA ResumeElsewhereStep ==
    ASSUME BuildsInv, NEW j \in Builds, NEW p \in Builds, ResumeElsewhere(j, p)
    PROVE  Turn(j) /\ BuildsInv'
<1> DEFINE w == NewId(wsStatus)
           c == Copied(p)
           r == [c EXCEPT !.ws = w]
<1>1. w \in WorkspaceIds /\ wsDir \subseteq WorkspaceIds
  BY NewIdFacts DEF ResumeElsewhere, BuildsInv, BuildsTypeOK, WorkspacesTypeOK
<1>2. /\ Idle /\ IsNew(j) /\ CanCreate(wsStatus) /\ jobs' = jobs
      /\ wsStatus' = Opened(wsStatus, w) /\ wsDir' = wsDir \cup {w}
      /\ \/ Begin(j, r, AfterSetup(r)) /\ lost' = lost
         \/ lost' = lost \cup {w} /\ UNCHANGED <<live, at>>
  BY DEF ResumeElsewhere
<1>3. c \in Job /\ RecordOK(c) /\ c.status = "running"
  BY CopiedFacts
<1> HIDE DEF w, c
<1>4. r \in Job /\ RecordOK(r) /\ r.status = "running" /\ r.ws = w
      /\ (r.plan = "none" => ~r.accepted)
  BY <1>1, <1>3 DEF Job, RecordOK
<1> HIDE DEF r
<1>5. /\ jobs[j].status = "none" /\ RecordOK(jobs[j]) /\ RowSound(jobs[j])
      /\ live[j].ws \notin WorkspaceIds
  BY <1>2, NewFacts
<1>6. wsDir' \subseteq WorkspaceIds
  BY <1>1, <1>2
<1>7. CASE Begin(j, r, AfterSetup(r)) /\ lost' = lost
  <2>1. AfterSetup(r) \in {"codegen", "host"} /\ (AfterSetup(r) = "codegen" => r.plan = "none")
    BY DEF AfterSetup
  <2>2. Fits(jobs[j], r, AfterSetup(r))
    BY <1>1, <1>4, <1>5, <2>1 DEF Fits
  <2>3. AfterSetup(r) \in Places
    BY <2>1 DEF Places
  <2>4. Turn(j) /\ live'[j] = r /\ at'[j] = AfterSetup(r)
    BY <1>2, <1>4, <1>7, <2>2, <2>3, Began
  <2>5. Claim(j)
    BY <1>1, <1>2, <1>4, <1>6, <1>7, <2>1, <2>4, Opens
  <2> QED
    BY <2>4, <2>5, BuildTurn
<1>8. CASE lost' = lost \cup {w} /\ UNCHANGED <<live, at>>
  <2>1. Turn(j)
    BY <1>2, <1>8 DEF Turn, BuildsInv, BuildsTypeOK, RecordsInv
  <2>2. WorkspacesTypeOK' /\ Active' = Active \cup {w}
    BY <1>1, <1>2, <1>6, OpenedFacts DEF BuildsInv, BuildsTypeOK
  <2>3. at'[j] = "nowhere"
    BY <1>2, <1>8, NewFacts
  <2>4. Claim(j)
    BY <1>1, <1>5, <1>8, <2>2, <2>3 DEF Claim, BuildsInv, BuildsTypeOK, Active, InStatus
  <2> QED
    BY <2>1, <2>4, BuildTurn
<1> QED
  BY <1>2, <1>7, <1>8

\* resume_build that ends before its workspace
LEMMA RefuseResumeStep ==
    ASSUME BuildsInv, NEW j \in Builds, NEW p \in Builds, RefuseResume(j, p)
    PROVE  Turn(j) /\ BuildsInv'
<1> DEFINE c == Copied(p)
           r == [c EXCEPT !.status = "blocked"]
<1>1. Idle /\ IsNew(j) /\ Save(j, r) /\ UNCHANGED <<wsVars, lost>>
  BY DEF RefuseResume
<1>2. c \in Job /\ RecordOK(c)
  BY CopiedFacts
<1>3. r \in Job /\ RecordOK(r) /\ RowSound(r)
  BY <1>2, OtherStatus
<1>4. r.status \in JobEnds
  BY <1>2 DEF Job, JobEnds
<1> HIDE DEF r, c
<1>5. jobs[j].status = "none" /\ live[j].ws \notin WorkspaceIds
  BY <1>1, NewFacts
<1>6. Turn(j) /\ at'[j] = "saved"
  BY <1>1, <1>3, <1>4, <1>5, SavedOnce
<1>7. WorkspacesTypeOK' /\ Active' = Active /\ lost \subseteq WorkspaceIds
  BY <1>1 DEF BuildsInv, BuildsTypeOK, WorkspacesTypeOK, wsVars, Active, InStatus
<1>8. Active' \subseteq WorkspaceIds
  BY DEF Active, InStatus
<1>9. Claim(j)
  BY <1>1, <1>5, <1>6, <1>7, <1>8, Stays
<1> QED
  BY <1>6, <1>9, BuildTurn

\* The model returns a plan, or none, or raises.
LEMMA CodegenAnswersStep ==
    ASSUME BuildsInv, NEW j \in Builds, CodegenAnswers(j)
    PROVE  Turn(j) /\ BuildsInv'
<1> DEFINE old == live[j]
<1>1. PICK plan1 \in Generated :
          Begin(j, [old EXCEPT !.plan = plan1], IF plan1 = "none" THEN "host" ELSE "docker")
  BY DEF CodegenAnswers
<1> DEFINE r == [old EXCEPT !.plan = plan1]
           place == IF plan1 = "none" THEN "host" ELSE "docker"
<1>2. /\ Idle /\ at[j] = "codegen" /\ jobs' = jobs /\ lost' = lost
      /\ wsStatus' = wsStatus /\ wsDir' = wsDir
  BY DEF CodegenAnswers, wsVars
<1>3. /\ old \in Job /\ RecordOK(old) /\ old.status = "running" /\ old.ws \in WorkspaceIds
      /\ ~old.accepted /\ old.plan = "none"
      /\ jobs[j].status = "none" /\ RecordOK(jobs[j]) /\ RowSound(jobs[j])
  BY <1>2 DEF BuildsInv, BuildsTypeOK, RecordsInv, Fits
<1> HIDE DEF old
<1>4. /\ r \in Job /\ RecordOK(r) /\ r.status = "running" /\ ~r.accepted
      /\ r.ws = old.ws /\ r.skip = old.skip /\ r.plan = plan1
  BY <1>1, <1>3 DEF Job, RecordOK, Generated, PlanKinds
<1>5. Begin(j, r, place)
  BY <1>1
<1> HIDE DEF r
<1>6. Fits(jobs[j], r, place)
  BY <1>3, <1>4 DEF Fits
<1>7. place \in {"host", "docker"} /\ place \in Places
  BY DEF Places
<1> HIDE DEF place
<1>8. Turn(j) /\ live'[j] = r /\ at'[j] = place
  BY <1>2, <1>4, <1>5, <1>6, <1>7, Began
<1>9. WorkspacesTypeOK' /\ Active' = Active /\ lost \subseteq WorkspaceIds
  BY <1>2 DEF BuildsInv, BuildsTypeOK, WorkspacesTypeOK, Active, InStatus
<1>10. Claim(j)
  BY <1>2, <1>4, <1>7, <1>8, <1>9, Stays DEF old
<1> QED
  BY <1>8, <1>10, BuildTurn

\* The container's answer: the job is saved as failed whatever it is.
LEMMA DockerAnswersStep ==
    ASSUME BuildsInv, NEW j \in Builds, DockerAnswers(j)
    PROVE  Turn(j) /\ BuildsInv' /\ jobs'[j].status = "failed"
<1> DEFINE old == live[j]
           q(result) == IF result = "raised" THEN [old EXCEPT !.status = "failed"]
                        ELSE [old EXCEPT !.mode = "engine", !.status = result]
<1>1. PICK result \in DockerResults : Save(j, Final(q(result)))
  BY DEF DockerAnswers
<1> DEFINE f == Final(q(result))
<1>2. /\ Idle /\ at[j] = "docker" /\ lost' = lost /\ wsStatus' = wsStatus /\ wsDir' = wsDir
  BY DEF DockerAnswers, wsVars
<1>3. /\ old \in Job /\ RecordOK(old) /\ old.status = "running" /\ ~old.accepted
      /\ old.plan # "none" /\ jobs[j].status = "none"
  BY <1>2 DEF BuildsInv, BuildsTypeOK, RecordsInv, Fits
<1>4. /\ f \in Job /\ RecordOK(f) /\ RowSound(f)
      /\ f.status = "failed" /\ f.skip = old.skip /\ f.ws = old.ws
  <2> HIDE DEF old
  <2> QED
    BY <1>3, DockerOutcome
<1>5. Save(j, f)
  BY <1>1
<1> HIDE DEF f, q
<1>6. f.status \in JobEnds
  BY <1>4 DEF JobEnds
<1>7. Turn(j) /\ live'[j] = f /\ at'[j] = "saved"
  BY <1>2, <1>3, <1>4, <1>5, <1>6, SavedOnce
<1>8. WorkspacesTypeOK' /\ Active' = Active /\ lost \subseteq WorkspaceIds
  BY <1>2 DEF BuildsInv, BuildsTypeOK, WorkspacesTypeOK, Active, InStatus
<1>9. Claim(j)
  BY <1>2, <1>4, <1>7, <1>8, Stays
<1>10. jobs'[j].status = "failed"
  BY <1>4, <1>7 DEF Turn, Fits
<1> QED
  BY <1>7, <1>9, <1>10, BuildTurn

\* The stages on the host, which contain no await
LEMMA HostRunStep ==
    ASSUME BuildsInv, NEW j \in Builds, HostRun(j)
    PROVE  Turn(j) /\ BuildsInv'
<1> DEFINE old == live[j]
<1>1. PICK built \in Executed(old) : \E checked \in Verified(Guarded(built)) :
        \E judged \in Reviewed(checked) : \E r \in Accepted(judged) :
          Save(j, Final(r)) /\ ReviewCloses(judged)
  BY DEF HostRun
<1>2. PICK checked \in Verified(Guarded(built)) :
        \E judged \in Reviewed(checked) : \E r \in Accepted(judged) :
          Save(j, Final(r)) /\ ReviewCloses(judged)
  BY <1>1
<1>3. PICK judged \in Reviewed(checked) : \E r \in Accepted(judged) :
          Save(j, Final(r)) /\ ReviewCloses(judged)
  BY <1>2
<1>4. PICK r \in Accepted(judged) : Save(j, Final(r)) /\ ReviewCloses(judged)
  BY <1>3
<1> DEFINE f == Final(r)
<1>5. at[j] = "host" /\ lost' = lost
  BY DEF HostRun
<1>6. /\ old \in Job /\ RecordOK(old) /\ old.status = "running" /\ jobs[j].status = "none"
  BY <1>5 DEF BuildsInv, BuildsTypeOK, RecordsInv, Fits
<1>7. /\ f \in Job /\ RecordOK(f) /\ RowSound(f) /\ f.status \in JobEnds
      /\ f.skip = old.skip /\ f.ws = old.ws
  <2> HIDE DEF old
  <2> QED
    BY <1>6, HostOutcome
<1>8. Save(j, f)
  BY <1>4
<1> HIDE DEF f
<1>9. Turn(j) /\ live'[j] = f /\ at'[j] = "saved"
  BY <1>5, <1>6, <1>7, <1>8, SavedOnce DEF BusyPlaces
<1>10. WorkspacesTypeOK' /\ Active' = Active
  <2>1. wsStatus \in [WorkspaceIds -> WsStatuses] /\ wsDir \subseteq WorkspaceIds
    BY DEF BuildsInv, BuildsTypeOK, WorkspacesTypeOK
  <2>2. CASE UNCHANGED wsVars
    BY <2>1, <2>2 DEF wsVars, WorkspacesTypeOK, Active, InStatus
  <2>3. CASE /\ Unused(wsStatus) # {}
             /\ wsStatus' = [wsStatus EXCEPT ![NewId(wsStatus)] = "completed"]
             /\ wsDir' = wsDir \cup {NewId(wsStatus)}
    BY <2>1, <2>3, NewIdFacts DEF WorkspacesTypeOK, Active, InStatus, WsStatuses
  <2> QED
    BY <1>4, <2>2, <2>3 DEF ReviewCloses
<1>11. lost \subseteq WorkspaceIds
  BY DEF BuildsInv, BuildsTypeOK
<1>12. Claim(j)
  BY <1>5, <1>7, <1>9, <1>10, <1>11, Stays
<1> QED
  BY <1>9, <1>12, BuildTurn

\* An exception out of those stages
LEMMA HostRaisesStep ==
    ASSUME BuildsInv, NEW j \in Builds, HostRaises(j)
    PROVE  Turn(j) /\ BuildsInv'
<1>1. /\ at[j] = "host" /\ lost' = lost \cup {live[j].ws} /\ jobs' = jobs
      /\ wsStatus' = wsStatus /\ wsDir' = wsDir /\ Begin(j, NoJob, "returned")
  BY DEF HostRaises, wsVars
<1>2. /\ live[j].ws \in WorkspaceIds
      /\ jobs[j].status = "none" /\ RecordOK(jobs[j]) /\ RowSound(jobs[j])
  BY <1>1 DEF BuildsInv, RecordsInv, Fits
<1>3. Fits(jobs[j], NoJob, "returned")
  BY <1>2, NoJobFacts DEF Fits
<1>4. Turn(j) /\ live'[j] = NoJob /\ at'[j] = "returned"
  BY <1>1, <1>3, NoJobFacts, Began DEF Places, BusyPlaces
<1>5. WorkspacesTypeOK' /\ Active' = Active /\ lost \subseteq WorkspaceIds
  BY <1>1 DEF BuildsInv, BuildsTypeOK, WorkspacesTypeOK, Active, InStatus
<1>6. NoJob.ws \notin WorkspaceIds
  BY NoJobFacts, WorkspaceAssumption
<1>7. Claim(j)
  BY <1>1, <1>2, <1>4, <1>5, <1>6, Stays
<1> QED
  BY <1>4, <1>7, BuildTurn

\* The workspace is completed or failed after the save.
LEMMA CloseWorkspaceStep ==
    ASSUME BuildsInv, NEW j \in Builds, CloseWorkspace(j)
    PROVE  Turn(j) /\ BuildsInv'
<1>1. /\ at[j] = "saved" /\ UNCHANGED <<wsDir, jobs, live, lost>>
      /\ at' = [at EXCEPT ![j] = "returned"]
      /\ wsStatus' = IF live[j].ws \in WorkspaceIds
                     THEN Closed(wsStatus, live[j].ws, live[j].status) ELSE wsStatus
  BY DEF CloseWorkspace
<1>2. Fits(jobs[j], live[j], "saved")
  BY <1>1 DEF BuildsInv, RecordsInv
<1>3. Fits(jobs[j], live[j], "returned")
  BY <1>2 DEF Fits
<1>4. Turn(j) /\ at'[j] = "returned"
  BY <1>1, <1>3 DEF BuildsInv, BuildsTypeOK, Turn, BusyPlaces, Places
<1>5. /\ wsStatus \in [WorkspaceIds -> WsStatuses] /\ wsDir \subseteq WorkspaceIds
      /\ lost \subseteq WorkspaceIds
  BY DEF BuildsInv, BuildsTypeOK, WorkspacesTypeOK
<1>6. CASE live[j].ws \in WorkspaceIds
  <2>1. /\ wsStatus' \in [WorkspaceIds -> WsStatuses]
        /\ wsStatus'[live[j].ws] \in {"completed", "failed"}
        /\ \A w \in WorkspaceIds \ {live[j].ws} : wsStatus'[w] = wsStatus[w]
    BY <1>1, <1>5, <1>6 DEF Closed, WsStatuses
  <2>2. WorkspacesTypeOK' /\ Active' = Active \ {live[j].ws}
    BY <1>1, <1>5, <2>1 DEF WorkspacesTypeOK, Active, InStatus
  <2>3. Claim(j)
    BY <1>1, <1>4, <1>5, <1>6, <2>2, Stays
  <2> QED
    BY <1>4, <2>3, BuildTurn
<1>7. CASE live[j].ws \notin WorkspaceIds
  <2>1. WorkspacesTypeOK' /\ Active' = Active
    BY <1>1, <1>5, <1>7 DEF WorkspacesTypeOK, Active, InStatus
  <2>2. Claim(j)
    BY <1>1, <1>4, <1>5, <1>7, <2>1, Stays
  <2> QED
    BY <1>4, <2>2, BuildTurn
<1> QED
  BY <1>6, <1>7

\* run_build returns to its caller.
LEMMA ReturnedStep ==
    ASSUME BuildsInv, NEW j \in Builds, Returned(j)
    PROVE  Turn(j) /\ BuildsInv'
<1>1. /\ at[j] = "returned" /\ UNCHANGED lost /\ jobs' = jobs
      /\ wsStatus' = wsStatus /\ wsDir' = wsDir /\ Begin(j, NoJob, "nowhere")
  BY DEF Returned, wsVars
<1>2. Fits(jobs[j], NoJob, "nowhere")
  BY NoJobFacts DEF BuildsInv, RecordsInv, Fits
<1>3. Turn(j) /\ live'[j] = NoJob /\ at'[j] = "nowhere"
  BY <1>1, <1>2, NoJobFacts, Began DEF Places, BusyPlaces
<1>4. WorkspacesTypeOK' /\ Active' = Active /\ lost \subseteq WorkspaceIds
  BY <1>1 DEF BuildsInv, BuildsTypeOK, WorkspacesTypeOK, Active, InStatus
<1>5. live[j].ws \notin Active
  BY <1>1 DEF BuildsInv, WorkspaceInv, Active, InStatus
<1>6. Claim(j)
  BY <1>1, <1>3, <1>4, <1>5, Stays
<1> QED
  BY <1>3, <1>6, BuildTurn

-------------------------------------------------------------------------------
(* The steps that are no build's *)

\* The nightly cleanup takes no workspace that is active.
LEMMA CleanupStep ==
    ASSUME BuildsInv, NEW w \in WorkspaceIds, Cleanup(w)
    PROVE  BuildsInv'
<1>1. /\ UNCHANGED <<jobs, live, at, lost>>
      /\ wsDir' = wsDir \ {w} /\ wsStatus' = [wsStatus EXCEPT ![w] = "cleaned"]
  BY DEF Cleanup, CleanupExpired
<1>2. WorkspacesTypeOK' /\ Active' \subseteq Active
  BY <1>1 DEF BuildsInv, BuildsTypeOK, WorkspacesTypeOK, WsStatuses, Active, InStatus
<1> QED
  BY <1>1, <1>2, QuietBuilds

\* A review opens its workspace and closes it in one step.
LEMMA ReviewStep ==
    ASSUME BuildsInv, UNCHANGED <<jobs, live, at, lost>>, NEW ended \in JobEnds,
           ReviewWorkspace(ended) \/ UNCHANGED wsVars
    PROVE  BuildsInv'
<1>1. wsStatus \in [WorkspaceIds -> WsStatuses] /\ wsDir \subseteq WorkspaceIds
  BY DEF BuildsInv, BuildsTypeOK, WorkspacesTypeOK
<1>2. CASE UNCHANGED wsVars
  <2>1. WorkspacesTypeOK' /\ Active' \subseteq Active
    BY <1>1, <1>2 DEF wsVars, WorkspacesTypeOK, Active, InStatus
  <2> QED
    BY <2>1, QuietBuilds
<1>3. CASE /\ Unused(wsStatus) # {}
           /\ wsStatus' = Closed(wsStatus, NewId(wsStatus), ended)
           /\ wsDir' = wsDir \cup {NewId(wsStatus)}
  <2> DEFINE n == NewId(wsStatus)
  <2>1. n \in WorkspaceIds
    BY <1>3, NewIdFacts
  <2>2. /\ wsStatus' = [wsStatus EXCEPT ![n] = IF ended = "completed" THEN "completed" ELSE "failed"]
        /\ wsDir' = wsDir \cup {n}
    BY <1>3 DEF Closed
  <2> HIDE DEF n
  <2>3. WorkspacesTypeOK' /\ Active' \subseteq Active
    BY <1>1, <2>1, <2>2 DEF WorkspacesTypeOK, WsStatuses, Active, InStatus
  <2> QED
    BY <2>3, QuietBuilds
<1> QED
  BY <1>2, <1>3 DEF ReviewWorkspace

\* After a death no build runs, and whatever is active was lost by it.
LEMMA DieStep ==
    ASSUME BuildsInv, Die
    PROVE  BuildsInv'
<1>1. /\ live' = [j \in Builds |-> NoJob] /\ at' = [j \in Builds |-> "nowhere"]
      /\ jobs' = jobs /\ lost' = Active'
  BY DEF Die, Forget, Active
<1>2. /\ wsStatus \in [WorkspaceIds -> WsStatuses] /\ wsDir \subseteq WorkspaceIds
  BY DEF BuildsInv, BuildsTypeOK, WorkspacesTypeOK
<1>3. WorkspacesTypeOK'
  <2>1. CASE UNCHANGED wsVars
    BY <1>2, <2>1 DEF wsVars, WorkspacesTypeOK
  <2>2. CASE HalfCreated
    BY <1>2, <2>2, NewIdFacts DEF HalfCreated, WorkspacesTypeOK, WsStatuses
  <2>3. CASE \E w \in WorkspaceIds : HalfCleaned(w)
    BY <1>2, <2>3 DEF HalfCleaned, WorkspacesTypeOK
  <2>4. CASE /\ Unused(wsStatus) # {}
             /\ wsStatus' = Opened(wsStatus, NewId(wsStatus))
             /\ wsDir' = wsDir \cup {NewId(wsStatus)}
    BY <1>2, <2>4, NewIdFacts DEF Opened, WorkspacesTypeOK, WsStatuses
  <2> QED
    BY <2>1, <2>2, <2>3, <2>4 DEF Die
<1>4. Active' \subseteq WorkspaceIds
  BY DEF Active, InStatus
<1>5. BuildsTypeOK'
  BY <1>1, <1>3, <1>4, NoJobFacts DEF BuildsInv, BuildsTypeOK, Places
<1>6. RecordsInv'
  <2> SUFFICES ASSUME NEW j \in Builds PROVE Fits(jobs[j], NoJob, "nowhere")
    BY <1>1 DEF RecordsInv
  <2> QED
    BY NoJobFacts DEF BuildsInv, RecordsInv, Fits
<1>7. Alone'
  BY <1>1 DEF Alone, BusyPlaces
<1>8. Counted' = {}
  BY <1>1 DEF Counted
<1>9. Cardinality(Counted') <= MaxActive
  BY <1>8, FS_EmptySet, WorkspaceAssumption
<1>10. WorkspaceInv'
  BY <1>1, <1>9 DEF WorkspaceInv
<1> QED
  BY <1>5, <1>6, <1>7, <1>10 DEF BuildsInv

\* The steps of a build that runs: it does not leave before it returns.
LEMMA BuildStepStep ==
    ASSUME BuildsInv, NEW j \in Builds, BuildStep(j)
    PROVE  Turn(j) /\ BuildsInv' /\ at'[j] # "nowhere"
<1>1. at \in [Builds -> Places]
  BY DEF BuildsInv, BuildsTypeOK
<1>2. CASE CodegenAnswers(j)
  BY <1>1, <1>2, CodegenAnswersStep DEF CodegenAnswers, Begin
<1>3. CASE DockerAnswers(j)
  BY <1>1, <1>3, DockerAnswersStep DEF DockerAnswers, Save
<1>4. CASE HostRun(j)
  BY <1>1, <1>4, HostRunStep DEF HostRun, Save
<1>5. CASE HostRaises(j)
  BY <1>1, <1>5, HostRaisesStep DEF HostRaises, Begin
<1>6. CASE CloseWorkspace(j)
  BY <1>1, <1>6, CloseWorkspaceStep DEF CloseWorkspace
<1> QED
  BY <1>2, <1>3, <1>4, <1>5, <1>6 DEF BuildStep

\* A build that begins, for a plan or for a channel
LEMMA BeginsStep ==
    ASSUME BuildsInv, NEW j \in Builds,
           \/ \E intake \in Intakes :
                 \/ RunBuild(j, intake)
                 \/ \E status \in {"failed", "blocked"} : RefuseBuild(j, intake, status)
           \/ \E p \in Builds : ResumeInPlace(j, p) \/ ResumeElsewhere(j, p) \/ RefuseResume(j, p)
    PROVE  Turn(j) /\ BuildsInv' /\ at[j] = "nowhere"
<1>1. IsNew(j) /\ at[j] = "nowhere"
  BY DEF RunBuild, RefuseBuild, ResumeInPlace, ResumeElsewhere, RefuseResume, IsNew, NewBuilds
<1>2. CASE \E intake \in Intakes : RunBuild(j, intake)
  BY <1>1, <1>2, RunBuildStep
<1>3. CASE \E intake \in Intakes, status \in {"failed", "blocked"} : RefuseBuild(j, intake, status)
  BY <1>1, <1>3, RefuseBuildStep
<1>4. CASE \E p \in Builds : ResumeInPlace(j, p)
  BY <1>1, <1>4, ResumeInPlaceStep
<1>5. CASE \E p \in Builds : ResumeElsewhere(j, p)
  BY <1>1, <1>5, ResumeElsewhereStep
<1>6. CASE \E p \in Builds : RefuseResume(j, p)
  BY <1>1, <1>6, RefuseResumeStep
<1> QED
  BY <1>2, <1>3, <1>4, <1>5, <1>6

-------------------------------------------------------------------------------
(* Plans *)

\* What a plan says survives a step that keeps the plan's own records, the rows that are
\* written, and the build that serves it.
PlanStays(p) ==
    /\ plan'[p] = plan[p] /\ linked'[p] = linked[p] /\ review'[p] = review[p]
    /\ p \in stranded => p \in stranded'
    /\ \A j \in Builds : at[j] # "nowhere" /\ asker[j] = p => at'[j] # "nowhere" /\ asker'[j] = p
RowsStay == \A j \in Builds : jobs[j].status # "none" => jobs'[j] = jobs[j]

PlanOK(p) ==
    /\ plan[p] = "none" => linked[p] = NoLink
    /\ linked[p] \in Builds => /\ jobs[linked[p]].status = plan[p]
                               /\ jobs[linked[p]].status # "none"
    /\ linked[p] \in PlanIds => linked[p] = p /\ review[p] = plan[p]
    /\ plan[p] \in {"completed", "failed"} => linked[p] # NoLink
    /\ plan[p] \in {"submitted", "executing"} =>
          p \in stranded \/ \E j \in Builds : at[j] # "nowhere" /\ asker[j] = p

\* The invariant of the plans, plan by plan
LEMMA PlansSplit == PlansInv <=> \A p \in PlanIds : PlanOK(p)
BY DEF PlansInv, PlanOK

\* A plan that nothing touches stays as it was.
LEMMA StayingPlan ==
    ASSUME NEW p \in PlanIds, PlanOK(p), PlanStays(p), RowsStay
    PROVE  PlanOK(p)'
BY DEF PlanOK, PlanStays, RowsStay

\* A build's turn rewrites no row that is there.
LEMMA TurnKeepsRows ==
    ASSUME NEW j \in Builds, Turn(j)
    PROVE  RowsStay
BY DEF Turn, RowsStay

\* A plan with no link needs nothing but a reason to be under way.
LEMMA UnlinkedPlan ==
    ASSUME NEW p \in PlanIds, linked'[p] = NoLink, plan'[p] \notin {"completed", "failed"},
           plan'[p] \in {"submitted", "executing"} =>
              p \in stranded' \/ \E j \in Builds : at'[j] # "nowhere" /\ asker'[j] = p
    PROVE  PlanOK(p)'
BY OperatorAssumption DEF PlanOK

\* submit_operator_intake that ends before a job is started
LEMMA SubmitRefusedStep ==
    ASSUME OperatorInv, NEW p \in PlanIds, SubmitRefused(p) \/ SubmitUnreadable(p)
    PROVE  OperatorInv'
<1>1. PICK status \in {"blocked", "awaiting_approval", "executing"} :
          /\ plan' = [plan EXCEPT ![p] = status]
          /\ status = "executing" => p \in stranded'
  BY DEF SubmitRefused, SubmitUnreadable
<1>2. /\ UNCHANGED <<wsStatus, wsDir, jobs, live, at, lost>>
      /\ UNCHANGED <<linked, review, asker>> /\ plan[p] = "none"
      /\ stranded' = stranded \/ stranded' = stranded \cup {p}
  BY DEF SubmitRefused, SubmitUnreadable, buildVars, wsVars, Submitting, NewPlans
<1>3. BuildsInv'
  <2>1. WorkspacesTypeOK' /\ Active' \subseteq Active
    BY <1>2 DEF OperatorInv, BuildsInv, BuildsTypeOK, WorkspacesTypeOK, Active, InStatus
  <2> QED
    BY <1>2, <2>1, QuietBuilds DEF OperatorInv
<1>4. OperatorTypeOK'
  BY <1>1, <1>2, <1>3 DEF OperatorInv, OperatorTypeOK, BuildsInv, PlanStatuses
<1>5. ASSUME NEW q \in PlanIds PROVE PlanOK(q)'
  <2>1. PlanOK(q) /\ linked[p] = NoLink
    BY <1>2, PlansSplit DEF OperatorInv, PlansInv
  <2>2. CASE q = p
    BY <1>1, <1>2, <2>1, <2>2, UnlinkedPlan DEF OperatorInv, OperatorTypeOK
  <2>3. CASE q # p
    BY <1>1, <1>2, <2>1, <2>3, StayingPlan
       DEF PlanStays, RowsStay, OperatorInv, OperatorTypeOK
  <2> QED
    BY <2>2, <2>3
<1> QED
  BY <1>3, <1>4, <1>5 DEF OperatorInv, PlansInv, PlanOK

\* A submission that runs a review
LEMMA SubmitReviewStep ==
    ASSUME OperatorInv, NEW p \in PlanIds, SubmitReview(p)
    PROVE  OperatorInv'
<1>1. PICK ended \in JobEnds :
          /\ review' = [review EXCEPT ![p] = ended]
          /\ ReviewWorkspace(ended) \/ UNCHANGED wsVars
          /\ \/ /\ plan' = [plan EXCEPT ![p] = ended] /\ linked' = [linked EXCEPT ![p] = p]
                /\ UNCHANGED stranded
             \/ /\ plan' = [plan EXCEPT ![p] = "executing"]
                /\ stranded' = stranded \cup {p} /\ UNCHANGED linked
  BY DEF SubmitReview, ReviewEnds
<1>2. UNCHANGED <<jobs, live, at, lost>> /\ asker' = asker /\ plan[p] = "none"
  BY DEF SubmitReview, Submitting, NewPlans
<1>3. BuildsInv'
  BY <1>1, <1>2, ReviewStep DEF OperatorInv
<1>4. /\ plan \in [PlanIds -> PlanStatuses]
      /\ linked \in [PlanIds -> Builds \cup PlanIds \cup {NoLink}]
      /\ review \in [PlanIds -> {"none", "validating"} \cup JobEnds]
      /\ asker \in [Builds -> PlanIds \cup {NoPlan}] /\ stranded \subseteq PlanIds
  BY DEF OperatorInv, OperatorTypeOK
<1>5. ended \in PlanStatuses
  BY DEF JobEnds, PlanStatuses
<1>6. OperatorTypeOK'
  <2>1. plan' \in [PlanIds -> PlanStatuses] /\ review' \in [PlanIds -> {"none", "validating"} \cup JobEnds]
    BY <1>1, <1>4, <1>5 DEF PlanStatuses
  <2>2. linked' \in [PlanIds -> Builds \cup PlanIds \cup {NoLink}] /\ stranded' \subseteq PlanIds
    BY <1>1, <1>4
  <2> QED
    BY <1>2, <1>3, <1>4, <2>1, <2>2 DEF OperatorTypeOK, BuildsInv
<1>7. ASSUME NEW q \in PlanIds PROVE PlanOK(q)'
  <2>1. PlanOK(q) /\ linked[p] = NoLink
    BY <1>2, PlansSplit DEF OperatorInv, PlansInv
  <2>2. CASE q = p /\ linked' = linked
    <3>1. linked'[q] = NoLink /\ plan'[q] = "executing" /\ q \in stranded'
      BY <1>1, <1>2, <1>4, <2>1, <2>2, OperatorAssumption
    <3> QED
      BY <3>1, UnlinkedPlan
  <2>3. CASE q = p /\ linked' # linked
    <3>1. linked'[q] = q /\ plan'[q] = ended /\ review'[q] = ended
      BY <1>1, <1>4, <2>3
    <3>2. q \notin Builds /\ q # NoLink
      BY OperatorAssumption
    <3> QED
      BY <3>1, <3>2 DEF PlanOK, JobEnds
  <2>4. CASE q # p
    <3>1. plan'[q] = plan[q] /\ linked'[q] = linked[q] /\ review'[q] = review[q]
          /\ (q \in stranded => q \in stranded')
      BY <1>1, <1>4, <2>4
    <3> QED
      BY <1>2, <2>1, <3>1, StayingPlan DEF PlanStays, RowsStay
  <2> QED
    BY <2>2, <2>3, <2>4
<1> QED
  BY <1>3, <1>6, <1>7 DEF OperatorInv, PlansInv, PlanOK

\* A submission that starts a build
LEMMA SubmitBuildStep ==
    ASSUME OperatorInv, NEW p \in PlanIds, NEW j \in Builds, NEW intake \in Intakes,
           SubmitBuild(p, j, intake)
    PROVE  OperatorInv'
<1>1. /\ plan[p] = "none" /\ plan' = [plan EXCEPT ![p] = "executing"]
      /\ asker' = [asker EXCEPT ![j] = p] /\ UNCHANGED <<linked, review, stranded>>
  BY DEF SubmitBuild, Submitting, NewPlans
<1>2. Turn(j) /\ BuildsInv' /\ at[j] = "nowhere"
  BY BeginsStep DEF SubmitBuild, OperatorInv
<1>3. at'[j] # "nowhere"
  BY DEF SubmitBuild, RunBuild, RefuseBuild, Begin, Save, AfterSetup,
         OperatorInv, BuildsInv, BuildsTypeOK
<1>4. /\ plan \in [PlanIds -> PlanStatuses] /\ asker \in [Builds -> PlanIds \cup {NoPlan}]
  BY DEF OperatorInv, OperatorTypeOK
<1>5. OperatorTypeOK'
  BY <1>1, <1>2, <1>4 DEF OperatorInv, OperatorTypeOK, BuildsInv, PlanStatuses
<1>6. ASSUME NEW q \in PlanIds PROVE PlanOK(q)'
  <2>1. PlanOK(q) /\ linked[p] = NoLink
    BY <1>1, PlansSplit DEF OperatorInv, PlansInv
  <2>2. CASE q = p
    <3>1. linked'[q] = NoLink /\ plan'[q] = "executing" /\ asker'[j] = q
      BY <1>1, <1>4, <2>1, <2>2
    <3> QED
      BY <1>3, <3>1, UnlinkedPlan
  <2>3. CASE q # p
    <3>1. plan'[q] = plan[q]
      BY <1>1, <1>4, <2>3
    <3>2. ASSUME NEW k \in Builds, at[k] # "nowhere", asker[k] = q
          PROVE  at'[k] # "nowhere" /\ asker'[k] = q
      <4>1. k # j
        BY <1>2, <3>2
      <4> QED
        BY <1>1, <1>2, <1>4, <3>2, <4>1 DEF Turn
    <3> QED
      BY <1>1, <1>2, <2>1, <3>1, <3>2, StayingPlan, TurnKeepsRows DEF PlanStays
  <2> QED
    BY <2>2, <2>3
<1> QED
  BY <1>2, <1>5, <1>6 DEF OperatorInv, PlansInv, PlanOK

\* A build that begins for a channel, or goes on, concerns no plan.
LEMMA BuildOnlyStep ==
    ASSUME OperatorInv, NEW j \in Builds, Turn(j), BuildsInv', UNCHANGED <<asker, recordVars>>,
           at[j] = "nowhere" \/ at'[j] # "nowhere"
    PROVE  OperatorInv'
<1>1. UNCHANGED <<plan, linked, review, stranded, asker>>
  BY DEF recordVars
<1>2. OperatorTypeOK'
  BY <1>1 DEF OperatorInv, OperatorTypeOK, BuildsInv
<1>3. ASSUME NEW q \in PlanIds PROVE PlanOK(q)'
  <2>1. PlanOK(q)
    BY PlansSplit DEF OperatorInv
  <2>2. PlanStays(q)
    BY <1>1 DEF PlanStays, Turn
  <2> QED
    BY <2>1, <2>2, StayingPlan, TurnKeepsRows
<1> QED
  BY <1>2, <1>3 DEF OperatorInv, PlansInv, PlanOK

\* The nightly cleanup touches no plan.
LEMMA CleanupKeepsPlans ==
    ASSUME OperatorInv, NightlyCleanup
    PROVE  OperatorInv'
<1>1. UNCHANGED <<jobs, live, at, lost, plan, linked, review, stranded, asker>>
  BY DEF NightlyCleanup, Cleanup, recordVars
<1>2. BuildsInv'
  BY CleanupStep DEF NightlyCleanup, OperatorInv
<1>3. OperatorTypeOK' /\ PlansInv'
  BY <1>1, <1>2 DEF OperatorInv, OperatorTypeOK, BuildsInv, PlansInv
<1> QED
  BY <1>2, <1>3 DEF OperatorInv

\* A build returns to the submission that waits for it, which records the end.
LEMMA ReturnBuildStep ==
    ASSUME OperatorInv, NEW j \in Builds, ReturnBuild(j)
    PROVE  OperatorInv'
<1> DEFINE p == asker[j]
<1>1. Turn(j) /\ BuildsInv'
  BY ReturnedStep DEF ReturnBuild, OperatorInv
<1>2. /\ at[j] = "returned" /\ jobs' = jobs
      /\ asker' = [asker EXCEPT ![j] = NoPlan] /\ review' = review
      /\ p = NoPlan => UNCHANGED <<plan, linked, stranded>>
      /\ p # NoPlan /\ live[j].status = "none" =>
            stranded' = stranded \cup {p} /\ UNCHANGED <<plan, linked>>
      /\ p # NoPlan /\ live[j].status # "none" =>
            /\ plan' = [plan EXCEPT ![p] = live[j].status]
            /\ linked' = [linked EXCEPT ![p] = j]
            /\ UNCHANGED stranded
  BY DEF ReturnBuild, Returned, PlanStatus
<1>3. /\ plan \in [PlanIds -> PlanStatuses]
      /\ linked \in [PlanIds -> Builds \cup PlanIds \cup {NoLink}]
      /\ asker \in [Builds -> PlanIds \cup {NoPlan}] /\ stranded \subseteq PlanIds
      /\ review \in [PlanIds -> {"none", "validating"} \cup JobEnds]
  BY DEF OperatorInv, OperatorTypeOK
<1>4. live[j].status # "none" => live[j].status \in JobEnds /\ jobs[j].status = live[j].status
  BY <1>2, NoJobFacts DEF OperatorInv, BuildsInv, RecordsInv, Fits
<1>5. p \in PlanIds \cup {NoPlan}
  BY <1>3
<1>6. OperatorTypeOK'
  <2>1. asker' \in [Builds -> PlanIds \cup {NoPlan}] /\ stranded' \subseteq PlanIds
    BY <1>2, <1>3, <1>5
  <2>2. plan' \in [PlanIds -> PlanStatuses]
    BY <1>2, <1>3, <1>4, <1>5 DEF JobEnds, PlanStatuses
  <2>3. linked' \in [PlanIds -> Builds \cup PlanIds \cup {NoLink}]
    BY <1>2, <1>3, <1>5
  <2> QED
    BY <1>1, <1>2, <1>3, <2>1, <2>2, <2>3 DEF OperatorTypeOK, BuildsInv
<1>7. ASSUME NEW q \in PlanIds PROVE PlanOK(q)'
  <2>1. PlanOK(q)
    BY PlansSplit DEF OperatorInv
  <2>2. CASE q # p
    <3>1. plan'[q] = plan[q] /\ linked'[q] = linked[q] /\ (q \in stranded => q \in stranded')
      BY <1>2, <1>3, <2>2
    <3>2. ASSUME NEW k \in Builds, at[k] # "nowhere", asker[k] = q
          PROVE  at'[k] # "nowhere" /\ asker'[k] = q
      <4>1. k # j
        BY <2>2, <3>2
      <4> QED
        BY <1>1, <1>2, <1>3, <3>2, <4>1 DEF Turn
    <3> QED
      BY <1>2, <2>1, <3>1, <3>2, StayingPlan DEF PlanStays, RowsStay
  <2>3. CASE q = p /\ live[j].status = "none"
    <3>1. p # NoPlan
      BY <2>3, OperatorAssumption
    <3>2. /\ stranded' = stranded \cup {q} /\ plan' = plan /\ linked' = linked
          /\ review' = review /\ jobs' = jobs
      BY <1>2, <2>3, <3>1
    <3> QED
      BY <2>1, <3>2 DEF PlanOK
  <2>4. CASE q = p /\ live[j].status # "none"
    <3>1. p # NoPlan
      BY <2>4, OperatorAssumption
    <3>2. linked'[q] = j /\ plan'[q] = jobs'[j].status /\ plan'[q] \in JobEnds
      BY <1>2, <1>3, <1>4, <2>4, <3>1
    <3>3. j \notin PlanIds /\ j # NoLink
      BY OperatorAssumption
    <3> QED
      BY <3>2, <3>3 DEF PlanOK, JobEnds
  <2> QED
    BY <2>2, <2>3, <2>4
<1> QED
  BY <1>1, <1>6, <1>7 DEF OperatorInv, PlansInv, PlanOK

\* A death strands the plans whose job was running.
LEMMA DeathStep ==
    ASSUME OperatorInv, Death
    PROVE  OperatorInv'
<1>1. BuildsInv'
  BY DieStep DEF Death, OperatorInv
<1>2. /\ jobs' = jobs /\ linked' = linked /\ asker' = [j \in Builds |-> NoPlan]
      /\ stranded' = {p \in PlanIds : plan'[p] \in {"submitted", "executing"}}
  BY DEF Death, Die, Forget
<1>3. /\ plan \in [PlanIds -> PlanStatuses]
      /\ linked \in [PlanIds -> Builds \cup PlanIds \cup {NoLink}]
      /\ review \in [PlanIds -> {"none", "validating"} \cup JobEnds]
  BY DEF OperatorInv, OperatorTypeOK
<1>4. /\ plan' \in [PlanIds -> PlanStatuses]
      /\ review' \in [PlanIds -> {"none", "validating"} \cup JobEnds]
      /\ \A q \in PlanIds :
            \/ plan'[q] = plan[q] /\ review'[q] = review[q]
            \/ plan[q] = "none" /\ plan'[q] \in {"submitted", "executing"}
  <2>1. CASE UNCHANGED <<plan, review>>
    BY <1>3, <2>1
  <2>2. CASE \E p \in PlanIds :
                /\ plan[p] = "none"
                /\ \E status \in {"submitted", "executing"} : plan' = [plan EXCEPT ![p] = status]
                /\ \E row \in {"none", "validating"} : review' = [review EXCEPT ![p] = row]
    <3>1. PICK p \in PlanIds, status \in {"submitted", "executing"}, row \in {"none", "validating"} :
             plan[p] = "none" /\ plan' = [plan EXCEPT ![p] = status]
             /\ review' = [review EXCEPT ![p] = row]
      BY <2>2
    <3>2. plan' \in [PlanIds -> PlanStatuses]
      BY <1>3, <3>1 DEF PlanStatuses
    <3>3. review' \in [PlanIds -> {"none", "validating"} \cup JobEnds]
      BY <1>3, <3>1
    <3> QED
      BY <1>3, <3>1, <3>2, <3>3
  <2> QED
    BY <2>1, <2>2 DEF Death, Submitting, NewPlans
<1>5. OperatorTypeOK'
  BY <1>1, <1>2, <1>3, <1>4 DEF OperatorTypeOK, BuildsInv
<1>6. ASSUME NEW q \in PlanIds PROVE PlanOK(q)'
  <2>1. PlanOK(q)
    BY PlansSplit DEF OperatorInv
  <2>2. CASE plan'[q] = plan[q] /\ review'[q] = review[q]
    BY <1>2, <2>1, <2>2 DEF PlanOK
  <2>3. CASE plan[q] = "none" /\ plan'[q] \in {"submitted", "executing"}
    <3>1. linked'[q] = NoLink /\ q \in stranded'
      BY <1>2, <2>1, <2>3 DEF PlanOK
    <3> QED
      BY <2>3, <3>1, UnlinkedPlan
  <2> QED
    BY <1>4, <2>2, <2>3
<1> QED
  BY <1>1, <1>5, <1>6 DEF OperatorInv, PlansInv, PlanOK

-------------------------------------------------------------------------------
(* The theorems *)

\* The initial state
LEMMA OperatorStart ==
    ASSUME OperatorInit
    PROVE  OperatorInv
<1>1. /\ wsStatus = [w \in WorkspaceIds |-> "none"] /\ wsDir = {} /\ lost = {}
      /\ jobs = [j \in Builds |-> NoJob] /\ live = [j \in Builds |-> NoJob]
      /\ at = [j \in Builds |-> "nowhere"]
      /\ plan = [p \in PlanIds |-> "none"] /\ linked = [p \in PlanIds |-> NoLink]
      /\ review = [p \in PlanIds |-> "none"] /\ asker = [j \in Builds |-> NoPlan]
      /\ stranded = {}
  BY DEF OperatorInit, BuildsInit, WorkspacesInit
<1>2. BuildsTypeOK
  BY <1>1, NoJobFacts DEF BuildsTypeOK, WorkspacesTypeOK, WsStatuses, Places
<1>3. RecordsInv
  <2> SUFFICES ASSUME NEW j \in Builds PROVE Fits(NoJob, NoJob, "nowhere")
    BY <1>1 DEF RecordsInv
  <2> QED
    BY NoJobFacts DEF Fits
<1>4. Alone
  BY <1>1 DEF Alone, BusyPlaces
<1>5. Active = {} /\ Counted = {}
  BY <1>1 DEF Active, InStatus, Counted
<1>6. WorkspaceInv
  <2>1. Cardinality(Counted) <= MaxActive
    BY <1>5, FS_EmptySet, WorkspaceAssumption
  <2> QED
    BY <1>1, <1>5, <2>1 DEF WorkspaceInv
<1>7. OperatorTypeOK
  BY <1>1, <1>2 DEF OperatorTypeOK, PlanStatuses
<1>8. PlansInv
  BY <1>1, OperatorAssumption DEF PlansInv
<1> QED
  BY <1>2, <1>3, <1>4, <1>6, <1>7, <1>8 DEF OperatorInv, BuildsInv

\* Every step of the composition
LEMMA OperatorStep ==
    ASSUME OperatorInv, [OperatorNext]_operatorVars
    PROVE  OperatorInv'
<1>1. ASSUME NEW p \in PlanIds, SubmitRefused(p) \/ SubmitUnreadable(p) \/ SubmitReview(p)
      PROVE  OperatorInv'
  BY <1>1, SubmitRefusedStep, SubmitReviewStep
<1>2. ASSUME NEW p \in PlanIds, NEW j \in Builds, NEW intake \in Intakes, SubmitBuild(p, j, intake)
      PROVE  OperatorInv'
  BY <1>2, SubmitBuildStep
<1>3. ASSUME NEW j \in Builds, Direct(j) PROVE OperatorInv'
  <2>1. Turn(j) /\ BuildsInv' /\ at[j] = "nowhere"
    BY <1>3, BeginsStep DEF Direct, OperatorInv
  <2> QED
    BY <1>3, <2>1, BuildOnlyStep DEF Direct
<1>4. ASSUME NEW j \in Builds, BuildStep(j) PROVE OperatorInv'
  <2>1. Turn(j) /\ BuildsInv' /\ at'[j] # "nowhere"
    BY <1>4, BuildStepStep DEF OperatorInv
  <2> QED
    BY <1>4, <2>1, BuildOnlyStep DEF BuildStep
<1>5. ASSUME NEW j \in Builds, ReturnBuild(j) PROVE OperatorInv'
  BY <1>5, ReturnBuildStep
<1>6. CASE NightlyCleanup
  BY <1>6, CleanupKeepsPlans
<1>7. CASE Death
  BY <1>7, DeathStep
<1>8. CASE UNCHANGED operatorVars
  <2>1. UNCHANGED <<wsStatus, wsDir, jobs, live, at, lost, plan, linked, review, asker, stranded>>
    BY <1>8 DEF operatorVars, buildVars, wsVars
  <2>2. WorkspacesTypeOK' /\ Active' \subseteq Active
    BY <2>1 DEF OperatorInv, BuildsInv, BuildsTypeOK, WorkspacesTypeOK, Active, InStatus
  <2>3. BuildsInv'
    BY <2>1, <2>2, QuietBuilds DEF OperatorInv
  <2>4. OperatorTypeOK' /\ PlansInv'
    BY <2>1, <2>3 DEF OperatorInv, OperatorTypeOK, BuildsInv, PlansInv
  <2> QED
    BY <2>3, <2>4 DEF OperatorInv
<1> QED
  BY <1>1, <1>2, <1>3, <1>4, <1>5, <1>6, <1>7, <1>8 DEF OperatorNext

\* The conjunction of every part holds in every reachable state.
THEOREM OperatorInvariant == OperatorSpec => []OperatorInv
<1>1. OperatorInit => OperatorInv
  BY OperatorStart
<1>2. OperatorInv /\ [OperatorNext]_operatorVars => OperatorInv'
  BY OperatorStep
<1> QED
  BY <1>1, <1>2, PTL DEF OperatorSpec

\* Every variable keeps its type, rows, plans, reviews and workspaces alike.
THEOREM OperatorTyped == OperatorSpec => []OperatorTypeOK
<1>1. OperatorInv => OperatorTypeOK
  BY DEF OperatorInv
<1> QED
  BY <1>1, OperatorInvariant, PTL

\* Whatever was reused from earlier attempts, a build saved as completed was accepted, was
\* verified if any criterion is required, and was let through by its review gate.
THEOREM CompletedBuildsAreSound == OperatorSpec => []CompletedIsSound
<1>1. OperatorInv => CompletedIsSound
  BY DEF OperatorInv, BuildsInv, RecordsInv, Fits, RowSound, CompletedIsSound
<1> QED
  BY <1>1, OperatorInvariant, PTL

\* An active workspace belongs to a build and a plan under way to a submission, unless a
\* death or an exception cut theirs short.
THEOREM WorkIsHeld == OperatorSpec => []Held
<1>1. OperatorInv => Held
  BY DEF OperatorInv, BuildsInv, WorkspaceInv, PlansInv, Active, Held
<1> QED
  BY <1>1, OperatorInvariant, PTL

\* create() keeps max_active, but for workspaces a resume opened again or a death left.
THEOREM LimitIsKept == OperatorSpec => []LimitHolds
<1>1. OperatorInv => LimitHolds
  BY DEF OperatorInv, BuildsInv, WorkspaceInv, Counted, Active, LimitHolds
<1> QED
  BY <1>1, OperatorInvariant, PTL

\* Both: whatever is held is in use, and within the limit.
THEOREM NothingStaysHeldOver == OperatorSpec => []NothingIsHeldOver
<1>1. NothingIsHeldOver <=> Held /\ LimitHolds
  BY DEF NothingIsHeldOver
<1> QED
  BY <1>1, WorkIsHeld, LimitIsKept, PTL

\* A plan that says how its job ended names the job, and the job's row says the same.
THEOREM PlansTellTruth == OperatorSpec => []PlanTellsTruth
<1>1. OperatorInv => PlanTellsTruth
  BY DEF OperatorInv, PlansInv, PlanTellsTruth
<1> QED
  BY <1>1, OperatorInvariant, PTL

\* A build that Docker tested is saved as failed, whatever Docker answered: _finalize asks
\* for an acceptance that nothing evaluates on that path.
THEOREM DockerNeverCompletes ==
    OperatorSpec =>
        [][\A j \in Builds : DockerAnswers(j) => jobs'[j].status = "failed"]_operatorVars
<1>1. OperatorInv => \A j \in Builds : DockerAnswers(j) => jobs'[j].status = "failed"
  BY DockerAnswersStep DEF OperatorInv
<1>2. OperatorInv /\ [OperatorNext]_operatorVars =>
         [\A j \in Builds : DockerAnswers(j) => jobs'[j].status = "failed"]_operatorVars
  BY <1>1
<1> QED
  BY <1>2, OperatorInvariant, PTL DEF OperatorSpec
===============================================================================
