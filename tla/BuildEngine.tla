------------------------------ MODULE BuildEngine ------------------------------
(***************************************************************************)
(* build/service.py from the inside: the plan's operations applied one by one *)
(* to the workspace's files, the checks found there, the change set against   *)
(* the live repository, the acceptance criteria, and the resumes that reuse    *)
(* the checkpoints of earlier attempts.  BuildJobs has the same attempts from  *)
(* the outside, with the processes around them.                              *)
(*                                                                         *)
(* A text is a sequence of pieces.  A JSON object has one key, which json_set  *)
(* assigns: the object is its text.  Directories hold files and nothing else.  *)
(***************************************************************************)
EXTENDS Naturals, FiniteSets, SequencesExt

CONSTANTS
    Files,       \* paths in the repository and in its copies
    LeftBehind,  \* those under data, dist, build, node_modules...: never copied
    Docs,        \* docs/... and *.md
    Outside,     \* a path that a link leads out of the workspace
    NoFile,      \* what is at a path without a file
    Objects,     \* the texts that are JSON objects
    Original,    \* the repository as the request finds it
    Upstream,    \* what its owner may make of it meanwhile
    Requests,    \* BuildIntake: plan, whether a model writes it, criteria, gate, target files
    Reports,     \* what a post-build review may find
    Defaults,    \* verification_defaults of the capability, in order
    Surfaces,    \* by check: its Python markers, one of which is enough to call for it
    Runners,     \* by check: the tool's own, a package script, a make target: those there are
    Installed,   \* the checks whose default command is on the PATH
    MaxAttempts  \* bound: the run and its resumes

Checks == {"test", "lint", "typecheck"}

OperationTypes == {"write_file", "append_text", "replace_text", "insert_before_text",
                   "insert_after_text", "delete_text", "delete_file", "copy_file",
                   "move_file", "json_set"}

\* BuildOperation.validate: an edit says what it looks for.  A path may still lead out.
ValidOperation(o) ==
    /\ o.type \in OperationTypes /\ {o.path, o.source} \subseteq Files \cup {Outside}
    /\ o.type \in {"replace_text", "insert_before_text", "insert_after_text", "delete_text"} =>
          o.match # <<>>
    /\ o.type = "json_set" => o.content \in Objects

ASSUME EngineAssumption ==
    /\ IsFiniteSet(Files) /\ LeftBehind \cup Docs \subseteq Files /\ Outside \notin Files
    /\ Defaults \in Seq(Checks) /\ Defaults # <<>>
    /\ Surfaces \in [Checks -> SUBSET Files] /\ Installed \subseteq Checks
    /\ Runners \in [Checks -> SUBSET {"toolchain", "script", "make"}]
    /\ \A q \in Requests :
          /\ Len(q.plan) \in Nat /\ DOMAIN q.plan = 1..Len(q.plan)
          /\ \A i \in DOMAIN q.plan : ValidOperation(q.plan[i])
          /\ q.written \in BOOLEAN
    /\ \A r \in Upstream \cup {Original} : DOMAIN r = Files
    /\ MaxAttempts \in Nat \ {0}

VARIABLES
    repo,     \* the live repository
    tree,     \* the workspace's files
    onDisk,   \* its directory exists
    job,      \* the current attempt's BuildJob
    reached,  \* where its coroutine is
    synced,   \* what the repository was when the workspace was made of it
    drift,    \* what it had become when the change set was taken: the paths that differ
    checked,  \* the files the verification results speak of
    brought   \* those results, and the checkpoints, come from another workspace

engineVars == <<repo, tree, onDisk, job, reached, synced, drift, checked, brought>>

-------------------------------------------------------------------------------
(* The operations, each a function of the files and of the operation.         *)

Done(outcome, files) == [status |-> outcome, files |-> files]
Noop(t) == Done("noop", t)
Failing(t) == Done("failed", t)                                    \* the branch raises
Put(t, f, text) == Done("applied", [t EXCEPT ![f] = text])

Has(text, part) == part \in SubSeqs(text)
TextAt(t, f) == IF t[f] = NoFile THEN <<>> ELSE t[f]

WriteFile(t, o) == IF t[o.path] = o.content THEN Noop(t) ELSE Put(t, o.path, o.content)

AppendText(t, o) ==
    IF o.content # <<>> /\ Has(TextAt(t, o.path), o.content) THEN Noop(t)
    ELSE Put(t, o.path, TextAt(t, o.path) \o o.content)

ReplaceText(t, o) ==
    IF t[o.path] = NoFile THEN Failing(t)
    ELSE IF ~Has(t[o.path], o.match)
         THEN IF o.content # <<>> /\ Has(t[o.path], o.content) THEN Noop(t) ELSE Failing(t)
    ELSE IF o.content = o.match THEN Noop(t)
    ELSE Put(t, o.path, ReplaceFirstSubSeq(o.content, o.match, t[o.path]))

Insert(t, o, pair) ==
    IF t[o.path] = NoFile THEN Failing(t)
    ELSE IF Has(t[o.path], pair) THEN Noop(t)
    ELSE IF ~Has(t[o.path], o.match) THEN Failing(t)
    ELSE Put(t, o.path, ReplaceFirstSubSeq(pair, o.match, t[o.path]))
InsertBefore(t, o) == Insert(t, o, o.content \o o.match)
InsertAfter(t, o) == Insert(t, o, o.match \o o.content)

DeleteText(t, o) ==
    IF t[o.path] = NoFile THEN Failing(t)
    ELSE IF ~Has(t[o.path], o.match) THEN Noop(t)
    ELSE Put(t, o.path, ReplaceFirstSubSeq(<<>>, o.match, t[o.path]))

MoveFile(t, o) ==
    IF t[o.source] = NoFile THEN IF t[o.path] # NoFile THEN Noop(t) ELSE Failing(t)
    ELSE IF o.source = o.path THEN Noop(t)
    ELSE Done("applied", [t EXCEPT ![o.path] = t[o.source], ![o.source] = NoFile])

CopyFile(t, o) ==
    IF t[o.source] = NoFile THEN Failing(t)
    ELSE IF t[o.path] = t[o.source] THEN Noop(t)
    ELSE Put(t, o.path, t[o.source])

JsonSet(t, o) ==
    IF t[o.path] # NoFile /\ t[o.path] \notin Objects THEN Failing(t)
    ELSE IF t[o.path] = o.content THEN Noop(t)
    ELSE Put(t, o.path, o.content)

DeleteFile(t, o) == IF t[o.path] = NoFile THEN Noop(t) ELSE Put(t, o.path, NoFile)

Applied(t, o) ==
    IF Outside \in {o.path, o.source} THEN Failing(t)
    ELSE CASE o.type = "write_file"         -> WriteFile(t, o)
           [] o.type = "append_text"        -> AppendText(t, o)
           [] o.type = "replace_text"       -> ReplaceText(t, o)
           [] o.type = "insert_before_text" -> InsertBefore(t, o)
           [] o.type = "insert_after_text"  -> InsertAfter(t, o)
           [] o.type = "delete_text"        -> DeleteText(t, o)
           [] o.type = "copy_file"          -> CopyFile(t, o)
           [] o.type = "move_file"          -> MoveFile(t, o)
           [] o.type = "json_set"           -> JsonSet(t, o)
           [] o.type = "delete_file"        -> DeleteFile(t, o)

Result(o, outcome) == [type |-> o.type, path |-> o.path, status |-> outcome]

\* One more operation, unless one has failed.
NextOperation(sofar, o) ==
    IF ~sofar.ok THEN sofar
    ELSE LET done == Applied(sofar.files, o)
         IN [files |-> done.files, ok |-> done.status # "failed",
             results |-> Append(sofar.results, Result(o, done.status))]

\* _execute_build
RunPlan(t, operations) ==
    LET after[n \in 0..Len(operations)] ==
            IF n = 0 THEN [files |-> t, ok |-> TRUE, results |-> <<>>]
            ELSE NextOperation(after[n - 1], operations[n])
    IN after[Len(operations)]

\* The paths a plan names: what it writes, and what it moves away.
Named(operations) ==
    {operations[i].path : i \in DOMAIN operations}
        \cup {operations[i].source :
                i \in {k \in DOMAIN operations : operations[k].type = "move_file"}}

-------------------------------------------------------------------------------
(* The workspace against the repository, and the checks found in it.          *)

\* _sync_repo_into_workspace
Synced(r) == [f \in Files |-> IF f \in LeftBehind THEN NoFile ELSE r[f]]

\* _collect_workspace_changes: the deliverable ones.  It reads the live repository, and
\* skips fewer directories than the sync does.
ChangeSet(r, t) == {f \in Files : r[f] # t[f]}

\* its Python markers, or a script or a make target of its name
Marked(t, check) == \E f \in Surfaces[check] : t[f] # NoFile
Surfaced(t, check) == Marked(t, check) \/ Runners[check] \cap {"script", "make"} # {}

\* _discover_verification_plan: types are checked wherever there is something to check
Discovered(t) ==
    LET found == {c \in Range(Defaults) \cup {"typecheck"} : Surfaced(t, c)}
    IN IF found = {} THEN {Defaults[1]} ELSE found

\* _resolve_verification_commands: the first that applies
Runner(t, check) ==
    CASE Marked(t, check) /\ "toolchain" \in Runners[check] -> "toolchain"
      [] "script" \in Runners[check]                          -> "script"
      [] "make" \in Runners[check]                            -> "make"
      [] "toolchain" \in Runners[check]                       -> "toolchain"
      [] OTHER                                                -> "default"

\* run_verification_suite: a check that does not start, or takes too long, has failed.
Suites(t) ==
    {s \in [Discovered(t) -> BOOLEAN] :
        \A c \in DOMAIN s : s[c] => (Runner(t, c) # "default" \/ c \in Installed)}

NotChecked == [c \in {} |-> TRUE]
Passed(suite) == \A c \in DOMAIN suite : suite[c]

-------------------------------------------------------------------------------
(* Acceptance.  A criterion's metadata is the set of its keys; their values   *)
(* are its paths, its text, its types and its limit.                          *)

MetadataKeys ==
    [verification |-> {"verification_kind"},
     review |-> {"max_critical", "max_high", "max_total_findings", "verdict"},
     change_set |-> {"required_paths", "minimum_changed_files", "docs_required",
                     "forbid_internal_changes"},
     workspace |-> {"path", "must_exist", "must_change", "contains_text",
                    "not_contains_text", "json_path"},
     implementation |-> {"minimum_changed_operations", "maximum_noop_operations",
                         "required_operation_types", "required_changed_paths",
                         "implementation_mode"}]

\* _evaluate_structured_acceptance_criterion: the first that the evaluator or a key names
Evidenced(c) ==
    SelectSeq(<<"verification", "review", "change_set", "workspace", "implementation">>,
              LAMBDA e : c.evaluator = e \/ c.keys \cap MetadataKeys[e] # {})

\* What its text asks for, when nothing else says who evaluates it
ByTopic(topic) ==
    CASE topic \in Checks -> "verification"
      [] OTHER -> topic     \* "verify_command", an evaluator's name, "quality", "nothing"

\* _evaluate_acceptance: who evaluates a criterion
Evaluator(c) ==
    IF c.keys # {} /\ Evidenced(c) # <<>> THEN Evidenced(c)[1]
    ELSE IF c.evaluator # "auto" THEN c.evaluator
    ELSE ByTopic(c.topic)

MetByQuality(j) == DOMAIN j.suite # {} /\ Passed(j.suite)

MetByVerification(c, j) ==
    LET check == IF "verification_kind" \in c.keys THEN c.check ELSE c.topic
    IN IF check \in Checks THEN check \in DOMAIN j.suite /\ j.suite[check] ELSE MetByQuality(j)

MetByReview(c, j) ==
    /\ j.request.gate # "none" /\ j.report.verdict # "none"
    /\ IF c.keys \cap MetadataKeys.review # {}
       THEN /\ "max_critical" \in c.keys => j.report.critical <= c.limit
            /\ "max_high" \in c.keys => j.report.high <= c.limit
            /\ "max_total_findings" \in c.keys => j.report.total <= c.limit
            /\ "verdict" \in c.keys => j.report.verdict = "pass"
       ELSE CASE c.nuance = "no findings" -> j.report.total = 0
              [] c.nuance = "no critical" -> j.report.critical = 0
              [] c.nuance = "no high"     -> j.report.critical = 0 /\ j.report.high = 0
              [] OTHER                    -> j.report.verdict # "fail"

\* The marker .build_job is an internal change of every build.
MetByChanges(c, j) ==
    IF c.keys # {}
    THEN /\ c.paths \subseteq j.changes
         /\ "minimum_changed_files" \in c.keys => Cardinality(j.changes) >= c.limit
         /\ "docs_required" \in c.keys => j.changes \cap Docs # {}
         /\ "forbid_internal_changes" \notin c.keys
    ELSE CASE c.nuance = "target file" ->
                  j.request.targets # {} /\ j.request.targets \subseteq j.changes
           [] c.nuance = "docs" -> j.changes \cap Docs # {}
           [] OTHER             -> j.changes # {}

MetInWorkspace(c, j, t) ==
    LET paths == IF c.paths = {} THEN j.request.targets ELSE c.paths
    IN c.keys # {} =>
         /\ "must_change" \in c.keys => paths \subseteq j.changes
         /\ "must_exist" \in c.keys => \A f \in paths : t[f] # NoFile
         /\ c.keys \cap {"contains_text", "not_contains_text"} # {} =>
               paths # {} /\ \A f \in paths : t[f] # NoFile
         /\ "contains_text" \in c.keys => \A f \in paths : Has(t[f], c.text)
         /\ "not_contains_text" \in c.keys => \A f \in paths : ~Has(t[f], c.text)
         /\ "json_path" \in c.keys =>
               Cardinality(paths) = 1 /\ \A f \in paths : t[f] \in Objects /\ t[f] = c.text

WithStatus(results, outcome) == {i \in DOMAIN results : results[i].status = outcome}

MetByImplementation(c, j) ==
    LET changed == WithStatus(j.results, "applied")
        noops == WithStatus(j.results, "noop")
    IN c.keys # {} =>
         /\ "minimum_changed_operations" \in c.keys => Cardinality(changed) >= c.limit
         /\ "maximum_noop_operations" \in c.keys => Cardinality(noops) <= c.limit
         /\ "required_operation_types" \in c.keys =>
               c.types \subseteq {j.results[i].type : i \in DOMAIN j.results}
         /\ "required_changed_paths" \in c.keys =>
               c.paths \subseteq {j.results[i].path : i \in changed}
         /\ "implementation_mode" \in c.keys => j.mode = "engine"
         /\ WithStatus(j.results, "failed") = {}
         /\ c.nuance = "no noop" => noops = {}

\* What a criterion may come to; a command exits as it likes, or takes too long.
Verdicts(c, j, t) ==
    CASE Evaluator(c) = "verify_command" -> BOOLEAN
      [] Evaluator(c) = "verification"   -> {MetByVerification(c, j)}
      [] Evaluator(c) = "review"         -> {MetByReview(c, j)}
      [] Evaluator(c) = "change_set"     -> {MetByChanges(c, j)}
      [] Evaluator(c) = "workspace"      -> {MetInWorkspace(c, j, t)}
      [] Evaluator(c) = "implementation" -> {MetByImplementation(c, j)}
      [] Evaluator(c) = "quality"        -> {MetByQuality(j)}
      [] OTHER                           -> {FALSE}   \* no evaluator: fails closed

\* Step 7 and AcceptanceVerdict.evaluate: every required criterion is met.  Criteria
\* come pending from the intake each time, and a failed verification fails them all.
Acceptances(j, t) ==
    LET criteria == j.request.criteria
        required == {i \in DOMAIN criteria : criteria[i].required}
        may(i) == IF Passed(j.suite) THEN Verdicts(criteria[i], j, t) ELSE {FALSE}
    IN IF criteria = <<>> THEN {Passed(j.suite)}
       ELSE {a \in BOOLEAN : IF a THEN \A i \in required : TRUE \in may(i)
                             ELSE \E i \in required : FALSE \in may(i)}

\* _apply_review_gate_policy; an advisory gate records and never blocks
Blocks(gate, report) ==
    gate = "blocking" /\ (report.verdict = "fail" \/ report.critical > 0)

-------------------------------------------------------------------------------
NoReport == [verdict |-> "none", critical |-> 0, high |-> 0, total |-> 0]

NewJob(request) ==
    [status |-> "running", request |-> request, attempt |-> 1, skip |-> FALSE,
     planned |-> ~request.written, mode |-> "marker", results |-> <<>>, built |-> FALSE,
     suite |-> NotChecked, changes |-> {}, report |-> NoReport, accepted |-> FALSE]

EngineTypeOK ==
    /\ repo \in Upstream \cup {Original}
    /\ DOMAIN tree = Files /\ DOMAIN synced = Files /\ DOMAIN checked = Files
    /\ onDisk \in BOOLEAN
    /\ reached \in {"idle", "workspace", "building", "built", "judging", "ended"}
    /\ job.request \in Requests /\ job.attempt \in 1..MaxAttempts
    /\ job.status \in {"running", "completed", "failed", "blocked"}
    /\ job.mode \in {"marker", "engine"} /\ job.changes \subseteq Files
    /\ DOMAIN job.suite \subseteq Checks /\ drift \subseteq Files
    /\ {brought, job.skip, job.planned, job.built, job.accepted} \subseteq BOOLEAN

EngineInit ==
    /\ repo = Original /\ synced = Original /\ checked = Original
    /\ tree = Synced(Original)
    /\ onDisk = FALSE /\ reached = "idle" /\ drift = {} /\ brought = FALSE
    /\ job \in {NewJob(q) : q \in Requests}

\* run_build: a workspace made of the repository as it is now
RunBuild ==
    /\ reached = "idle"
    /\ tree' = Synced(repo) /\ synced' = repo /\ onDisk' = TRUE
    /\ reached' = "workspace"
    /\ UNCHANGED <<repo, job, drift, checked, brought>>

\* _finalize
Final(j) ==
    IF j.status # "running" THEN j
    ELSE [j EXCEPT !.status = IF j.accepted THEN "completed" ELSE "failed"]

End(j) == job' = Final(j) /\ reached' = "ended"

\* Step 2.5: no plan, so a model writes one; or cannot, and a marker is all there will be.
WritePlan ==
    /\ reached = "workspace" /\ ~job.planned
    /\ \/ job' = [job EXCEPT !.planned = TRUE] /\ reached' = "building"
       \/ End([job EXCEPT !.built = TRUE, !.status = "failed", !.accepted = FALSE])
    /\ UNCHANGED <<repo, tree, onDisk, synced, drift, checked, brought>>

\* What the model wrote is run in Docker first, and then written to the workspace too;
\* whatever Docker says, the job is filed as failed.  Docker may be missing.
DockerBuild ==
    /\ reached = "building"
    /\ \/ LET ran == RunPlan(tree, job.request.plan)
          IN /\ tree' = ran.files
             /\ End([job EXCEPT !.mode = "engine", !.results = ran.results, !.status = "failed"])
       \/ UNCHANGED tree /\ End([job EXCEPT !.status = "failed"])
    /\ UNCHANGED <<repo, onDisk, synced, drift, checked, brought>>

\* _can_reuse_checkpoint
MutantReused(j, phase) == j.skip /\ phase = "verified" /\ DOMAIN j.suite # {} /\ Passed(j.suite)
Reused(j, phase) ==
    /\ j.skip
    /\ CASE phase = "built"    -> j.built
         [] phase = "verified" -> DOMAIN j.suite # {} /\ Passed(j.suite)
         [] phase = "accepted" -> j.accepted

\* Step 3 on the host, and the guard against a build that only left its marker, which
\* looks at the plan and not at what was done with it
HostBuild ==
    LET ran == RunPlan(tree, job.request.plan)
    IN /\ reached = "workspace" /\ job.planned
       /\ IF Reused(job, "built")
          THEN reached' = "built" /\ UNCHANGED <<tree, job>>
          ELSE /\ tree' = ran.files
               /\ LET j == [job EXCEPT !.mode = "engine", !.results = ran.results]
                  IN IF ran.ok THEN job' = [j EXCEPT !.built = TRUE] /\ reached' = "built"
                     ELSE End([j EXCEPT !.status = "failed"])
       /\ UNCHANGED <<repo, onDisk, synced, drift, checked, brought>>

\* Steps 4 and 5: the checks, then the change set
Verify ==
    /\ reached = "built"
    /\ \E suite \in IF Reused(job, "verified") THEN {job.suite} ELSE Suites(tree) :
          job' = [job EXCEPT !.suite = suite, !.changes = ChangeSet(repo, tree)]
    /\ checked' = IF Reused(job, "verified") THEN checked ELSE tree
    /\ brought' = (brought /\ Reused(job, "verified"))
    /\ drift' = ChangeSet(repo, synced)
    /\ reached' = "judging"
    /\ UNCHANGED <<repo, tree, onDisk, synced>>

\* Steps 6 to 10.  The review is never reused, and there may be no review service.
Judge ==
    /\ reached = "judging"
    /\ \/ /\ Passed(job.suite) /\ job.request.gate # "none"
          /\ End([job EXCEPT !.status = "failed"])
       \/ \E report \in IF Passed(job.suite) /\ job.request.gate # "none"
                        THEN Reports ELSE {NoReport} :
             LET j == [job EXCEPT !.report = report,
                                  !.status = IF Blocks(job.request.gate, report)
                                             THEN "blocked" ELSE @]
             IN \E a \in IF Reused(j, "accepted") THEN {TRUE} ELSE Acceptances(j, tree) :
                   End([j EXCEPT !.accepted = a])
    /\ UNCHANGED <<repo, tree, onDisk, synced, drift, checked, brought>>

\* resume_build: a new job with the results, the acceptance and the checkpoints of the old
Copied(j, skip) ==
    [j EXCEPT !.status = "running", !.attempt = @ + 1, !.skip = skip, !.report = NoReport,
              !.changes = {}]

Resumable == reached = "ended" /\ job.status # "completed" /\ job.attempt < MaxAttempts

ResumeInPlace ==
    /\ Resumable /\ onDisk
    /\ job' = Copied(job, TRUE) /\ reached' = "workspace"
    /\ UNCHANGED <<repo, tree, onDisk, synced, drift, checked, brought>>

ResumeElsewhere ==
    /\ Resumable /\ ~onDisk
    /\ job' = Copied(job, FALSE) /\ reached' = "workspace"
    /\ tree' = Synced(repo) /\ synced' = repo /\ onDisk' = TRUE /\ brought' = TRUE
    /\ UNCHANGED <<repo, drift, checked>>

\* cleanup_expired, once the workspace's job has ended
CleanUp ==
    /\ reached = "ended" /\ onDisk
    /\ onDisk' = FALSE
    /\ UNCHANGED <<repo, tree, job, reached, synced, drift, checked, brought>>

\* The repository is its owner's, and the build locks nothing.
OwnerWorks ==
    /\ repo' \in Upstream \ {repo}
    /\ UNCHANGED <<tree, onDisk, job, reached, synced, drift, checked, brought>>

EngineNext ==
    \/ RunBuild \/ WritePlan \/ DockerBuild \/ HostBuild \/ Verify \/ Judge
    \/ ResumeInPlace \/ ResumeElsewhere \/ CleanUp \/ OwnerWorks

EngineSpec == EngineInit /\ [][EngineNext]_engineVars

-------------------------------------------------------------------------------
(* What a deliverable is: its change set is what the plan asked for.  A path   *)
(* in it that the plan does not name was left behind by the sync, or was moved  *)
(* under the build by the repository's owner.                                 *)
ChangesAreExplained ==
    job.changes \subseteq Named(job.request.plan) \cup LeftBehind \cup drift

(* A completed build was verified as it stands: at least one check ran on       *)
(* exactly the files that are in the workspace, and every one passed; unless    *)
(* its results were brought from another workspace, or it was asked for with    *)
(* criteria that are all optional.                                           *)
AllOptional(request) ==
    /\ request.criteria # <<>>
    /\ \A i \in DOMAIN request.criteria : ~request.criteria[i].required
VerifiedAsItStands ==
    job.status = "completed" /\ ~brought =>
        /\ checked = tree /\ DOMAIN job.suite # {}
        /\ Passed(job.suite) \/ AllOptional(job.request)

(* Both of what a build says of its tree, what changed in it and that it was    *)
(* verified, is so.                                                          *)
ContentIsExplained == ChangesAreExplained /\ VerifiedAsItStands

(* "...reusing successful phases and rerunning failed ones"                   *)
(* (docs/strategy/THEMES_EPICS_STORIES.md:188): whatever the resumes, a          *)
(* completed build is the build that was verified.                            *)
CompletedIsWhole == job.status = "completed" => checked = tree
===============================================================================
