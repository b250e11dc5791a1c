-------------------------------- MODULE Reviews --------------------------------
(***************************************************************************)
(* review/service.py from the inside: one review, from its intake through     *)
(* the analyzers and the verifier to its artifacts, its row and the request   *)
(* for its delivery.  run_review never gives way to another coroutine, but    *)
(* it commits a dozen times, to the review database and to the control        *)
(* plane's: between two commits the process may die, and each of them may     *)
(* raise.  A file is a name with what the analyzers tell apart about it; each  *)
(* pattern occurs once or never in a file.  Confidence, tags and wording are  *)
(* left out, and no artifact reaches the storage's size limit.               *)
(***************************************************************************)
EXTENDS Naturals, FiniteSets, SequencesExt

CONSTANTS
    Paths,          \* the files there may be
    NoPath,         \* the file_path of a finding about the whole repository
    TestLike,       \* those with "test" in the path
    Readable,       \* those with an extension the security analyzer reads
    Sensitive,      \* those with "auth", "vault", ... in the path
    Oversized,      \* those above 500 KB
    Hidden,         \* those in a directory both analyzers pass over
    Generated,      \* those in one only the structure analyzer passes over
    Flaws,          \* what the security patterns find in a file
    Endings,        \* per path as git prints it, the files that end like it
    Repositories,   \* what repo_path may hold
    ReviewIntakes,  \* the requests
    ReviewSources,  \* allowed_sources of the execution policies
    LargeChange,    \* a diff of more files is reported (20 in the code)
    MaxPatterns     \* include patterns made of a diff (50 in the code)

ASSUME ReviewsAssumption ==
    /\ Cardinality(Oversized) <= 3      \* only the three largest files are looked at
    /\ \A r \in Repositories : /\ r.listing \in Seq(Paths)
                               /\ r.kind # "directory" => r.listing = <<>>
    /\ \A p \in Paths : IsFiniteSet(Flaws[p])    \* there are as many patterns

VARIABLES
    review,       \* the ReviewJob in memory
    reviewRow,    \* review_jobs
    product,      \* the control plane's product job: its status and outcome
    artifacts,    \* review_artifacts of the job, in the order they were saved
    retentions,   \* how many of them the control plane retains
    space,        \* the status of the review's workspace
    reviewStage,  \* what run_review does next
    afterSave,    \* and what follows the save of the row
    delivery      \* the delivery request, if one was made

reviewVars ==
    <<review, reviewRow, product, artifacts, retentions, space, reviewStage, afterSave,
      delivery>>

Severities == {"critical", "high", "medium", "low"}
Secrets == {"secret", "mock secret", "sample secret"}
Kinds == {"markdown", "json", "trace", "findings", "operator_summary", "pr_comment"}

\* finding_counts
Counts(findings) ==
    [s \in Severities |-> Cardinality({f \in findings : f.severity = s})]
HasCritical(findings) == \E f \in findings : f.severity = "critical"

\* stated: the counts executive_summary gives
EmptyReport == [findings |-> {}, verdict |-> "", stated |-> Counts({})]
NoReview == [status |-> "none", report |-> EmptyReport]
NoRequest == [quorum |-> 0, verdict |-> "", findings |-> {}, artifacts |-> 0]

ReviewsInit ==
    /\ review = [intake |-> CHOOSE i \in ReviewIntakes : TRUE,
                 repo |-> CHOOSE r \in Repositories : TRUE,
                 status |-> "created", workspace |-> FALSE, report |-> EmptyReport]
    /\ reviewRow = NoReview
    /\ product = [status |-> "none", outcome |-> ""]
    /\ artifacts = <<>> /\ retentions = 0
    /\ space = "none"
    /\ reviewStage = "idle" /\ afterSave = "over"
    /\ delivery = NoRequest

-----------------------------------------------------------------------------
(* review/analyzers.py and review/verifier.py                                *)

Finding(about, file, severity, sample) ==
    [about |-> about, file |-> file, severity |-> severity, sample |-> sample]
\* A finding about the repository, if there is one to report
Notice(condition, about, severity) ==
    IF condition THEN {Finding(about, NoPath, severity, FALSE)} ELSE {}

Leading(s, n) == SubSeq(s, 1, IF n < Len(s) THEN n ELSE Len(s))
\* The first n files rglob comes by that are wanted
FirstListed(r, wanted, n) ==
    LET places == {k \in DOMAIN r.listing : r.listing[k] \in wanted}
    IN  {r.listing[k] : k \in {j \in places : Cardinality({h \in places : h <= j}) <= n}}

\* exclude_patterns and dist/, build/ and the caches count here, and not in the next one.
Structure(r, i) ==
    LET seen == FirstListed(r, i.include \ (i.exclude \cup Hidden \cup Generated), i.maxFiles)
        untested == seen \cap TestLike = {}
    IN  IF r.kind # "directory" THEN Notice(TRUE, "path not found", "critical")
        ELSE Notice(untested /\ ~i.scoped, "no tests", "high")
             \cup Notice(untested /\ i.scoped, "no tests in scope", "low")
             \cup Notice(~r.ci, "no CI", "medium")
             \cup Notice(~r.readme, "no README", "low")
             \cup {Finding("large file", f, "low", FALSE) : f \in seen \cap Oversized}

\* The line of a mock or sample secret says so; only the analyzer's own test for mocks
\* in test files comes first.
PatternSeverity(flaw) ==
    CASE flaw \in Secrets -> "critical" [] flaw = "eval" -> "high" [] OTHER -> "medium"
Security(r, covered, n) ==
    UNION {{Finding(flaw, f, PatternSeverity(flaw), flaw \in {"mock secret", "sample secret"}) :
               flaw \in Flaws[f] \ (IF f \in TestLike THEN {"mock secret"} ELSE {})} :
           f \in FirstListed(r, (Readable \cap covered) \ Hidden, n)}

Audit(r, i) == Structure(r, i) \cup Security(r, i.include, i.maxFiles)

\* _run_release_review looks for two more files.
Release(r, i) ==
    Audit(r, i) \cup Notice(~r.changelog, "no CHANGELOG", "medium")
                \cup Notice(~r.package, "no package configuration", "medium")

\* What `git diff --stat` and `git diff` come to; the second may be the one that hangs.
GitOutcomes(r) ==
    CASE r.kind = "directory" -> {"answers", "refuses", "hangs", "hangs late", "missing"}
      [] r.kind = "missing"   -> {"missing"}
      [] OTHER                -> {}       \* NotADirectoryError, which nobody catches
ChangedFiles(r, git) == IF git \in {"answers", "hangs late"} THEN r.changed ELSE <<>>
Diff(r, git) ==
    LET changed == ToSet(ChangedFiles(r, git))
    IN  Notice(git = "refuses", "git diff failed", "critical")
        \cup Notice(git = "missing", "git not available", "critical")
        \cup Notice(git \in {"hangs", "hangs late"}, "git diff timed out", "high")
        \cup Notice(git = "answers" /\ Len(r.changed) > LargeChange,
                    "large changeset", "medium")
        \cup Notice(/\ git = "answers"
                /\ changed \cap Sensitive # {} /\ changed \cap TestLike = {},
                "sensitive changes without tests", "high")

\* As many files are scanned as were changed, among those whose path ends like one of them.
PullRequest(r, git) ==
    LET changed == ChangedFiles(r, git)
    IN  Diff(r, git)
        \cup IF changed = <<>> THEN {}
             ELSE Security(r, UNION {Endings[p] : p \in ToSet(Leading(changed, MaxPatterns))},
                           Len(changed))

\* _verify_finding.  The last rule looks for literal_eval in evidence no finding about
\* eval() has, and the ones in between touch confidence only.
InTests(f) ==
    f.file \in TestLike /\ f.about \in Secrets \cup {"eval"}
Verified(findings) ==
    {IF InTests(f) THEN [f EXCEPT !.severity = "low"] ELSE f :
        f \in {f \in findings : ~(InTests(f) /\ f.sample)}}

Verdict(findings) ==
    IF HasCritical(findings) THEN "fail"
    ELSE IF findings # {} THEN "pass_with_findings" ELSE "pass"

\* The summary is written when the first analyzers are done, before a release adds its
\* findings and the verifier has seen any.
Report(findings, counted) ==
    [findings |-> Verified(findings), verdict |-> Verdict(Verified(findings)),
     stated |-> Counts(counted)]

\* What a review of repository r may report
ReportsOn(r, i) ==
    CASE i.type = "repo_audit"     -> {Report(Audit(r, i), Audit(r, i))}
      [] i.type = "release_review" -> {Report(Release(r, i), Audit(r, i))}
      [] OTHER -> {Report(PullRequest(r, git), PullRequest(r, git)) : git \in GitOutcomes(r)}

-----------------------------------------------------------------------------
(* run_review                                                                *)

\* ReviewIntake.validate()
ValidIntake(i) ==
    /\ i.path = "plain"          \* given, without "..", in no system directory
    /\ i.type = "pr_review" => i.diff # "none"
    /\ i.diff # "malformed"
    /\ i.maxFiles >= 1

\* select_review_execution_policy: a diff calls for the policy that allows git, which
\* is for pull requests alone, so the check for git that follows never blocks anything.
HostReadAllowed(i) ==
    /\ i.source \in ReviewSources
    /\ i.type \in IF i.type = "pr_review" \/ i.diff # "none"
                  THEN {"pr_review"} ELSE {"repo_audit", "release_review"}

Submit(i, r) ==
    /\ reviewStage = "idle"
    /\ review' = [review EXCEPT !.intake = i, !.repo = r,
                                !.status = IF ValidIntake(i) THEN "validating" ELSE "failed"]
    /\ reviewStage' = "save" /\ afterSave' = IF ValidIntake(i) THEN "workspace" ELSE "over"
    /\ UNCHANGED <<reviewRow, product, artifacts, retentions, space, delivery>>

\* _save_job: the summary is made to state the findings there are now, if there are any;
\* the row is written, and then the control plane's.
MutantRefreshed(report) == report
Refreshed(report) ==
    IF report.findings = {} THEN report
    ELSE [report EXCEPT !.stated = Counts(report.findings)]
SaveRow ==
    /\ reviewStage = "save"
    /\ review' = [review EXCEPT !.report = Refreshed(@)]
    /\ reviewRow' = [status |-> review.status, report |-> Refreshed(review.report)]
    /\ reviewStage' = "sync"
    /\ UNCHANGED <<product, artifacts, retentions, space, afterSave, delivery>>
SyncProduct ==
    /\ reviewStage = "sync"
    /\ product' = [status |-> review.status, outcome |-> review.report.verdict]
    /\ reviewStage' = afterSave
    /\ UNCHANGED <<review, reviewRow, artifacts, retentions, space, afterSave, delivery>>

\* create() and activate(): either may refuse, and the review goes on without.
OpenWorkspace ==
    /\ reviewStage = "workspace"
    /\ \E opened \in {"none", "created", "active"} :
          /\ space' = opened
          /\ review' = [review EXCEPT !.workspace = opened = "active"]
    /\ reviewStage' = "policy"
    /\ UNCHANGED <<reviewRow, product, artifacts, retentions, afterSave, delivery>>

\* The decision is recorded among the control plane's traces, which are left out.
Policy ==
    /\ reviewStage = "policy"
    /\ IF HostReadAllowed(review.intake)
       THEN /\ review' = [review EXCEPT !.status = "running"]
            /\ reviewStage' = "analyze" /\ UNCHANGED afterSave
       ELSE /\ review' = [review EXCEPT !.status = "blocked"]
            /\ reviewStage' = "save" /\ afterSave' = "close"
    /\ UNCHANGED <<reviewRow, product, artifacts, retentions, space, delivery>>

\* Analysis, verification and verdict commit nothing: a death loses them all.
Analyze ==
    /\ reviewStage = "analyze"
    /\ \E report \in ReportsOn(review.repo, review.intake) :
          review' = [review EXCEPT !.report = report, !.status = "verifying"]
    /\ reviewStage' = "store"
    /\ UNCHANGED <<reviewRow, product, artifacts, retentions, space, afterSave, delivery>>

\* The artifacts, in the order they are saved
Outputs(findings) ==
    <<"markdown", "json", "trace">> \o (IF findings = {} THEN <<>> ELSE <<"findings">>)
        \o <<"operator_summary", "pr_comment">>
\* The trace says nothing of the report.  The others repeat it, and all but the findings'
\* with the executive summary as it is before _save_job refreshes it.
StoreArtifact ==
    /\ reviewStage = "store"
    /\ LET kind == Outputs(review.report.findings)[Len(artifacts) + 1]
       IN  artifacts' = Append(artifacts,
               [kind |-> kind,
                report |-> IF kind = "trace" THEN EmptyReport ELSE review.report])
    /\ reviewStage' = "retain"
    /\ UNCHANGED <<review, reviewRow, product, retentions, space, afterSave, delivery>>
\* record_retained_artifact; after the last one the review is completed.
RetainArtifact ==
    /\ reviewStage = "retain"
    /\ retentions' = retentions + 1
    /\ IF Len(artifacts) < Len(Outputs(review.report.findings))
       THEN reviewStage' = "store" /\ UNCHANGED <<review, afterSave>>
       ELSE /\ review' = [review EXCEPT !.status = "completed"]
            /\ reviewStage' = "save" /\ afterSave' = "close"
    /\ UNCHANGED <<reviewRow, product, artifacts, space, delivery>>

\* _close_workspace; complete() and fail() may raise, which is logged.
CloseSpace ==
    /\ reviewStage \in {"close", "unwind"}
    /\ \/ /\ review.workspace
          /\ space' = IF review.status = "completed" THEN "completed" ELSE "failed"
       \/ UNCHANGED space
    /\ reviewStage' = "over"
    /\ UNCHANGED <<review, reviewRow, product, artifacts, retentions, afterSave, delivery>>

\* The guard of run_review: only a review with a workspace is marked failed, and its
\* second save is not guarded.
Guarded(now) ==
    IF review.workspace /\ now \notin {"completed", "failed", "blocked"}
    THEN /\ review' = [review EXCEPT !.status = "failed"]
         /\ reviewStage' = "save" /\ afterSave' = "unwind"
    ELSE /\ review' = [review EXCEPT !.status = now]
         /\ reviewStage' = "close" /\ UNCHANGED afterSave

\* A call to one of the databases raises, or the analysis does: git in a repo_path that is
\* a file, or a directory that cannot be read.
Raises ==
    /\ \/ /\ \/ reviewStage \in {"analyze", "store", "retain"}
             \/ reviewStage \in {"save", "sync"} /\ afterSave = "close"
          /\ Guarded(review.status)
       \/ /\ reviewStage = "policy"
          /\ Guarded(IF HostReadAllowed(review.intake) THEN review.status ELSE "blocked")
       \/ /\ reviewStage \in {"save", "sync"} /\ afterSave \in {"workspace", "over", "unwind"}
          /\ reviewStage' = "over" /\ UNCHANGED <<review, afterSave>>
    /\ UNCHANGED <<reviewRow, product, artifacts, retentions, space, delivery>>

\* The process dies: nothing ever takes up a review that was under way.
ReviewDeath ==
    /\ reviewStage \notin {"idle", "over"}
    /\ reviewStage' = "over"
    /\ UNCHANGED <<review, reviewRow, product, artifacts, retentions, space, afterSave>>
    /\ UNCHANGED delivery

-----------------------------------------------------------------------------
(* The delivery of what is stored                                            *)

\* _delivery_required_approvals
QuorumFor(report) ==
    IF Counts(report.findings)["critical"] > 0 \/ report.verdict = "fail" THEN 2 ELSE 1

\* _assemble_delivery_bundle: the findings artifact's, or the row's if there is none
BundleFindings ==
    LET lists == {n \in DOMAIN artifacts : artifacts[n].kind = "findings"}
    IN  IF lists = {} THEN reviewRow.report.findings
        ELSE artifacts[CHOOSE n \in lists : TRUE].report.findings

\* request_delivery_approval, up to the proposal: anything but a completed row is refused.
RequestDelivery ==
    /\ reviewRow.status = "completed"
    /\ delivery = NoRequest                       \* bound: one request
    /\ LET report == reviewRow.report
       IN  delivery' = [quorum |-> QuorumFor(report), verdict |-> report.verdict,
                        findings |-> BundleFindings, artifacts |-> Len(artifacts)]
    /\ UNCHANGED <<review, reviewRow, product, artifacts, retentions, space>>
    /\ UNCHANGED <<reviewStage, afterSave>>

ReviewsNext ==
    \/ \E i \in ReviewIntakes, r \in Repositories : Submit(i, r)
    \/ SaveRow \/ SyncProduct \/ OpenWorkspace \/ Policy \/ Analyze
    \/ StoreArtifact \/ RetainArtifact \/ CloseSpace
    \/ Raises \/ ReviewDeath \/ RequestDelivery

ReviewsSpec == ReviewsInit /\ [][ReviewsNext]_reviewVars

ReviewStatuses ==
    {"none", "created", "validating", "running", "verifying",
     "completed", "failed", "blocked"}
\* Reports, rows and artifacts have their fields, and no more is retained than was saved.
ReviewsTypeOK ==
    /\ review.status \in ReviewStatuses /\ reviewRow.status \in ReviewStatuses
    /\ product.status \in ReviewStatuses
    /\ \A report \in {review.report, reviewRow.report}
                     \cup {a.report : a \in ToSet(artifacts)} :
          /\ report.verdict \in {"", "fail", "pass_with_findings", "pass"}
          /\ report.stated \in [Severities -> Nat]
    /\ \A a \in ToSet(artifacts) : a.kind \in Kinds
    /\ retentions \in 0..Len(artifacts)
    /\ space \in {"none", "created", "active", "completed", "failed"}
    /\ delivery.quorum \in 0..2

\* A review whose row says it is completed is whole, wherever the process died and
\* whichever write failed: every artifact of its kind is stored and retained, those that
\* repeat the report repeat the row's findings and verdict, the verdict is "fail" exactly
\* if a critical finding is left, and the summary states the findings that are left.  Only
\* where none is left does it still state those the analyzers began with, which
\* _save_job means to correct and passes over; they are at most the secrets the verifier
\* takes for samples, so nothing but critical findings that are gone is stated there.
\* What is asked to be delivered is that review, to be signed by two if anything in it is
\* critical.  (run_review, _save_job and request_delivery_approval, review/service.py)
ReviewsAgree ==
    LET report == reviewRow.report
    IN  /\ reviewRow.status = "completed" =>
              /\ [n \in DOMAIN artifacts |-> artifacts[n].kind] = Outputs(report.findings)
              /\ retentions = Len(artifacts)
              /\ \A a \in ToSet(artifacts) :
                    \/ a.kind = "trace"
                    \/ a.report.findings = report.findings /\ a.report.verdict = report.verdict
              /\ report.verdict = "fail" <=> HasCritical(report.findings)
              /\ IF report.findings # {} THEN report.stated = Counts(report.findings)
                 ELSE \A s \in Severities \ {"critical"} : report.stated[s] = 0
        /\ delivery # NoRequest =>
              /\ delivery.findings = report.findings /\ delivery.verdict = report.verdict
              /\ delivery.quorum = 2 <=> HasCritical(report.findings)
              /\ delivery.artifacts = retentions
===============================================================================
