--------------------------------- MODULE Intake ---------------------------------
(***************************************************************************)
(* control/intake.py and the gates of submit_operator_intake: how an intake is *)
(* qualified, sized, priced and planned, what the budget says of it, when it   *)
(* waits for signatures, and the mirror a git_url is acquired into.           *)
(* The ledger it is held against is the finance tracker's.                    *)
(***************************************************************************)
EXTENDS Finance

CONSTANTS Targets, Operations, Criteria, Structured, FocusAreas,   \* how many of each
          BuildTypes                                               \* BuildJobType

ASSUME IntakeAssumption ==
    /\ \A counts \in {Targets, Operations, Criteria, Structured, FocusAreas} :
          counts \subseteq Nat /\ 0 \in counts
    /\ "implementation" \in BuildTypes

VARIABLES
    asked,     \* the operator's intake, which grows from one preview to the next
    submitted,   \* what became of its last submission
    plan,      \* the plan recorded with it
    mirror,    \* the acquisition cache for its git_url: the directory and what is in it
    upstream   \* the repository has moved on since the cache was made

intakeVars == <<asked, submitted, plan, mirror, upstream>>

WorkTypes == {"auto", "review", "build"}
OperatorIntake ==
    [work : WorkTypes, build : BuildTypes, source : {"none", "repo", "both", "url", "unsupported"},
     sound : BOOLEAN, described : {"no", "yes", "as a change"}, diff : BOOLEAN, review : BOOLEAN,
     targets : Targets, operations : Operations, criteria : Criteria, structured : Structured,
     focusAreas : FocusAreas]

-----------------------------------------------------------------------------
\* validate(): a source, no "..", max_files >= 1, operations and criteria that parse, and
\* a description where building is asked for.
Valid(i) ==
    /\ i.source # "none" /\ i.sound
    /\ i.work = "build" => i.described # "no"

ResolvedWork(i) ==
    IF i.work # "auto" THEN i.work
    ELSE IF ~i.diff /\ (i.criteria + i.targets + i.operations > 0 \/ i.described = "as a change")
         THEN "build" ELSE "review"

Builds(i) == ResolvedWork(i) = "build"

\* qualify(): an early return leaves the work as it was asked for.
Qualifies(i) == Valid(i) /\ i.source # "unsupported"
Supported(i) == Qualifies(i) /\ (Builds(i) => i.described # "no")
PlannedWork(i) == IF Qualifies(i) THEN ResolvedWork(i) ELSE i.work

AtMost(n, bound) == IF n > bound THEN bound ELSE n
Worth(condition, points) == IF condition THEN points ELSE 0

\* _scope_profile
ScopeScore(i) ==
    Worth(i.source = "url", 1) + Worth(i.diff, 2)
    + AtMost(i.targets, 4) + AtMost(i.operations, 4) + AtMost(i.criteria, 4)
    + Worth(i.criteria > 0, AtMost(i.structured, 2)) + AtMost(i.focusAreas, 3)
    + Worth(Builds(i), 2) + Worth(Builds(i) /\ i.review, 1)

MutantSize(i) ==                              \* the two sizes in the wrong order
    IF ScopeScore(i) <= 2 THEN "small" ELSE IF ScopeScore(i) <= 6 THEN "large" ELSE "medium"
ScopeSize(i) ==
    IF ScopeScore(i) <= 2 THEN "small" ELSE IF ScopeScore(i) <= 6 THEN "medium" ELSE "large"

\* _assess_risk
Risk(i) ==
    IF Builds(i) /\ (ScopeSize(i) = "large" \/ i.build \in {"integration", "devops"}) THEN "high"
    ELSE IF ~Builds(i) /\ i.diff /\ ScopeSize(i) = "small" THEN "low"
    ELSE "medium"

\* _estimate_planned_cost_usd, in tenths of a dollar
Cost(i) ==
    AtMost(i.targets, 6) * 8 + AtMost(i.operations, 8) * 7 + AtMost(i.criteria, 6) * 11
    + AtMost(i.structured, 4) * 6 + AtMost(i.focusAreas, 4) * 4 + Worth(i.diff, 10)
    + Worth(ScopeSize(i) = "medium", 25) + Worth(ScopeSize(i) = "large", 60)
    + IF Builds(i)
      THEN 60 + Worth(i.review, 20) + Worth(i.build = "integration", 40)
              + Worth(i.build = "devops", 30) + Worth(i.build = "testing", 10)
      ELSE 15

\* _build_budget_envelope: the policy's word and the tracker's
BudgetBlocks(i, spent) ==
    LET posture == Check(Cost(i), spent)
    IN \/ posture.hardCapHit \/ posture.stopLossHit
       \/ ~(WithinBudget(Cost(i), spent) /\ posture.allowed)

\* _build_runtime_approval
NeedsApproval(i, spent) == Check(Cost(i), spent).requiresApproval \/ Risk(i) = "high"
Signatures(i, spent) ==
    IF \/ Risk(i) = "high" \/ i.source \in {"url", "both"}
       \/ Check(Cost(i), spent).requiresApproval /\ Cost(i) >= SingleTxCap
    THEN 2 ELSE 1

-----------------------------------------------------------------------------
\* create_plan
Phases(i) ==
    LET level == IF Supported(i) THEN "planned" ELSE "blocked"
        common == {"qualify", "review", "verify", "deliver"}
    IN IF PlannedWork(i) = "build"
       THEN [p \in common \cup {"build"} |->
                IF p = "review" /\ ~i.review THEN "optional" ELSE level]
       ELSE [p \in common |-> level]

\* get_review_gate_policy: the findings that stop a build at its review
ReviewGate(i) ==
    IF ~i.review THEN "advisory"
    ELSE IF i.build \in {"integration", "devops"} THEN "high_or_critical" ELSE "critical_findings"

\* _select_capabilities: what each phase will be done with
Capabilities(i) ==
    {<<"qualify", "intake_router_v1">>}
    \cup (IF i.source \in {"url", "unsupported"} THEN {<<"qualify", "repo_import_mirror">>} ELSE {})
    \cup (IF PlannedWork(i) = "build"
          THEN {<<"build", i.build>>, <<"verify", "verify_default_suite">>,
                <<"deliver", "approval_required">>}
               \cup (IF i.review THEN {<<"review", "review_repo_audit_v1">>, <<"review", ReviewGate(i)>>}
                     ELSE {})
          ELSE {<<"review", IF i.diff THEN "pr_review_v1" ELSE "repo_audit_v1">>,
                <<"verify", "review_verifier_v1">>, <<"deliver", "review_handoff_bundle_v1">>})

\* _planned_artifacts
PlannedArtifacts(i) ==
    LET reviewed == {"review_report", "finding_list"}
    IN {"execution_trace"}
       \cup (IF PlannedWork(i) = "build"
             THEN {"verification_report", "acceptance_report", "diff"} \cup (IF i.review THEN reviewed ELSE {})
             ELSE reviewed)

JobPlan(i) == [phases |-> Phases(i), capabilities |-> Capabilities(i), artifacts |-> PlannedArtifacts(i)]

-----------------------------------------------------------------------------
\* inspect_git_url and acquire(): a clone that is killed leaves its directory behind, which
\* the next call takes for the mirror, since all it looks for is a .git inside; fetching
\* brings the mirror's refs up to date and never its files.
Clone(copied) ==
    \/ copied = "acquired" /\ mirror' = "current"
    \/ copied = "failed" /\ mirror' \in {"absent", "partial"}
Acquire(copied) ==
    \/ mirror = "absent" /\ Clone(copied)
    \/ mirror # "absent" /\ copied = "acquired" /\ mirror' = mirror

\* to_build_intake over the copy that carries the mirror's path: to_dict() has made its
\* operations dictionaries, and it raises.
ConvertsCopy(i) == ~(Builds(i) /\ i.operations > 0)

\* submit_operator_intake, up to the job it starts
SubmitIntake ==
    LET i == asked IN
    /\ plan' = JobPlan(i)
    /\ \/ /\ ~Supported(i)
          /\ submitted' = "blocked" /\ UNCHANGED mirror
       \/ /\ Supported(i) /\ BudgetBlocks(i, Spent)
          /\ submitted' = "over budget" /\ UNCHANGED mirror
       \/ /\ Supported(i) /\ ~BudgetBlocks(i, Spent) /\ NeedsApproval(i, Spent)
          /\ submitted' = IF Signatures(i, Spent) = 2 THEN "awaits two" ELSE "awaits one"
          /\ UNCHANGED mirror
       \/ /\ Supported(i) /\ ~BudgetBlocks(i, Spent) /\ ~NeedsApproval(i, Spent)
          /\ IF i.source = "url"
             THEN \E copied \in {"acquired", "failed"} :
                    /\ Acquire(copied)
                    /\ submitted' = IF copied = "failed" THEN "not acquired"
                                  ELSE IF ConvertsCopy(i) THEN ResolvedWork(i) ELSE "raised"
             ELSE submitted' = ResolvedWork(i) /\ UNCHANGED mirror
    /\ UNCHANGED <<asked, upstream>>

\* The intakes with a little more in one field than i has
Larger(S, n) == {m \in S : m > n}
Grown(i) ==
    ({[i EXCEPT !.targets = n] : n \in Larger(Targets, i.targets)}
    \cup {[i EXCEPT !.operations = n] : n \in Larger(Operations, i.operations)}
    \cup {[i EXCEPT !.criteria = n] : n \in Larger(Criteria, i.criteria)}
    \cup {[i EXCEPT !.structured = n] : n \in {m \in Larger(Structured, i.structured) : m <= i.criteria}}
    \cup {[i EXCEPT !.focusAreas = n] : n \in Larger(FocusAreas, i.focusAreas)}
    \cup {[i EXCEPT !.diff = TRUE], [i EXCEPT !.review = TRUE]}) \ {i}

\* The operator asks for more, and looks at the plan: preview_operator_intake.
AskForMore ==
    /\ \E i \in Grown(asked) : asked' = i /\ plan' = JobPlan(i)
    /\ submitted' = "preview"
    /\ UNCHANGED <<mirror, upstream>>

UpstreamMoves == ~upstream /\ upstream' = TRUE
                 /\ mirror' = (IF mirror = "current" THEN "stale" ELSE mirror)
                 /\ UNCHANGED <<asked, submitted, plan>>

-----------------------------------------------------------------------------
Outcomes == {"preview", "blocked", "over budget", "awaits two", "awaits one", "not acquired",
             "raised", "build", "review"}

IntakeTypeOK ==
    /\ asked \in OperatorIntake /\ submitted \in Outcomes
    /\ plan = JobPlan(asked)
    /\ mirror \in {"absent", "partial", "current", "stale"} /\ upstream \in BOOLEAN

\* An intake without its numbers; the rarer ones only as builds
Plain(work, build, source, sound, described) ==
    [work |-> work, build |-> build, source |-> source, sound |-> sound, described |-> described,
     diff |-> FALSE, review |-> FALSE, targets |-> 0, operations |-> 0, criteria |-> 0,
     structured |-> 0, focusAreas |-> 0]
FirstIntakes ==
    {Plain(work, "implementation", "repo", TRUE, "yes") : work \in WorkTypes}
    \cup {Plain(work, "implementation", "url", TRUE, "yes") : work \in WorkTypes}
    \cup {Plain("build", build, "repo", TRUE, "yes") : build \in BuildTypes}
    \cup {Plain("auto", "implementation", "repo", TRUE, described) : described \in {"no", "as a change"}}
    \cup {Plain("build", "implementation", source, TRUE, "yes") : source \in {"none", "both", "unsupported"}}
    \cup {Plain("build", "implementation", "repo", FALSE, "yes"),
          Plain("build", "implementation", "repo", TRUE, "no")}

\* The ledger when the operator begins: some of the expenses have been approved.
LedgerInit ==
    /\ tx \in [Expenses -> {"none", "approved"}] /\ txRow = tx
    /\ income = {} /\ born = [x \in Expenses |-> 0] /\ day = 0
    /\ writes = <<>> /\ holder = FALSE /\ sweep = "off"
    /\ proposed = {x \in Expenses : tx[x] = "approved"}
    /\ toldTx = [x \in Expenses |-> {tx[x]} \ {"none"}]

IntakeInit ==
    /\ asked \in FirstIntakes /\ plan = JobPlan(asked) /\ submitted = "preview"
    /\ mirror = "absent" /\ upstream = FALSE

IntakeNext == SubmitIntake \/ AskForMore \/ UpstreamMoves
IntakeSpec ==
    IntakeInit /\ LedgerInit /\ [][IntakeNext /\ UNCHANGED financeVars]_<<intakeVars, financeVars>>

(***************************************************************************)
(* Properties                                                              *)
(***************************************************************************)
RunsAtOnce(i, spent) == ~BudgetBlocks(i, spent) /\ ~NeedsApproval(i, spent)

\* Asking for more never makes an intake easier to run: with the ledger as it is or with
\* more spent on it, an intake that would run at once runs at once with less in any of its
\* fields.  It holds of the work that is done: a diff turns an intake whose work was left
\* to the router from a build into a review.
BiggerIsNeverEasier ==
    Supported(asked) =>
        \A i \in Grown(asked), more \in {0} \cup {Amount[x] : x \in Expenses} :
            /\ ResolvedWork(i) = ResolvedWork(asked)
            /\ RunsAtOnce(i, [daily |-> Spent.daily + more, monthly |-> Spent.monthly + more])
            => RunsAtOnce(asked, Spent)
===============================================================================
