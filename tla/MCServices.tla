------------------------------- MODULE MCServices -------------------------------
(***************************************************************************)
(* One run for the services that share nothing with one another: a behaviour  *)
(* picks one of them and only that one steps, so the states are the sum of    *)
(* the components', never their product.  Intakes read the finance ledger,    *)
(* which stands still while they are planned.                               *)
(***************************************************************************)
EXTENDS JobRunner, Settlement, Vault, Bids, TelegramUpdates, Pipelines, Workflows, Retention,
        Conversation, Intake, ToolUse, MemoryStore, TaskTable, MCBuildEngine,
        SelfUpdate, Learning, Reviews, ApiCalls, WorkLoop

CONSTANTS g1, g2,  \* two chats
          e1, e2,  \* two expenses
          u1, u2,  \* two messages to the brain
          d1, d2, d3, l1,  \* three episodes and a lesson
          b1, b2, b3,      \* three tasks
          samples          \* a test file that holds a sample secret

VARIABLE focus     \* the service this behaviour is about

\* Two messages of one chat, one of another in between
MCUpdateChats == <<g1, g2, g1, g1>>

\* A small expense and one that meets the daily soft cap
MCAmount == [x \in {e1, e2} |-> IF x = e1 THEN 160 ELSE 300]

\* The owner's message, and a stranger's in safe mode
MCContext == [m \in {u1, u2} |-> [owner |-> m = u1, safe |-> m # u1, channel |-> "telegram"]]

\* Everything that is remembered begins alike.
MCKind == [m \in {d1, d2, d3, l1} |-> IF m = l1 THEN "semantic" ELSE "episodic"]
MCContent == [m \in {d1, d2, d3, l1} |-> "alike"]

\* b3 waits for both others, b2 for b1.
MCDependencies ==
    [t \in {b1, b2, b3} |-> IF t = b3 THEN {b1, b2} ELSE IF t = b2 THEN {b1} ELSE {}]

\* A tested repository without a word of warning, one whose tests are full of samples, one
\* with nothing but a sample, a careless one, and two paths that are no directory
MCFlaws == [p \in Paths |-> CASE p = code     -> {"secret"}
                              [] p = tests    -> {"sample secret", "eval"}
                              [] p = samples  -> {"sample secret"}
                              [] p = artifact -> {"mock secret"}
                              [] p = settings -> {"pickle"}
                              [] OTHER        -> {}]
\* git abbreviates one path, and another ends like the artifact's
MCEndings == [p \in Paths |-> CASE p = doc      -> {}
                                [] p = settings -> {settings, artifact}
                                [] OTHER        -> {p}]
Repository(kind, listing, kept, changed) ==
    [kind |-> kind, listing |-> listing, changed |-> changed, ci |-> kept, readme |-> kept,
     package |-> kept, changelog |-> FALSE]
MCRepositories ==
    {Repository("directory", <<doc>>, TRUE, <<doc>>),
     Repository("directory", <<tests>>, TRUE, <<tests, code, doc>>),
     Repository("directory", <<samples>>, TRUE, <<samples>>),
     Repository("directory", <<artifact, code, settings, elsewhere>>, FALSE, <<settings, code>>),
     Repository("missing", <<>>, FALSE, <<>>),
     Repository("file", <<>>, FALSE, <<>>)}
MCReview(type, diff) ==
    [type |-> type, diff |-> diff, path |-> "plain", source |-> "manual", maxFiles |-> 3,
     scoped |-> FALSE, include |-> Paths, exclude |-> {}]
MCReviewIntakes ==
    {MCReview("repo_audit", "none"), MCReview("release_review", "none"),
     MCReview("pr_review", "range"), MCReview("pr_review", "none"),
     MCReview("release_review", "range"),
     [MCReview("repo_audit", "none") EXCEPT !.source = "scheduler"],
     [MCReview("repo_audit", "none") EXCEPT !.scoped = TRUE, !.include = {code, artifact},
                                            !.exclude = {code}, !.maxFiles = 1]}

\* A provider with a route and a spare one for the same capability, and one with a third
MCApiProviders == <<"obolos.tech", "mirror">>
MCApiRoutes ==
    << MarketplaceRoutes[3], MarketplaceRoutes[3],
       [MarketplaceRoutes[3] EXCEPT !.provider = "mirror"] >>

\* A list of work and one under a header; a quoted one, one among prose, and an echo of what
\* the agent said
Listing(items) == [quotes |-> FALSE, head |-> "none", layout |-> "numbered", items |-> items,
                   echoed |-> 0]
MCWorkMessages ==
    {Listing(<<"a", "b">>),
     [Listing(<<"c", "a", "d">>) EXCEPT !.head = "word", !.layout = "mixed", !.echoed = 1],
     [Listing(<<"a", "b">>) EXCEPT !.quotes = TRUE],
     [Listing(<<"a", "b">>) EXCEPT !.layout = "mixed"],
     [Listing(<<"c", "a", "d">>) EXCEPT !.head = "colon", !.echoed = 2]}

ServicesInit ==
    /\ focus \in {"jobs", "settlement", "vault", "bids", "telegram", "pipelines", "workflows",
                  "retention", "conversation", "finance", "intake", "tools", "memory", "tasks",
                  "engine", "update", "learning", "reviews", "api", "work"}
    /\ JobInit /\ SettlementInit /\ VaultInit /\ BidsInit /\ TelegramInit /\ PipelinesInit
    /\ WorkflowsInit /\ RetentionInit /\ ConversationInit
    /\ IF focus = "intake" THEN LedgerInit ELSE FinanceInit
    /\ IntakeInit /\ ToolUseInit /\ MemoryInit /\ TaskInit /\ EngineInit
    /\ SelfUpdateInit /\ LearningInit /\ ReviewsInit /\ ApiInit /\ WorkInit
    /\ focus = "engine" \/ job.request = Request(Astray, FALSE, "none", <<>>)
    /\ focus = "update" \/ (deployment = "namesake" /\ restarts = "on")
    /\ focus = "learning" \/ (anthropic /\ apart)
    /\ focus = "vault" \/ format = "none"
    /\ focus = "intake" \/ asked = Plain("build", "implementation", "none", TRUE, "yes")

-----------------------------------------------------------------------------
\* Every service but the one a behaviour is about stands still.
OthersStand ==
    /\ UNCHANGED focus
    /\ IF focus = "jobs" THEN TRUE ELSE UNCHANGED jobVars
    /\ IF focus = "settlement" THEN TRUE ELSE UNCHANGED settlementVars
    /\ IF focus = "vault" THEN TRUE ELSE UNCHANGED vaultVars
    /\ IF focus = "bids" THEN TRUE ELSE UNCHANGED bidVars
    /\ IF focus = "telegram" THEN TRUE ELSE UNCHANGED telegramVars
    /\ IF focus = "pipelines" THEN TRUE ELSE UNCHANGED pipelineVars
    /\ IF focus = "workflows" THEN TRUE ELSE UNCHANGED workflowVars
    /\ IF focus = "retention" THEN TRUE ELSE UNCHANGED retentionVars
    /\ IF focus = "conversation" THEN TRUE ELSE UNCHANGED conversationVars
    /\ IF focus = "finance" THEN TRUE ELSE UNCHANGED financeVars
    /\ IF focus = "intake" THEN TRUE ELSE UNCHANGED intakeVars
    /\ IF focus = "tools" THEN TRUE ELSE UNCHANGED toolVars
    /\ IF focus = "memory" THEN TRUE ELSE UNCHANGED memoryVars
    /\ IF focus = "tasks" THEN TRUE ELSE UNCHANGED taskVars
    /\ IF focus = "engine" THEN TRUE ELSE UNCHANGED engineVars
    /\ IF focus = "update" THEN TRUE ELSE UNCHANGED updateVars
    /\ IF focus = "learning" THEN TRUE ELSE UNCHANGED learningVars
    /\ IF focus = "reviews" THEN TRUE ELSE UNCHANGED reviewVars
    /\ IF focus = "api" THEN TRUE ELSE UNCHANGED apiVars
    /\ IF focus = "work" THEN TRUE ELSE UNCHANGED workVars

JobStep          == focus = "jobs" /\ JobNext /\ OthersStand
SettlementStep   == focus = "settlement" /\ SettlementNext /\ OthersStand
VaultStep        == focus = "vault" /\ VaultNext /\ OthersStand
BidsStep         == focus = "bids" /\ BidsNext /\ OthersStand
TelegramStep     == focus = "telegram" /\ TelegramNext /\ OthersStand
PipelinesStep    == focus = "pipelines" /\ PipelinesNext /\ OthersStand
WorkflowsStep    == focus = "workflows" /\ WorkflowsNext /\ OthersStand
RetentionStep    == focus = "retention" /\ RetentionNext /\ OthersStand
ConversationStep == focus = "conversation" /\ ConversationNext /\ OthersStand
FinanceStep      == focus = "finance" /\ FinanceNext /\ OthersStand
IntakeStep       == focus = "intake" /\ IntakeNext /\ OthersStand
ToolUseStep      == focus = "tools" /\ ToolUseNext /\ OthersStand
MemoryStep       == focus = "memory" /\ MemoryNext /\ OthersStand
TaskStep         == focus = "tasks" /\ TaskNext /\ OthersStand
EngineStep       == focus = "engine" /\ EngineNext /\ OthersStand
UpdateStep       == focus = "update" /\ UpdateNext /\ OthersStand
LearningStep     == focus = "learning" /\ LearningNext /\ OthersStand
ReviewsStep      == focus = "reviews" /\ ReviewsNext /\ OthersStand
ApiStep          == focus = "api" /\ ApiNext /\ OthersStand
WorkStep         == focus = "work" /\ WorkNext /\ OthersStand

ServicesNext ==
    \/ JobStep \/ SettlementStep \/ VaultStep \/ BidsStep \/ TelegramStep \/ PipelinesStep
    \/ WorkflowsStep \/ RetentionStep \/ ConversationStep
    \/ FinanceStep \/ IntakeStep \/ ToolUseStep \/ MemoryStep \/ TaskStep
    \/ EngineStep \/ UpdateStep \/ LearningStep \/ ReviewsStep
    \/ ApiStep \/ WorkStep

servicesVars ==
    <<focus, jobVars, settlementVars, vaultVars, bidVars, telegramVars, pipelineVars,
      workflowVars, retentionVars, conversationVars, financeVars, intakeVars, toolVars,
      memoryVars, taskVars, engineVars, updateVars, learningVars, reviewVars, apiVars,
      workVars>>

\* A loop whose service was not picked has nothing to do: its fairness asks for nothing.
ServicesSpec ==
    /\ ServicesInit /\ [][ServicesNext]_servicesVars
    /\ JobFairness /\ WorkflowFairness /\ RetentionFairness

\* The state of the service that steps is well formed, whatever it does; the others' is
\* what it was in the first state.
ServicesTypeOK ==
    /\ focus = "jobs" => JobTypeOK
    /\ focus = "settlement" => SettlementTypeOK
    /\ focus = "vault" => VaultTypeOK
    /\ focus = "bids" => BidsTypeOK
    /\ focus = "telegram" => TelegramTypeOK
    /\ focus = "pipelines" => PipelinesTypeOK
    /\ focus = "workflows" => WorkflowsTypeOK
    /\ focus = "retention" => RetentionTypeOK
    /\ focus = "conversation" => ConversationTypeOK
    /\ focus = "finance" => FinanceTypeOK
    /\ focus = "intake" => IntakeTypeOK
    /\ focus = "tools" => ToolUseTypeOK
    /\ focus = "memory" => MemoryTypeOK
    /\ focus = "tasks" => TaskTypeOK
    /\ focus = "engine" => EngineTypeOK
    /\ focus = "update" => SelfUpdateTypeOK
    /\ focus = "learning" => LearningTypeOK
    /\ focus = "reviews" => ReviewsTypeOK
    /\ focus = "api" => ApiTypeOK
    /\ focus = "work" => WorkTypeOK

(***************************************************************************)
(* What each loop owes is asked of the behaviours that are about it.          *)
(***************************************************************************)
\* The job runner (core/job_runner.py): every job scheduled ends.
JobsFinish      == focus = "jobs" => Finishes
\* The recurring workflows (core/cron.py): one that is due is run or given up.
WorkflowsAreRun == focus = "workflows" => DueIsRun
\* Retention (control/state.py): expired content is dropped, within the reach of a listing.
ContentIsPruned == focus = "retention" => ExpiredIsPruned
===============================================================================
