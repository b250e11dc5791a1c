---------------------------- MODULE ServicesProofs ----------------------------
(***************************************************************************)
(* The services side by side.  A behaviour is about one of them and leaves    *)
(* the others alone, so it is a behaviour of each: what was proved of every   *)
(* service by itself holds of them together, for any values of all their      *)
(* constants.                                                              *)
(***************************************************************************)
EXTENDS MCServices, WorkProofs, LedgerProofs, AssistantProofs

\* Each service begins as it does alone; only intakes find a ledger with something in it.
LEMMA EachBegins ==
    ASSUME ServicesInit
    PROVE  /\ JobInit /\ SettlementInit /\ VaultInit /\ BidsInit /\ TelegramInit
           /\ PipelinesInit /\ WorkflowsInit /\ RetentionInit /\ ConversationInit
           /\ IntakeInit /\ ToolUseInit /\ MemoryInit /\ TaskInit /\ EngineInit
           /\ SelfUpdateInit /\ LearningInit /\ ReviewsInit /\ ApiInit /\ WorkInit
           /\ focus = "intake" => LedgerInit
           /\ focus # "intake" => FinanceInit
BY DEF ServicesInit

\* A step of one service changes nothing of another.
LEMMA OthersAreLeft ==
    ASSUME OthersStand
    PROVE  /\ focus' = focus
           /\ focus # "jobs" => UNCHANGED jobVars
           /\ focus # "settlement" => UNCHANGED settlementVars
           /\ focus # "vault" => UNCHANGED vaultVars
           /\ focus # "bids" => UNCHANGED bidVars
           /\ focus # "telegram" => UNCHANGED telegramVars
           /\ focus # "pipelines" => UNCHANGED pipelineVars
           /\ focus # "workflows" => UNCHANGED workflowVars
           /\ focus # "retention" => UNCHANGED retentionVars
           /\ focus # "conversation" => UNCHANGED conversationVars
           /\ focus # "finance" => UNCHANGED financeVars
           /\ focus # "intake" => UNCHANGED intakeVars
           /\ focus # "tools" => UNCHANGED toolVars
           /\ focus # "memory" => UNCHANGED memoryVars
           /\ focus # "tasks" => UNCHANGED taskVars
           /\ focus # "engine" => UNCHANGED engineVars
           /\ focus # "update" => UNCHANGED updateVars
           /\ focus # "learning" => UNCHANGED learningVars
           /\ focus # "reviews" => UNCHANGED reviewVars
           /\ focus # "api" => UNCHANGED apiVars
           /\ focus # "work" => UNCHANGED workVars
BY DEF OthersStand

\* So every step is one of each service, or none of it.
LEMMA EachSteps ==
    ASSUME [ServicesNext]_servicesVars
    PROVE  /\ focus' = focus
           /\ [JobNext]_jobVars
           /\ [SettlementNext]_settlementVars
           /\ [VaultNext]_vaultVars
           /\ [BidsNext]_bidVars
           /\ [TelegramNext]_telegramVars
           /\ [PipelinesNext]_pipelineVars
           /\ [WorkflowsNext]_workflowVars
           /\ [RetentionNext]_retentionVars
           /\ [ConversationNext]_conversationVars
           /\ [FinanceNext]_financeVars
           /\ [IntakeNext]_intakeVars
           /\ [ToolUseNext]_toolVars
           /\ [MemoryNext]_memoryVars
           /\ [TaskNext]_taskVars
           /\ [EngineNext]_engineVars
           /\ [UpdateNext]_updateVars
           /\ [LearningNext]_learningVars
           /\ [ReviewsNext]_reviewVars
           /\ [ApiNext]_apiVars
           /\ [WorkNext]_workVars
           /\ focus = "intake" => UNCHANGED financeVars
<1>1. CASE UNCHANGED servicesVars
  BY <1>1 DEF servicesVars
<1>2. CASE ServicesNext
  <2>1. OthersStand
    BY <1>2
    DEF ServicesNext, JobStep, SettlementStep, VaultStep, BidsStep, TelegramStep,
        PipelinesStep, WorkflowsStep, RetentionStep, ConversationStep, FinanceStep,
        IntakeStep, ToolUseStep, MemoryStep, TaskStep, EngineStep, UpdateStep,
        LearningStep, ReviewsStep, ApiStep, WorkStep
  <2> QED
    BY <1>2, <2>1, OthersAreLeft
    DEF ServicesNext, JobStep, SettlementStep, VaultStep, BidsStep, TelegramStep,
        PipelinesStep, WorkflowsStep, RetentionStep, ConversationStep, FinanceStep,
        IntakeStep, ToolUseStep, MemoryStep, TaskStep, EngineStep, UpdateStep,
        LearningStep, ReviewsStep, ApiStep, WorkStep
<1> QED
  BY <1>1, <1>2

-------------------------------------------------------------------------------
(***************************************************************************)
(* The specification of the services is one of each                           *)
(***************************************************************************)

\* What runs in the background: jobs, pipelines, workflows, retention and listed work
LEMMA RunnersRun ==
    ServicesSpec => JobSpec /\ PipelinesSpec /\ WorkflowsSpec /\ RetentionSpec /\ WorkSpec
<1>1. ServicesInit => JobInit /\ PipelinesInit /\ WorkflowsInit /\ RetentionInit /\ WorkInit
  BY EachBegins
<1>2. [ServicesNext]_servicesVars
        => /\ [JobNext]_jobVars
           /\ [PipelinesNext]_pipelineVars
           /\ [WorkflowsNext]_workflowVars
           /\ [RetentionNext]_retentionVars
           /\ [WorkNext]_workVars
  BY EachSteps
<1> QED
  BY <1>1, <1>2, PTL
  DEF ServicesSpec, JobSpec, PipelinesSpec, WorkflowsSpec, RetentionSpec, WorkSpec

\* What spends or could: settlements, the vault, bids and calls of gateways
LEMMA PaymentsRun ==
    ServicesSpec => SettlementSpec /\ VaultSpec /\ BidsSpec /\ ApiSpec
<1>1. ServicesInit => SettlementInit /\ VaultInit /\ BidsInit /\ ApiInit
  BY EachBegins
<1>2. [ServicesNext]_servicesVars
        => /\ [SettlementNext]_settlementVars
           /\ [VaultNext]_vaultVars
           /\ [BidsNext]_bidVars
           /\ [ApiNext]_apiVars
  BY EachSteps
<1> QED
  BY <1>1, <1>2, PTL DEF ServicesSpec, SettlementSpec, VaultSpec, BidsSpec, ApiSpec

\* What talks and remembers: updates, conversations, tools, memories and skills
LEMMA ChatsRun ==
    ServicesSpec => TelegramSpec /\ ConversationSpec /\ ToolUseSpec /\ MemorySpec /\ LearningSpec
<1>1. ServicesInit => TelegramInit /\ ConversationInit /\ ToolUseInit /\ MemoryInit /\ LearningInit
  BY EachBegins
<1>2. [ServicesNext]_servicesVars
        => /\ [TelegramNext]_telegramVars
           /\ [ConversationNext]_conversationVars
           /\ [ToolUseNext]_toolVars
           /\ [MemoryNext]_memoryVars
           /\ [LearningNext]_learningVars
  BY EachSteps
<1> QED
  BY <1>1, <1>2, PTL
  DEF ServicesSpec, TelegramSpec, ConversationSpec, ToolUseSpec, MemorySpec, LearningSpec

\* What makes: tasks, builds, reviews and updates of the agent itself
LEMMA MakersRun ==
    ServicesSpec => TaskSpec /\ EngineSpec /\ ReviewsSpec /\ UpdateSpec
<1>1. ServicesInit => TaskInit /\ EngineInit /\ ReviewsInit /\ SelfUpdateInit
  BY EachBegins
<1>2. [ServicesNext]_servicesVars
        => /\ [TaskNext]_taskVars
           /\ [EngineNext]_engineVars
           /\ [ReviewsNext]_reviewVars
           /\ [UpdateNext]_updateVars
  BY EachSteps
<1> QED
  BY <1>1, <1>2, PTL DEF ServicesSpec, TaskSpec, EngineSpec, ReviewsSpec, UpdateSpec

\* The ledger: where intakes are planned it stands still.
LEMMA LedgerRuns ==
    ServicesSpec => [](/\ focus # "intake" => FinanceTypeOK
                       /\ DecisionsKept)
<1>1. ServicesInit => (focus # "intake" => FinanceInit)
  BY EachBegins
<1>2. ServicesInit => (focus = "intake" => DecisionsKept)
  <2> SUFFICES ASSUME LedgerInit PROVE DecisionsKept
    BY EachBegins
  <2> QED
    BY DEF LedgerInit, DecisionsKept, StandsBy
<1>3. [ServicesNext]_servicesVars
        => /\ [FinanceNext]_financeVars
           /\ focus = "intake" <=> (focus = "intake")'
  BY EachSteps
<1>4. (focus = "intake" /\ DecisionsKept) /\ [ServicesNext]_servicesVars
        => (focus = "intake" /\ DecisionsKept)'
  <2>1. DecisionsKept /\ UNCHANGED financeVars => DecisionsKept'
    BY DEF DecisionsKept, StandsBy, financeVars
  <2> QED
    BY <2>1, EachSteps
<1>5. (focus # "intake") <=> ~(focus = "intake")
  OBVIOUS
<1> QED
  BY <1>1, <1>2, <1>3, <1>4, <1>5, ToldDecisionsAreKept, PTL DEF ServicesSpec, FinanceSpec

\* Intakes, of any ledger
LEMMA IntakesRun == ServicesSpec => [](IntakeTypeOK /\ BiggerIsNeverEasier)
<1>1. ServicesInit => IntakeTypeOK
  BY EachBegins, FirstIsTyped
<1>2. IntakeTypeOK /\ [ServicesNext]_servicesVars => IntakeTypeOK'
  BY EachSteps, IntakeStaysTyped
<1>3. IntakeTypeOK => BiggerIsNeverEasier
  BY AskedRunsAtOnce DEF IntakeTypeOK
<1> QED
  BY <1>1, <1>2, <1>3, PTL DEF ServicesSpec

-------------------------------------------------------------------------------
(***************************************************************************)
(* Types, invariants and contracts                                           *)
(***************************************************************************)

\* ServicesTypeOK: whichever service a behaviour is about, its state stays well formed.
THEOREM ServicesAreTyped == ServicesSpec => []ServicesTypeOK
<1>1. VaultInv => VaultTypeOK
  BY DEF VaultInv
<1>2. BidsInv => BidsTypeOK
  BY DEF BidsInv
<1>3. ServicesSpec => [](/\ JobTypeOK /\ PipelinesTypeOK /\ WorkflowsTypeOK
                          /\ RetentionTypeOK /\ WorkTypeOK)
  BY RunnersRun, JobsTyped, PipelinesTyped, WorkflowsTyped, RetentionTyped, WorkTypeCorrect, PTL
<1>4. ServicesSpec => [](SettlementTypeOK /\ VaultTypeOK /\ BidsTypeOK /\ ApiTypeOK)
  BY <1>1, <1>2, PaymentsRun, SettlementTyped, VaultInvariant, BidsInvariant, ApiTypeCorrect, PTL
<1>5. ServicesSpec => [](/\ TelegramTypeOK /\ ConversationTypeOK /\ ToolUseTypeOK
                          /\ MemoryTypeOK /\ LearningTypeOK)
  BY ChatsRun, RepliesComeInOrder, ConversationTyped, CallsAlwaysAccounted, MemoryStaysTrue,
     LearningTyped, PTL
<1>6. ServicesSpec => [](TaskTypeOK /\ EngineTypeOK /\ ReviewsTypeOK /\ SelfUpdateTypeOK)
  BY MakersRun, QueueHoldsReadyTasks, BuildsAreExplained, ReviewsAreTyped, UpdatesAreSafe, PTL
<1>7. /\ JobTypeOK /\ PipelinesTypeOK /\ WorkflowsTypeOK /\ RetentionTypeOK /\ WorkTypeOK
      /\ SettlementTypeOK /\ VaultTypeOK /\ BidsTypeOK /\ ApiTypeOK
      /\ TelegramTypeOK /\ ConversationTypeOK /\ ToolUseTypeOK /\ MemoryTypeOK /\ LearningTypeOK
      /\ TaskTypeOK /\ EngineTypeOK /\ ReviewsTypeOK /\ SelfUpdateTypeOK
      /\ focus # "intake" => FinanceTypeOK
      /\ IntakeTypeOK
      => ServicesTypeOK
  BY DEF ServicesTypeOK
<1> QED
  BY <1>3, <1>4, <1>5, <1>6, <1>7, LedgerRuns, IntakesRun, PTL

(* What each service keeps is kept by all of them: no job is lost, no secret, no answer    *)
(* and no decision somebody heard of; records are of real posts, reports of the work done. *)
THEOREM ServicesAreSafe ==
    ServicesSpec =>
        [](/\ Tracked /\ OkIsOwn /\ WorkLoopServes
           /\ SecretsKept /\ RecordsArePosts /\ RateIsKept /\ ApiCallsAreHonest
           /\ RepliesInOrder /\ EachAnswerHasItsText /\ CallsAreAccounted /\ StoreStaysTrue
           /\ LadderIsClimbed
           /\ QueuedIsReady /\ ContentIsExplained /\ UpdateIsHonest /\ ReviewsAgree
           /\ DecisionsKept /\ BiggerIsNeverEasier)
<1>1. ServicesSpec => [](Tracked /\ OkIsOwn /\ WorkLoopServes)
  BY RunnersRun, JobsAreTracked, OkIsOwnAlways, WorkLoopAlwaysServes, PTL
<1>2. ServicesSpec => [](SecretsKept /\ RecordsArePosts /\ RateIsKept /\ ApiCallsAreHonest)
  BY PaymentsRun, SecretsAreKept, BidsRecordsArePosts, RateAlwaysKept, ApiCallsAlwaysHonest, PTL
<1>3. ServicesSpec => [](/\ RepliesInOrder /\ EachAnswerHasItsText /\ CallsAreAccounted
                          /\ StoreStaysTrue /\ LadderIsClimbed)
  BY ChatsRun, RepliesComeInOrder, ChatIsADialogue, CallsAlwaysAccounted, MemoryStaysTrue,
     LadderIsAlwaysClimbed, PTL
<1>4. ServicesSpec => [](QueuedIsReady /\ ContentIsExplained /\ UpdateIsHonest /\ ReviewsAgree)
  BY MakersRun, QueueHoldsReadyTasks, BuildsAreExplained, UpdatesAreSafe, ReviewsAreWhole, PTL
<1> QED
  BY <1>1, <1>2, <1>3, <1>4, LedgerRuns, IntakesRun, PTL

(* Among the other services the job runner is still a job service and settlement still an  *)
(* account, when no write of a settlement fails.                                         *)
THEOREM ServicesKeepContracts ==
    ASSUME PersistOutcomes = {TRUE}
    PROVE  ServicesSpec => KeepsService /\ KeepsAccount
<1>1. ServicesSpec => JobSpec /\ SettlementSpec
  BY RunnersRun, PaymentsRun, PTL
<1> QED
  BY <1>1, JobsAreServed, SettlementKeepsAccount, PTL
===============================================================================
