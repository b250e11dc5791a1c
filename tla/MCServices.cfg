SPECIFICATION ServicesSpec
CONSTANTS
    Jobs = {decay, health, prune}
    MaxConcurrent = 2
    MaxRetries = 2
    Threshold = 3
    MaxCompleted = 1
    MaxDead = 1
    MaxSettlements = 2
    Callers = {telegram, api}
    MaxReposts = 1
    LoadLimit = 1
    PersistOutcomes = {TRUE}
    MaxCrashes = 1
    Names = {n1}
    Keys = {k1, k2}
    Managers = {m1, m2}
    Random = {r1, r2, r3}
    Static = static
    StaticHead = staticHead
    NoSession = closed
    Chats = {c1, c2}
    BidApprovals = {a1, a2}
    NoApproval = none
    g1 = g1
    g2 = g2
    TgChats = {g1, g2}
    UpdateChats <- MCUpdateChats
    Runs = {p1, p2}
    Stages = 3
    Recurring = {w1, w2}
    MaxErrors = 2
    Artifacts = {x1, x2, x3}
    Limit = 2
    Slots = {s1, s2}
    Texts = {t1, t2}
    Answers = {q1, q2}
    MaxTail = 3
    MaxRaw = 2
    MaxSaid = 1
    DailyHardCap = 500
    DailySoftCap = 300
    DailyBuffer = 50
    MonthlyHardCap = 5000
    MonthlySoftCap = 3000
    MonthlyBuffer = 500
    SingleTxCap = 200
    e1 = e1
    e2 = e2
    Expenses = {e1, e2}
    Amount <- MCAmount
    LastDay = 1
    MonthDays = 3
    StaleAge = 1
    Targets = {0, 5}
    Operations = {0, 4}
    Criteria = {0, 4}
    Structured = {0, 2}
    FocusAreas = {0, 3}
    BuildTypes = {"implementation", "devops"}
    u1 = u1
    u2 = u2
    Messages = {u1, u2}
    Tools = {"query_memory", "run_code"}
    Context <- MCContext
    MaxTurns = 2
    MaxCalls = 1
    FindsStatus = FALSE
    d1 = d1
    d2 = d2
    d3 = d3
    l1 = l1
    Memories = {d1, d2, d3, l1}
    Kind <- MCKind
    Content <- MCContent
    MaxMemories = 1
    Writers = 2
    FullDecay = 1
    Boost = 1
    b1 = b1
    b2 = b2
    b3 = b3
    Tasks = {b1, b2, b3}
    Dependencies <- MCDependencies
    TaskCalls = 2
    code = code
    tests = tests
    doc = doc
    artifact = artifact
    settings = settings
    elsewhere = elsewhere
    NoFile = NoFile
    Files = {code, tests, doc, artifact, settings}
    LeftBehind = {artifact}
    Docs = {doc}
    Outside = elsewhere
    Objects <- MCObjects
    Original <- MCOriginal
    Upstream <- MCUpstream
    Requests <- MCRequests
    Reports <- MCReports
    Defaults <- MCDefaults
    Surfaces <- MCSurfaces
    Runners <- MCRunners
    Installed = {"test"}
    MaxAttempts = 3
    UpdateRequests = {v1, v2}
    LastCommit = 1
    LastOwn = 1
    Inquiries = {i1, i2}
    Skills = {pytest, pip}
    LearnerSees = {pytest}
    UpdaterSees = {pytest, pip}
    Mastery = 2
    samples = samples
    Paths = {code, tests, samples, doc, artifact, settings, elsewhere}
    NoPath = NoPath
    TestLike = {tests, samples, doc}
    Readable = {code, tests, samples, artifact, settings, elsewhere}
    Sensitive = {settings}
    Oversized = {settings}
    Hidden = {elsewhere}
    Generated = {artifact}
    Flaws <- MCFlaws
    Endings <- MCEndings
    Repositories <- MCRepositories
    ReviewIntakes <- MCReviewIntakes
    ReviewSources = {"manual"}
    LargeChange = 2
    MaxPatterns = 2
    ApiCallers = {y1, y2}
    ApiProviders <- MCApiProviders
    ApiRoutes <- MCApiRoutes
    CallLimit = 2
    CallWindow = 2
    CallRetries = 1
    LastTick = 2
    Works = {"a", "b", "c", "d"}
    WorkMessages <- MCWorkMessages
    WorkChats = {h1}
    QueueSize = 3
    Patience = 2
    MaxAccepted = 4
INVARIANTS ServicesTypeOK Tracked SecretsKept RecordsArePosts
    RepliesInOrder OkIsOwn EachAnswerHasItsText DecisionsKept BiggerIsNeverEasier CallsAreAccounted
    StoreStaysTrue QueuedIsReady ContentIsExplained
    UpdateIsHonest LadderIsClimbed ReviewsAgree
    RateIsKept ApiCallsAreHonest WorkLoopServes
PROPERTIES KeepsService KeepsAccount JobsFinish WorkflowsAreRun ContentIsPruned
CHECK_DEADLOCK FALSE
