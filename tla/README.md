# Agent Life Space: a verification project

TLA+ models of Agent Life Space (`src/agent`), a personal agent that runs as one asyncio process:
its approvals, deliveries, message bus, jobs, builds, workspaces, settlements, money, tools, memory
and updates, wherever correctness depends on order, failure and concurrency. TLC checks each model on
small instances. TLAPS proves, for every value of the constants, every safety property that a passing
run checks: each type invariant, each invariant and action property, and that four components implement
abstract specifications (approval queue, router, job runner, settlement), the queue inside the delivery
flow too. Liveness stays with TLC.

A handler runs alone up to its next `await`. So an action is a handler, or the stretch of one between
two awaits, with everything it changes: the trailing save, archive or refresh included. What makes the
system hard is what can happen at an `await`, at a write that raises, and at a death between two
commits. A synchronous method of fifty lines is one action here, and what matters about it is its
guards and its result.

## 1. The system

| Component (source) | State it keeps | Operations | Interacts with | What is hard | What makes it correct |
|---|---|---|---|---|---|
| Approval queue (`core/approval.py`, `core/approval_storage.py`) | `_pending`, bounded `_history`, a row per request | propose, approve, deny, mark_executed, expire_stale (run by every query), reload | nearly every component proposes to it or reads it | writes that raise half-way, TTL races, eviction and reload at their limits | a full quorum of distinct people behind each grant, decisions durable, none granted late |
| Delivery (`build/service.py`, `review/service.py`, `control/state.py`, `core/agent.py`, `control/gateway.py`) | delivery records (control-plane database) | bundle, request approval, read, hand off, send through the gateway | approval queue (own database), gateway, operator | the status is a copy; sends await HTTP with retries and fallback routes; two databases | nothing unsigned leaves; records agree with approvals; sends end |
| Message router (`core/router.py`, `core/messages.py`) | heap, dead letters, rows, handlers | send, loop, deliver, retry, drain, replay | every module of the agent, through handlers | store and delivery race; retries; drain during stop; replay after a crash | nothing accepted is lost, nothing handled returns, no duplicates, no heap tie |
| Job runner (`core/job_runner.py`) | active, completed and dead-letter stores, semaphore, breaker | schedule, attempt, retry, give up, cancel | orchestrator's maintenance loop | cancellation at any await, slots, bounded stores | tracked from creation to end, final once ended, ends |
| Payment settlement (`control/settlement.py`) | requests in memory and in rows | file on 402, approve, deny, execute, reload | gateway call-back, Telegram, HTTP API | concurrent execution, lost answers, crash between payment and write | what is denied spends nothing, what is executed was paid, spending needs approval |
| Build jobs (`build/*`) | job rows, checkpoints, artifacts, the workspace's files | run, resume, verify, accept, review | workspaces, LLM, Docker, review, plans | seven stages with early returns; resume after any of them; the repository moves on | a completed build was applied, verified and let through by its gates, there where it was built |
| Review jobs (`review/*`) | a row per job, artifacts, the control plane's copies | run, analyze, verify, store, request delivery | workspaces, git, control plane, approval queue | a dozen commits to two databases; a verifier that changes what the summary counted | a completed review is whole and agrees with itself |
| Workspaces (`work/workspace.py`) | rows, directories | create, activate, complete, fail, cleanup, expire | build and review jobs, nightly cleanup | the limit is checked in one of two places; deaths leave them open | at most `max_active`, nothing held for nobody |
| Operator intake and plans (`control/intake.py`, `core/agent.py`) | plans, traces, the acquisition mirror | preview, qualify, size, price, plan, submit | finance, builds, reviews, approval queue | long classification rules; three tables written one after the other | what grows is never treated more lightly; plans tell what became of their jobs |
| Finance (`finance/*`) | transactions and rows | propose, approve, reject, complete, income, dead-man switch | approval queue, intake, operator | the switch runs outside the lock; three commits per proposal | a decision a caller was told of is kept |
| Marketplace bids (`marketplace/*`) | the bid's row | evaluate, submit | approval queue, platform | each submission works on its own copy across awaits | what is recorded as submitted was posted, under a grant |
| Recurring workflows and cron (`control/recurring.py`, `core/cron.py`) | workflows and rows | due, run, pause, activate | intake | pausing during a pass; deaths between submission and record | what is due is run |
| Pipelines (`control/pipeline.py`) | stages shared by all runs, one row | create, run | intake, builds, reviews | overlapping runs of one pipeline | what a caller is told is its own run's result |
| Retention (`control/state.py`) | retention rows | record, list, refresh, prune | build and review jobs, cron | a listing with a limit; records that come back | what has expired is pruned |
| Vault (`vault/secrets.py`) | one encrypted file, `salt.bin` | open, migrate from two formats, set, delete | all users of secrets | several managers, wrong keys, failure at each step of the migration | secrets stay readable |
| Telegram transport (`social/telegram_bot.py`) | offset and its file, tasks, locks | poll, answer, reply, restart | brain, operator's commands | tasks and locks against order; crash between offset and answer | a chat's replies come in its order |
| Conversation (`core/brain.py`, `memory/persistent_conversation.py`) | tail per chat, rows | hydrate, append, persist | brain, HTTP API, Telegram | chat 0 is shared without a lock; cancellation by the API's timeout | each answer stands behind its own text |
| Tools (`core/tool_loop.py`, `core/tool_executor.py`, `core/tool_policy.py`, `core/operator.py`, `core/action.py`, `core/status.py`) | switches, action log, counters, the agent's status | loop, call, refuse, execute, settle | brain, operator | overlapping messages; cancellation; exceptions | the action log and the counters tell one story; at rest the owner sees an idle agent |
| Memory (`memory/store.py`, `memory/consolidation.py`) | index, rows, statements on their way | store, query, decay, delete, consolidate | brain, cron | all of them overlap at SQLite's answers, over one connection with shared transactions | the index and the rows say the same |
| Tasks (`tasks/manager.py`) | tasks and rows | create, start, complete, fail, unblock | brain | a walk over the dict that awaits at each step | what is queued has what it depends on |
| Self-update (`core/self_update.py`) | the checkout, the process | check, fetch, pull, restart | git, the operator's own work | an await at each git command; commands killed half-way | the operator's work survives; old code runs for a reason |
| Learning (`core/models.py`, `brain/learning.py`, `brain/skills.py`) | skills file, registries | choose a model, escalate, learn | brain | two writers of one file | the ladder of skills is climbed rung by rung |
| Gateway (`control/gateway.py`, `control/policy.py`) | rate windows in memory, job records and their evidence | send_delivery, call_api, routes, receipts | delivery, settlement, marketplace, providers over HTTP | retries, fallbacks, ambiguous timeouts, a window that all calls share | the rate holds whoever calls; a record says what came of its call |
| Work loop (`core/agent_loop.py`) | bounded queue in memory, the piece in hand, failures in a row | add work, do, tell the chat, pause, stop | brain, LLM provider, Telegram | work queued while the worker awaits; what counts as a failure | each piece once, in its turn; pauses exactly after a row of failures |
| Watchdog, projects | heartbeats, rows | - | every module, brain | see section 7 | - |
| Reports, prompts, intents, web, user interface | caches at most | - | - | text and model output | see section 7 |

Component by component, `PROJECT.json` says what is modelled and why the rest is not; its
`hazards` list the places where this code can go wrong in ways tests hardly reach, each with
the properties that watch it or the reason why none does.

## 2. Modules and how they correspond to the code

`PROJECT.json` maps each definition to its lines. `MC*` modules hold symmetry sets and the values a .cfg
cannot write; `*Proofs` modules the theorems. Definitions named `Mutant...` are plausible bugs of the
definition that follows them; no specification uses them. They are there to confirm that each property
can fail.

```
ApprovalContract  <=implements=  ApprovalQueue  <-extends-  Delivery
Mailbox           <=implements=  MessageRouter
JobService        <=implements=  JobRunner
Account           <=implements=  Settlement
Workspaces  <-extends-  BuildJobs  <-extends-  OperatorWork          BuildEngine
Budget  <-extends-  Finance  <-extends-  Intake
Vault   Bids   TelegramUpdates   Pipelines   Workflows   Retention   Conversation   ToolUse
MemoryStore   TaskTable   SelfUpdate   Learning   Reviews   ApiCalls   WorkLoop
MCServices extends the ones that share nothing
```

Four modules say what a component promises, without its queues, stores and retries. **ApprovalContract**: a
request is open, is settled once, is approved only with a quorum, and is executed only from approved.
**Mailbox**: a message that was lodged stays on record until it was served, and one that was struck off is not
served again; one of whose writes raised is in doubt, and only the first half is promised of it. **JobService**: an
accepted job begins in its turn, no more run than there are slots, each is tried a bounded number of times and ends
once, given up only after the last try. **Account**: a bill is filed, then granted or refused; a refusal is for good,
nothing is charged before the grant, and what counts as paid was charged.

**ApprovalQueue** models `ApprovalQueue` and `ApprovalStorage`. `pending` and `history` are
`_pending` and `_history`; `mem` is the requests' fields, `disk` their rows. A write commits or
raises (`WriteOutcomes`); `_archive` persists before it appends, so a raise leaves a request in
neither collection. `ExpireStale` is the loop of that method and may be cut after any prefix by
a raise; `Restart` may cut it too, and reloads the newest `LoadLimit` rows. Time is not counted:
`Lapse(r)` makes a request overdue; TTLs differ, so in any order. `acked` is a history variable:
what callers were told. The rows implement `ApprovalContract` (`KeepsPromise`).

**Delivery** EXTENDS ApprovalQueue and adds the records and the sends. An action that consults
the queue has the guard `Due = {}`: its handler begins with `expire_stale()`, which is the queue's
own step just before. A send is cut at each POST and backoff; while it is in flight everything else
may run. `SettleHandOff(j, cut)` is `mark_delivery_handed_off`: with `cut` the process dies after
the approval's commit and before the record's, and `RequestApproval(j, r, cut)` may be cut in the same place, after
the new request's row. Build and review services run the same code for this
and are one set `Jobs`. Which fallback routes are tried depends on readiness and rate windows,
which may refuse any of them. `sent` and `confirmed` are history variables.

**MessageRouter** models `MessageRouter`, `MessagePersistence` and `DeadLetterQueue`. `worker` is
the delivering coroutine: the loop, then `stop()`'s drain, which `Agent.stop` starts only after
cancelling the loop. aiosqlite executes statements in the order issued on one thread: `writes` is
that queue. `Awaited` says which coroutine a commit resumes. It is a router that was initialised:
`AgentOrchestrator` starts its own (`core/agent.py:101`, `:330`), of which its comment says that its use is to come,
and never calls `init()`, so there it works in memory alone and every row is a no-op. The rows implement `Mailbox` (`KeepsMailbox`): lodged is what
`store()` returned for, served what a handler returned for, struck what `remove()` returned for.

**JobRunner** models `JobRunner`. `waiters` and `holders` are the semaphore; `task` is where the
job's asyncio task is suspended. `Cancel` files the record at once; `Unwind` is CancelledError
reaching the task. `Age` lets a failure fall out of the breaker's window. Status, attempt and the order of the
semaphore's waiters implement `JobService` (`KeepsService`).

**Settlement** models `PaymentSettlementService` and the gateway call it spends through: the call is
cut at each attempt and backoff. A lost answer (`AttemptLost`, `CallFails`) may or may not have been
credited. `CallUnpaid` is a second 402, which files a settlement of its own through the gateway's
call-back. Ids are in the order of `created_at`, which `Loaded` sorts by. The rows and what the provider took
implement `Account` (`KeepsAccount`).

**Workspaces, BuildJobs, OperatorWork** are a build from the outside. `Workspaces` has the
table and the directories: all its calls are synchronous. `BuildJobs` adds `run_build` and
`resume_build`: `jobs` are the rows, written once at the end, `live` the records in memory, `at` where a
coroutine is. Only the model and Docker are awaited; `Busy` keeps every other coroutine out of the
stretches between, in which the process may still die. The stages `Executed`, `Guarded`, `Verified`,
`Reviewed`, `Accepted` and `Final` are the sets of records each may leave. `OperatorWork` adds
`submit_operator_intake`, `run_review` and the nightly cleanup; `stranded` and `lost` are what a
death or an escaped exception cut short; `SubmitUnreadable` is a plan that was set to executing before its intake
proved unreadable. Nothing reconciles the three tables after a death, so the
properties say what each may be trusted for.

**BuildEngine** is the same build from the inside: the files of the live repository and of the workspace,
as short sequences of pieces; the ten plan operations (`replace_text`, `move_file`, `json_set`, ...) as
functions of the files; the sync, the checks discovered in the tree, the change set, each kind of
acceptance criterion, the review gate, and what `resume_build` copies and takes for done. `checked` and
`brought` are history: the files the verification results speak of, and whether they are another
workspace's.

**Reviews** is one review from the inside: the findings that the analyzers draw from a repository
(a listing in the order the scan comes by it, with what the patterns find in each file) or from a diff,
what the verifier leaves of them, and each commit of artifacts and row, to the review database and to the control
plane's. Nothing in `run_review` suspends, so only deaths and exceptions come in between; `afterSave` says what
follows a save, and with it which handler an exception meets.

**Vault** has the file's format, header, key and content, `salt.bin`, and a session per manager;
`promised` is what callers were told is stored. Ciphertexts are records of what decrypts them. `LegacySalts`
are those that `_locate_legacy_salt` may find for a v1 file, and `HeaderOf` is what a header keeps of one: 16 bytes.

**Bids** is `submit_bid`: `copy` is the `Bid` a call works on while the row changes under it, and `accepted`
(history) what covered each post the platform took. **TelegramUpdates** has the server's updates, the
offset and its file, the queue for each chat's lock and the replies on their way. `confirmed` is what the server has dropped, the
updates below the offset of a `getUpdates` that reached it; a save of the offset that fails may leave the file as it was
or empty, which the next process reads as 0 (`FileHolds`). **Pipelines** has the stages
that all runs share and `answers` (history), what each run saw. **Workflows** has the table, the pass of the
loop and the manager that exists only once `/workflow` was typed. **Retention** has the records
with `recency`, the order that the limit of a listing cuts. **Conversation** has the tail, the rows and
the messages being answered.

**Budget** is the budget policy as an operator of an amount and of what was spent; **Finance** adds the
transactions, SQLite's writes on their way, the lock and the dead-man switch; **Intake** adds
qualification, sizing, pricing and the gates of an intake, as operators over a record with one
field for each thing the rules look at, and the acquisition mirror of a git URL.

**ToolUse** follows a message through the brain's layers, the loop of model and tool calls, the executor's
refusals, and the status, action log and counters they all write. `FindsStatus` says whether the executor finds
the status model to show a denied tool on (see section 4). **MemoryStore** has the index, the rows, the
deletions not committed yet (one connection, one transaction for all) and the statements SQLite has still to
answer. **TaskTable** has tasks, rows, writes and the walk that unblocks. **SelfUpdate** has the checkout, the
upstream, the operator's own commits and edits, and the request between two git commands. **Learning** has the
two copies of the skills, the model each message runs on and the second try.

**ApiCalls** is `call_api_via_capability`, and `call_api_across_providers` over it. `apiCall` says where a call stands:
waiting for an answer or for the pause before a retry, which is where others run; everything else it does, from one
answer to the next request or to its end, is one action. `hits` is `_rate_limit_hits`, per policy and host; `stamps`
(history) are the moments of all that went through. `apiRow` and `evidence` are the operation's job record and the
three records behind a success, `served` and `dropped` history. A call across providers has a job for each of them, or
one for all where the caller names it (`JobOf`). Which routes are ready comes from the environment
and the vault, so any may be passed over.

**WorkLoop** has the queue, the piece in the worker's hand and what the worker awaits (`workerAt`): the piece, the chat
that is told of it, a pause. `ListedWork` is which messages count as a list of work, by the features that the
code looks at. `workAccepted`, `outcomes` and `pauses` are history.

## 3. What the runs check

| Run | Instance | Distinct states | What it shows |
|---|---|---|---|
| `approval_queue` | 3 requests, 2 people, history 1, loads of 2, quorum 0 (raised to 1) or 2, failing writes | 793,080 (under symmetry) | grants are signed; told decisions are durable; approvals are reachable unless a bound is full; nothing is granted late; the contract is implemented |
| `delivery` | 2 jobs, one severe, 2 requests, 2 senders, 2 routes, 1 retry, history 1, loads of 1 | 711,510 (under symmetry) | nothing leaves unsigned or under another job's request; records follow requests; hand-offs and confirmed sends consume their approvals |
| `delivery_ends` | 1 job, 2 requests, 2 senders, 1 person, 2 routes, 1 retry, no symmetry | 226,068 | every send ends |
| `message_router` | 2 messages of one priority to one module, 1 retry, 1 dead letter, `seq` up to 3, failing writes | 730,206 | the mailbox is implemented (nothing lodged is lost, nothing struck off returns), no duplicates or ties, the router settles |
| `operator_work` | 3 builds, 2 workspaces, limit 1, 1 plan, three kinds of intake | 2,326,415 | completed builds are sound, nothing is held over (held resources have a holder, within the limit), plans agree with their jobs |
| `services` | 20 services, one per behaviour (below) | 404,065 | each keeps its promise |
| `router_persist` | as `message_router` | violation | the handler can run before the row exists |
| `router_reboot` | the same, with reboots | violation | replay after a reboot can tie |
| `settlement_spend` | as in `services` | violation | one approval can be spent twice |
| `empty_build` | as `operator_work` | violation | a third attempt can complete a build that applied nothing |
| `engine_resume` | as in `services` | violation | a third attempt can complete a build whose tree was never verified |
| `bid_gate` | as in `services` | violation | a failed bid is posted without an approval |

**`services`** checks components that share nothing in one run: `focus` picks one in the initial state, only
that one steps, and the others stand still, so the states are the sum of the components' and never
their product. Intake reads the finance ledger, which starts in any state it can be in and stands still
while an intake is planned. The liveness promises in it are asked of the behaviours whose focus is the component they
speak of (`JobsFinish` of *jobs*, and so on), where the fairness is; in the others that component stands still by choice.

| Service | States | Instance | Properties |
|---|---|---|---|
| jobs | 45,127 | 3 jobs, 2 slots, 2 retries, breaker at 3, stores of 1 | `Tracked`, `KeepsService`, `JobsFinish` |
| settlement | 38,789 | 2 settlements, 2 callers, 1 retry, loads of 1, 1 death | `KeepsAccount` |
| vault | 4,165 | 1 name, 2 keys, 2 managers, 3 random salts and the static one; every legacy format and none | `SecretsKept` |
| bids | 31,324 | 2 submissions of one bid, 2 requests | `RecordsArePosts` |
| telegram | 22,067 | 4 updates of 2 chats | `RepliesInOrder` |
| pipelines | 6,017 | 2 runs of 3 stages | `OkIsOwn` |
| workflows | 13,800 | 2 workflows, given up at 2 errors | `WorkflowsAreRun` |
| retention | 493 | 3 records, listings of 2 | `ContentIsPruned` |
| conversation | 19,665 | 2 messages at a time, 2 texts, 2 answers, tail of 3, 2 recent rows loaded | `EachAnswerHasItsText` |
| finance | 14,366 | 2 expenses, 2 days, stale after 1 | `DecisionsKept` |
| intake | 30,793 | every shape of intake over two sizes of each field, every ledger | `BiggerIsNeverEasier` |
| tools | 6,484 | 2 messages, 2 tools, 2 turns, 1 call each | `CallsAreAccounted` |
| memory | 19,430 | 3 episodes and a lesson that begin alike, room for 1, 2 writers | `StoreStaysTrue` |
| tasks | 30,799 | 3 tasks, one that depends on another and one on both, 2 calls at once | `QueuedIsReady` |
| engine | 10,044 | 7 requests over 5 files, 3 attempts, a repository that moves on | `ContentIsExplained` |
| update | 13,458 | 2 requests, 1 new commit, 1 commit and edits of the operator | `UpdateIsHonest` |
| learning | 5,270 | 2 messages, 2 skills, one of them seen by one writer only | `LadderIsClimbed` |
| reviews | 9,630 | 7 intakes, 6 repositories over 7 files, every answer of git | `ReviewsAgree` |
| api | 81,129 | 2 calls, 2 providers, 3 routes of one capability, at most 2 calls in 2 ticks, 3 moments, 1 retry | `RateIsKept`, `ApiCallsAreHonest` |
| work | 1,215 | 5 messages over 4 pieces of work, queue of 3, a pause after 2 failures, 4 pieces per process | `WorkLoopServes` |

**Bounds.** History, dead letters, stores, listings and loads are 1, 2 or 3 so that eviction and truncation
occur with two or three items; the code's values (a history of 500, loads of
5000, 1000 completed jobs, 500 and 10000 dead letters) would only move them out of reach.
Two people and a quorum of two give partial approval, a repeated vote and a full quorum. Two callers,
senders, submissions, runs or messages are enough for every race the code has: its shared state is read and
written per request, job, bid or chat. Three jobs over two slots leave one queued while slots are
cancelled, and three failures open the breaker. Three builds give the first attempt, a resume of it and a resume of the
resume, which is what both findings about resumes need; two workspaces give the resumed and a new one. One retry
distinguishes the first attempt, a later one and the last. `MaxSeq` bounds sends from outside
and restarts of the router (replies and retries are not bounded by it, so nothing stops because of it).
`MaxCrashes` = 1 bounds deaths in Settlement: a death leaves only what the rows hold, and every combination
of rows is reached with the first. (With two the same properties held over 80,745 states.) Elsewhere deaths are unbounded.
The numbers of an intake are the ones on both sides of the thresholds in
`intake.py` that change its size or price. Deadlock is not checked: each system may stop legitimately once
its bounded inputs are used up.

**Symmetry** is used only in runs without liveness properties, on sets whose members the actions do
not tell apart. (`KeepsPromise` and `KeepsMailbox` are safety formulas, `Init /\ [][Next]_v`; of the two runs only
`approval_queue` uses symmetry.)

**Assumptions of the instances.** In Delivery, writes succeed (`DeliveryAssumption`); ApprovalQueue is
where they may raise. In Settlement, `_persist` does not swallow an exception (`PersistOutcomes =
{TRUE}`): with a lost write an approved and paid request can be pending again after a restart and be
denied, so neither `KeepsAccount` nor `DeniedSpendsNothing` holds; the code promises nothing for that case. A 2xx to a top-up means
that it was credited. Writes that raise are in ApprovalQueue, MessageRouter, Vault, TelegramUpdates, Pipelines,
Workflows, Conversation and Finance; in MemoryStore and TaskTable they are left out. Job functions
do not swallow CancelledError, and `asyncio.wait_for` is Python 3.12's (the image's, see
`Dockerfile`).

**Fairness.** Delivery: weak fairness of each sender's own progress, since aiohttp's timeout ends a POST
and `asyncio.sleep` a backoff; nobody is assumed to approve, sweep or restart. Router: weak fairness of the
delivering coroutine (`wait_for` bounds a handler, `sleep` a backoff) and of SQLite's thread; no caller, stop
or restart is assumed, and `Settles` is claimed for behaviours that stop restarting. JobRunner: weak fairness
of each task (`wait_for` ends a call), none of cancel or schedule. Workflows: weak fairness of the cron loop,
whose submissions end; nobody is assumed to pause, activate or restart. Retention: weak fairness of the
pruning loop, and a listing that reaches every row. The others claim only safety.

## 4. Findings

1. `router_persist`: `send()` queues a message and then awaits its `store()`, although "Messages are
   stored before delivery" (router.py). The loop can run the handler first, while
   the message has no row yet: if the process dies there, the message was acted on and nothing records it.
2. `router_reboot`: expired rows stay in the table, and their age is a monotonic time stored with them
   although the field is described as not serialized. After a reboot the rows are young again and are
   replayed beside newer ones with equal `(priority, seq)`: the heap then compares `Message` objects.
3. `settlement_spend`: `execute_topup` checks the status and then awaits without claiming the request, so
   two executions of one approval both pay, and so does a retry after a lost answer; the class promises
   that every spending action requires operator approval.
4. `empty_build`: the guard against a build that changed nothing looks at whether the job has a plan now, not
   at whether the plan was applied. An attempt without a plan, one whose Docker phase fails and one that
   resumes it complete a build whose tree is as it was synced.
5. `engine_resume`: a checkpoint says that a phase was reached, not where. After an attempt that was
   verified and then refused by its review, and one that failed in a new workspace, a third one takes the first one's
   `built` and `verified` for its own and completes.
6. `bid_gate`: `submit_bid` has no branch for a bid that is FAILED, so one whose approval was denied is
   posted when it is submitted again.

What follows was met while modelling and is in the models, without a run of its own. Three promises of the source are
among it that the code does not keep; the properties of these components say what it does instead:

- **A review's summary may count what is gone.** `_save_job` says that it brings the summary in line with the findings
  "to ensure the text is consistent with the structured data" (`review/service.py:551`), but looks only at reports that still
  have findings (`:555`). A review, of a repository or of a pull request, whose only findings are sample secrets in test files is
  left with none by the verifier and is stored as completed, with the verdict "pass" and the summary "1 critical".
  `ReviewsAgree` makes an exception of this case, for critical findings only; without the exception TLC finds it violated.
- **A denied tool is never shown.** "BLOCKED, WAITING_APPROVAL should persist for operator visibility" (`core/brain.py:159`), and
  `tests/test_audit_v2_regressions.py:136` asks that they survive `process()`, on a status it sets itself. The executor
  looks for that status on the object it was given, as `_status_model` or `brain._status` (`core/tool_executor.py:183`);
  `__main__` gives it the `AgentOrchestrator`, which has neither, so nothing ever sets BLOCKED and the agent is idle after a denial.
  `FindsStatus` is FALSE in the run for that reason; with TRUE it passes too (7,984 states of this service), a denied tool
  stays shown, and the theorem covers both.
- **Providers are not tried until one succeeds.** `call_api_across_providers` "tries them in order until one succeeds"
  (`control/gateway.py:458`), but goes on only past providers that are not configured or lack the capability; after
  any other failure, a request that went out and failed included, it stops (`:490`). Nothing in `src` calls it yet.

- **Builds.** A build that passes in Docker is saved as failed (theorem `DockerNeverCompletes`). A build whose
  criteria are all optional completes although verification failed (`build/models.py:467`), although the comment
  where a failed verification is handled says that it fails the acceptance (`build/service.py:782`), so `CompletedIsSound` exempts it. The sync
  skips `dist`, `build`, `data` and `node_modules` and the change set does not, so files there are reported
  and delivered as removed (`ContentIsExplained` says which). `forbid_internal_changes` can never be met. After
  Docker, a run on the host finds its plan applied and counts no operations. Re-running a plan that was half applied
  may fail, or edit twice. A git URL with an implementation plan raises after its plan was set to executing
  (`control/intake.py:1275` reads attributes of what `to_dict` made dictionaries of). A plan left `awaiting_approval` is
  never continued when it is approved.
- **Reviews.** The artifacts are cut before `_save_job` brings the summary up to date, so the words of a
  stored report may count findings that the verifier has removed (its tables are right), and a summary that
  began with "no findings" keeps saying so before its counts, as that of a release review over a clean audit does
  (`stated` has the counts only). A review that raises without having a workspace
  stays `validating`. An audit or a release review that names a diff is blocked
  (`control/policy.py:1217`).
- **API calls.** A call whose routes all failed is filed as blocked, `provider_unconfigured`, although requests were sent. A
  request that is incomplete, refused by the policy or beyond the rate ends the call at once, without a look at the
  next route. Retries do not count against the rate, and the windows live in memory: the rate is kept per process.
  The shipped table has one route per capability, so falling back is modelled with a spare one.
- **Work loop.** A provider's failure comes back as text, is reported with a check mark and ends a row of errors; only
  exceptions count towards the pause. `stop()` cancels the worker: what was in its hand or queued is lost without a word.
- **Settlements, money.** Executed jobs are never counted in the ledger, so caps never bind across jobs.
- **Acquisition.** A mirror is fetched without moving its checkout; a clone that is killed leaves a
  directory later taken for the mirror.
- **Retention.** Hard deletion looks for `'PRUNED'` where `'pruned'` is stored (`control/storage.py:668`), and records
  beyond the listing's limit are never pruned.
- **Vault.** After a failed migration of a vault under the static salt, a save clips the salt to the header's
  size: the file is then readable only by the manager that wrote it.
- **Memory.** The decay job's list is stale by the time of its deletes; decay is not persisted; overlapping stores
  exceed `max_memories` by one each; of two that say the same the kept one may be the one evicted meanwhile; a
  consolidation without episodes makes its loop raise and retry without a pause.
- **Tasks.** The walk that unblocks iterates a dict across awaits: a task created meanwhile ends it with a
  RuntimeError and the rest stay blocked, and so does a death; a cancelled task that was blocked can be started.
- **Self-update.** The pull names the local branch, which upstream may not have; a failed count reads as "up to date"; a
  pull that is killed may have moved HEAD (the old code keeps running) or half-written the tree
  (dirty from then on). `os._exit` waits for no request in flight.
- **Learning.** The learner's save erases what the other writer recorded, common skills count twice, and a reply with
  neither success nor failure words counts as a failure for one of the two only. Escalation names one provider's models.
- **Tools.** A message that ends sets the status to idle while another executes; a cancelled handler leaves its action out
  of the log. The log keeps the last 2000 actions, the model all of them.
- **Telegram.** A save of the offset that fails after it has truncated the file leaves it empty. The next process then asks from 1, and
  is sent what the server still has: at most the one batch that was not confirmed.
- **Cron.** The maintenance loop dies when `schedule()` raises (`core/agent.py:555`); after a restart no workflow is due until
  `/workflow` is typed.

## 5. What is proved

For every value of the constants, from the named assumptions of the modules alone. In each case the argument is an
inductive invariant, one lemma per handler that it is kept, a lemma that collects them, and PTL.

**DeliveryProofs**, first part, the approval queue: any sets of requests and people, any `MaxHistory` and `LoadLimit`
of at least 1, any requested quorum, writes that may raise: `QueueTyped`, `OnePlace`, `GrantsAreSigned`,
`DecisionsAreKept`, `NoGrantAfterTTL`, `OneExecution`, `ApprovalsAreReachable` (an approved row's request is in `_history`,
or a bound was full) and `QueueKeepsPromise` (the rows implement `ApprovalContract`).
None of the invariants is inductive alone. `QueueInv` adds to the types, one-place and
told-is-kept, for each request r: `RowOf(r)`, how its row relates to what the process holds (a
request in `_pending` has an open row or none; one in `_history` has an equal row, or, when a write raised, an
executed copy over an approved row), and `RowSigned(r)`, the quorum behind the row and
behind the copy. Lemmas about lists come first (`ArchivedIsSuffix`, `ArchivedMembers`,
`OldestFirstVisits`: what archiving and the load leave in `_history`). The action properties and the
refinement use `QueueInv` before a step and, for the refinement, `RowsOfAStep`, which lists what a step can do to the rows.

Second part, deliveries: any jobs, senders, routes and retries, from `QueueAssumption` and
`DeliveryAssumption`. `QueueStep` shows that whatever a delivery does to the queue is a step of
`QueueNext` or leaves it alone; so `QueueInv` holds inside the composition and `DeliveryKeepsPromise`
carries the approval contract over. `SendInv` adds what a record, a send in flight and a
package that left know about their request: that it has a row, whose required quorum is what the
job's findings demand, and that whatever was posted is granted there. `PackagesAreSigned` follows
from it and the queue's quorum. `RecordsAgree` uses it to show that a record's status stays a true statement
about the row of its request while the queue, and other handlers, move on. `HandOffsConsume` is about the commits that follow a
send: `CopiesAreRows` says that the queue's copies hold what their rows hold (writes succeed here), so that `mark_executed` either finds the
request or the bound that hides it is full and stays full (`Consumed`, `ConsumedStays`).

**MessageRouterProofs**: any messages, modules, priorities, retries and bounds, writes that may raise. `RouterInv` adds
to the types and the lists what the statements that SQLite has still to execute say: a removal is issued only for a
handled message, no store of it is behind it, and the rows' numbers are bounded, so that a replay finds the largest.
`Fits` is what the delivering coroutine holds: nothing that is queued or buried, a response that is new, a message
that is being removed only in the phases that do not send it again. Every call of `send()` goes through `PutKeepsInv`,
every step that neither queues nor issues through `QuietKeepsInv`. `RouterTyped`, `CopiesAreSingle` and `RowsAreTrue`
follow. `HeapNeverTies` is stated under `ClockResets = {FALSE}` and needs `Numbered` too: two rows may share a number
only when one has expired or they are one message. `router_reboot` shows why the condition is needed.
`RouterKeepsMailbox` takes each action to a step of the mailbox or a stutter: with `RouterInv`, a row that a statement
removes is of a handled message, and one that a store puts on record was not struck off, unless it is in doubt.

**OperatorWorkProofs**: any builds, workspaces, plans, kinds of intake and limit. `OperatorInv` is typing,
`BuildsInv` and `PlansInv`. `BuildsInv` says how a job's row, its record in memory and the place of its coroutine fit
together (`Fits`), that one coroutine at most is between two awaits (`Alone`), and which workspaces are
active for whom. The stages are followed by lemmas about the records they leave (`ExecutedFacts` to `FinalFacts`,
composed in `HostOutcome`). `BuildTurn` says once what a build's step must satisfy, `Turn` and `Claim`, so
that each step needs to show only that; a step's effect on plans is that it has none, or the one lemma
`ReturnBuildStep`. `CompletedBuildsAreSound`, `NothingStaysHeldOver` (`WorkIsHeld` with `LimitIsKept`), `PlansTellTruth` and the action property
`DockerNeverCompletes` follow.

**LedgerProofs** holds what keeps accounts.
*Settlement*: any settlements, callers, retries, loads and deaths. Typing is inductive on its own; `ExecutionWasPaid` needs only that
`executed` is written in the step in which a credit arrives, and holds with swallowed writes too. `DenialSpendsNothing` is
stated under `PersistOutcomes = {TRUE}` (see "Assumptions of the instances"): `DenialInv` says that memory equals the row and
that what is absent, pending or denied is `Untouched`: no credit, and no call in flight that could bring one. `CreditsMatch` is both.
`SettlementKeepsAccount` follows each bill through each action, under the same condition: a step of the account is one for every
bill at once, because the answer to a call may settle one bill and file the next.
*Vault*: any names, keys, managers and salts. `OnDisk` says that a v2 header is what saving makes of the salt
the file is sealed under and a v1 file's salt is where the code looks for it.
*TaskTable*: any tasks and dependencies. `Earned` says that what is queued in memory, in a row, or in a write still on its way
has everything it depends on among the finished, and that a walk under way only holds what was finished.
*Finance*: any expenses and days. What was told must stand in the row and in memory, but the two are joined by a queue of writes, each
of which may fail: `FinanceInv` carries along that queue, statement by statement, that a later one never takes back what an earlier one
leads to (`Leads`, `KeptOnwards`). *Intake*: any sizes and any ledger. `BiggerIsNeverEasier` is about operators, so what is inductive is only the
type; the work is `ScopeGrows`, `CostGrows`, `RiskGrows` and `BlocksGrow` (each rule is monotone in each field) and `SpentIsAnAmount`: the ledger's sums are
folds, whose values are natural numbers by a least counterexample over the number of entries.
*ApiCalls*: any calls, providers, routes, limit, window and retries. `RateIsKept` speaks of all calls let through, the code counts only the entries
it did not drop: `RateInv` adds that the entries are in the order of time and that none of the recent ones was dropped. `WindowSteps` sorts
each step by what it does to a window, `RateInvStep` does the rest. `CallsInv` says what is recorded of a call that stands where it
stands, whichever providers it passed over and whether or not they share one job; `RateAlwaysKept` and `ApiCallsAlwaysHonest` follow.

**WorkProofs** holds what does work.
*JobRunner*: any jobs, slots, retries and store sizes. `JobInv` is `Tracked` told job by job (`Filed`), with no record twice in a store
(an eviction would otherwise leave a second copy), no live task behind an ended job, and attempts left during a backoff.
`JobsAreServed` adds `SlotInv`, the semaphore: who waits stands once in its queue, with nobody else in it but cancelled tasks, and who is in an
attempt or between two holds a slot. So who begins has no waiting job before it, and the running are no more than the holders.
*Pipelines*: any runs and stages: a run that awaits stage k was answered `completed` k - 1 times; for the types (`PipelinesTyped`) it is in
the same place that no run has more answers than stages. *Workflows*, *Retention*: any workflows, error limit, artifacts and limit of a listing.
`WorkflowsTyped` bounds the pass of the loop and the errors counted; `RetentionTyped` shows that rewriting rows leaves an order of the rows there
are (`TouchedRows`). *SelfUpdate*: any requests, commits and
moves of the upstream: `UpdateInv` is typing with the property, one step for each git command and how it may end.
*BuildEngine*: any files, checks, requests, plans of any length and moves of the repository. A plan is a recursive function, so `PlanKeeps` (it changes no file that
its operations do not name) rests on `StepsExist`, the least prefix at which it could fail to be defined. `TreeIsExplained` says of each file of the workspace that differs
from the repository why it does; `ResultsInOrder` and `PassedIsOfTree`, which results belong to which tree and when a resume has them;
`AcceptanceRests`, what an acceptance without failures was based on. *Reviews*: any intakes and repositories: `BeforeSaving`, `Saving` and `AfterSaves` follow the commits
of a review one by one, `RowIsReview` says what its row may claim at each, and `DeliveryIsReview` what is asked to be delivered. `ReviewsAreTyped` needs the findings to be finitely many wherever they come from
(`StructureIsFinite`, `SecurityIsFinite`, `VerifiedIsFinite`), since a summary states how many there are.
*WorkLoop*: any messages, queue size and patience. That pieces keep their line is inductive with the types. For the pauses `StrikesInv` ties the counter to the
history: it is the length of the row of failures at its end, so it reaches `Patience` exactly when such a row does (`RowOfFailures`, `FailureCounts`,
`SuccessEndsRow`).

**AssistantProofs** holds what answers a person.
*TelegramUpdates*: any updates of any chats. A chat's line (delivered, being answered, waiting) ascends, its replies under way lie in between, and a
batch that is read comes after everything (`BatchLinesUp`); what a new process would read again stays within `unsaved`,
because a poll follows only a `getUpdates` that dropped everything before it. *Conversation*: any texts, answers and bounds: the rows are a dialogue whatever happened, the tail is one unless messages
overlapped; cutting a dialogue to its latest entries, and joining two, leaves one (`ConversationTyped` bounds the tail on the way). *ToolUse*: any messages, tools, turns and calls,
and an executor that finds the status or not: each step of a call changes the two sides of the count alike, since it
moves one message into or out of `Unlogged` (`UnloggedMoves`). *MemoryStore*: any memories and bounds:
`AfterFirst` says what the index will have become once the first k statements on their way are answered, and `QueueOK` that at no k it outgrows the bound; rows and index agree at the end of the queue because they
agree along it. *Learning*: a model that failed a skill is among those beaten in this process; `LearningTyped` shows that both copies of the table stay tables whose statuses fit
their counts (`RecordsStayPlausible`). *Bids*: any submissions and requests. `Sound` and `Covered` say what a
submission's copy and its place promise about the approvals while they advance.

**ServicesProofs** is about the services side by side, as `services` runs them. Each step of `ServicesNext` is a step of every service or none of
it (`EachSteps`: of the one in focus, and the others stand still), so a behaviour of them all is one of each, its fairness included
(`RunnersRun`, `PaymentsRun`, `ChatsRun`, `MakersRun`). Intakes are the exception, since the ledger they read may begin with something in it: what was proved of
them is carried over by their invariant (`IntakesRun`, `LedgerRuns`). So what the run finds on its constants holds of its specification for any:
`ServicesAreTyped`, `ServicesAreSafe` (its eighteen other invariants) and, when no write of a settlement is lost, `ServicesKeepContracts`.

**NumberLemmas** has the one fact that stands in for induction: a non-empty set of natural numbers has a least member. It is what lets theorems
speak of plans, queues and ledgers of any length.

**Only model-checked**: all liveness (`SendEnds`, `Settles`, `JobsFinish`, `WorkflowsAreRun`, `ContentIsPruned`), since fairness and ENABLED are outside the
prover's reach, and the six findings, whose properties the code violates. Every invariant, action property and refinement of the passing runs is a
theorem. Two of the theorems about these properties have a condition beyond the modules' assumptions: `HeapNeverTies` (no reboot) and
`SettlementKeepsAccount` (no lost write); both are the setting of the runs that check them, and section 3 says what happens without.

## 6. What could follow

Most important first: failing writes in MemoryStore and TaskTable; an abstract specification of a build, for BuildEngine and
BuildJobs to implement both.

## 7. Not modelled

- **Projects** (`projects/manager.py`): one read-modify-write per operation over rows that no other component reads back
  for a decision. Two at once lose an update; nothing depends on it.
- **Watchdog** (`core/watchdog.py`): no restart callback is registered anywhere and one loop sends every module's heartbeat, so
  the code that restarts is never run.
- **Text**: prompts, intents, ranking, redaction, the regular expressions of the reviewers, reports and rendering,
  command parsing of Telegram, the CLI and the HTTP API. Long, stateless, and about strings.
- **Numerics**: embeddings, costs in fractions, statistics.
- **External services**: LLM providers, Docker, git, HTTP servers, the sandbox, except as the answers the modelled
  code reacts to.
- **Parts of modelled components** that `PROJECT.json` calls "partly" for: the descriptions in the gateway's catalogue, the receipts of a delivery, the audit trail of
  workspaces, archival and export, can_i_do, try_skill and their kin in `brain/learning.py` (which have no callers), and the
  cancellation of a submission in the middle of its build by the Telegram handler's own timeout
  (`social/telegram_handler.py:1600`).
- **Two running processes** over one database: the program runs as one process.
- **Dead code**: `_parse_and_execute_actions` (`social/telegram_handler.py:2661`), which nothing calls, and the path of
  `_handle_text` without a brain (`social/telegram_handler.py:827`), which `__main__` always builds.
- `src/operator` is a mock-driven TypeScript skeleton without state.
