# Verification of Vyomel's core

TLA+ models of the parts of Vyomel in which order, concurrency and failure
decide what happens, TLC runs that check them on small instances, and theorems
about them that TLAPS checks for every instance. Source paths are relative to
the repository.

## 1. Inventory

Vyomel accepts a task, plans it as a DAG of tool invocations, asks for consent
where policy demands it, executes the invocations with crash-tolerant workers,
verifies what they did, and can cancel and compensate. PostgreSQL holds all
durable state; Redis carries action ids to workers and the scheduler's lock.

| Component | Source | State it keeps | Operations | Talks to |
|---|---|---|---|---|
| Dispatcher | `vyomel/runtime/dispatcher.py` | none of its own; rows of `actions`, `tasks` | `promote_ready`, `enqueue_ready`, `publish`, `maybe_start_task` | gate, queue, host bridge |
| Queue | `vyomel/runtime/queue.py` | Redis stream and consumer group | `publish`, `claim`, `ack`, `autoclaim`, `reset_stream` | workers, dispatcher |
| Worker | `vyomel/runtime/worker.py` | a claim, an open transaction, a heartbeat task, a cancel watcher | `run_once`, `_handle`, `_execute`, `_run_claimed`, `_retry_or_fail`, `_finish_*`, `_heartbeat_loop`, `_watch_for_cancel` | rows by CAS, ledger, tools, verifier |
| Ledger, dead letters | `vyomel/store/repos.py`, `store/models.py` | `side_effect_ledger`, `dead_letters` | `insert_ledger`, `add_dead_letter` | worker, reaper, gate |
| Reaper | `vyomel/runtime/reaper.py` | none | `reap` | rows with an expired lease |
| Scheduler | `vyomel/runtime/scheduler.py` | none | `recover`, `tick`, `_tick_task` | reaper, gate, dispatcher, replanning |
| Policy gate | `vyomel/runtime/gate.py` | none | `check`, `grant`, `refuse`, `expire_overdue` | approvals, audit, task and action rows |
| Approvals | `vyomel/security/approvals.py`, `orchestrator/approvals.py` | `approvals` | create, approve, modify, reject, expire, consume | users, gate |
| Task lifecycle | `vyomel/orchestrator/tasks.py`, `orchestrator/plans.py`, `orchestrator/replanning.py` | `tasks`, `steps` | create, install, reply, replan, complete | scheduler, canceller |
| Cancellation | `vyomel/runtime/cancel.py` | none | `cancel`, `_compensate_succeeded` | action rows, tools, worker watchers |
| State machines | `vyomel/runtime/state.py` | tables | `apply_action`, `apply_task` | everything above |
| DAG | `vyomel/runtime/dag.py` | none (pure) | `validate_acyclic`, `ready_ids`, `reverse_topo` | plans, dispatcher, canceller |
| Leader election | `vyomel/runtime/leader.py`, `orchestrator/runtime.py` | a Redis key with a TTL | `try_acquire`, `renew`, `release` | scheduler replicas |
| Local agent | `vyomel/orchestrator/local_agent.py`, `agent_process.py` | connected agents, pending results | `try_dispatch`, `complete` | dispatcher, desktop host |
| Capability and policy | `vyomel/security/capability.py`, `policy.py`, `matching.py` | a reloadable policy file | `classify`, `evaluate` | plans, gate, approvals |
| Audit chain | `vyomel/security/audit.py` | `audit_log`, a hash chain | `append`, `verify` | every transaction that decides |
| Verification | `vyomel/verify/engine.py` | `verifications` | `run` | worker |
| Model routing | `vyomel/models/router.py`, `circuit.py`, `cache.py`, `accounting.py` | circuit breakers, token budget | `complete`, `record_*` | planner, learning |
| Planner | `vyomel/planner/` | none | `decompose`, `replan`, budget | model routing, plans |
| Memory | `vyomel/memory/` | chunks, graph, episodes | ingest, retrieve, record | tools, planner |
| Learning | `vyomel/learning/` | workflow proposals | mine, propose, accept, reject | completed tasks |
| Tools | `vyomel/tools/` | files, a desktop, a browser, media, HTTP | `execute`, `compensate`, `observe` | worker, canceller |
| Voice, perception, clients | `vyomel/voice/`, `perception/`, `clients/` | a voice session | listen, speak, gym | API |
| API, CLI | `vyomel/api/`, `cli/` | none | HTTP routes, commands | services above |
| Core, store, observability | `vyomel/core/`, `store/`, `obs/` | settings, engine, metrics | | all |

### What is hard in it

* **Zombies.** A worker whose lease lapsed keeps running its tool and records an
  outcome with a CAS that checks the status and never the owner.
* **Effects and their records.** The ledger reservation is written in the same
  open transaction that will record the outcome; a crash loses both.
* **Stale, duplicated and lost deliveries.** Rows commit before they are
  published; recovery republishes; entries that were read and not acknowledged
  are never read again.
* **Decisions on stale rows.** The scheduler, the gate, the canceller and the
  HTTP handlers read rows, decide, and write later; at READ COMMITTED only the
  expected status in the UPDATE protects them.
* **All-or-nothing ticks.** One tick is one transaction over every task, so one
  constraint violation undoes the work for all of them, and again on each retry.
* **Limits and time.** Retries, replans, deadlines, approval expiry, leases and
  backoff race each other and the user.

The hazards of `PROJECT.json` name each of these at the line where it bites.

### What makes each component correct

| Component | It is correct when | Checked as |
|---|---|---|
| Action engine | outcomes are final; leases go with running rows; an effect is repeated only after a lost transaction; dependencies come first; every ready action ends | `OutcomeIsFinal`, `RowsAreSound`, `EffectsAreReal`, `DependenciesHold`, `DispatchIsBounded`, `ReadyEventuallyEnds`, `ImplementsPlan` |
| Gate and approvals | what reaches a worker was judged and consented to; one question is open; a refusal is final; a wait ends unless its tick is wedged | `ConsentSound`, `EachDispatchSpends`, `OneOpenQuestion`, `FailedIsFinal`, `WaitingHasQuestion`, `OnlyAnswersRelease`, `WaitingEnds` |
| Task lifecycle | a task's row agrees with its actions' rows; ends are ends; a task comes to rest | `TasksAreSound`, `TasksEndOnce`, `TasksComeToRest` |
| Cancellation | an effect is undone once, dependents first, and nothing is recorded as undone that is still there; what is left is reported | `CancellationSound`, `ReportAccounts`, `UndoneBeforeFoundation`, `CancelledComesToRest` |
| Leader election | two leaders only after a lapse; unpublished work is published again | `LeadersServe` |
| Local agent | a job is recorded once and lost only with its connection | `JobsAreAccountedFor` |
| Model routing | sensitive prompts stay local; a provider that is well again is used again | `RoutesRecover` |
| Voice session | one utterance at a time; who waits returns | `SpeechEnds` |
| Audit chain | one chain; every change is found | `ChainProves` |
| Capability and policy | raising a level never weakens the decision; nothing runs unrecorded or at L4; patterns mean what they say | `PolicyHolds`, `RulesReadAsWritten` |
| Plans and replanning | what is accepted can finish and be undone; installation is all or nothing; repairs stay within the budget, and one more for each overlap of ticks | `PlansAreSound` |
| Verification | success was seen, a contradiction fails | `VerdictsAreSeen` |
| File, git, API, surface and media tools | an undo gives back what was there and takes nobody else's; effects, reads and targets agree | `UndoIsSafe`, `CommitsAreUndoneAlone`, `ApiEffectsHold`, `ActsOnWhatIsSeen`, `EditsKeepWords` |
| Memory | what is forgotten stays forgotten; answers are grounded in what is stored | `MemoryIsFaithful`, `AnswersAreGrounded` |
| Learning | a rejection is for good; offers are habits | `RejectionIsForGood`, `OffersAreHabits` |
| OAuth tokens | tokens change by intent; they are lost only by a death or an overlap in the writing of the file | `TokensAreKept` |

## 2. Modules

Each of the four engine components has a module, a properties module and an MC
module with its configurations; a component beside the engine keeps its
properties in its own module and is instantiated in `MCServices` (what has a
liveness property) or `MCStores` (what has none). Proofs stand in modules of
their own.

| Module | Extends, or is composed by | Runs |
|---|---|---|
| `ActionEngine`, `PlanExecution` (abstract), `ActionEngineProperties`, `ActionEngineProofs` | `MCActionEngine` | `AE_zombie`, `AE_plan`, `AE_delivery`, `AE_live`, `AE_reaper_wedged` |
| `ApprovalGate`, `ApprovalGateProperties`, `ApprovalGateProofs` | `MCApprovalGate` | `AG_leader`, `AG_races` |
| `TaskLifecycle`, `TaskLifecycleProperties`, `TaskLifecycleProofs` | `MCTaskLifecycle` | `TL_tasks`, `TL_blocked` |
| `Cancellation`, `CancellationProperties`, proved in `PlanningProofs` | `MCCancellation` | `CA_cancel` |
| `LeaderElection`, `LocalAgent`, `ModelRouting`, `VoiceSession`, with `ServicesProofs` | `MCServices` | `SV_live` |
| `AuditChain`, `Verification`, `WorkflowLearning`, `SemanticMemory`, `TokenVault`, `PolicyEvaluation`, with `StoresProofs` | `MCStores` | `ST_stores` |
| `FileTools`, `GitTools`, `ApiTools`, `SurfaceSessions`, with `ToolsProofs` | `MCStores` | `ST_stores` |
| `Planning`, `WorkflowMining`, with `PlanningProofs` (which holds the proofs about `Cancellation` too) | `MCStores` | `ST_stores` |
| `MediaTools`, `Retrieval`, `PolicyMatching`, which share `Listing` (sorted and filtered lists), with `TextProofs` | `MCStores` | `ST_stores` |

The engine, the gate, the lifecycle and the canceller act on the same two
tables, `tasks` and `actions`. Each model keeps the others' writes to a row as
actions of its own, reduced to what they may do to it: a worker in
`TaskLifecycle` is a claim, an outcome and a retry; the gate in it is a verdict
and an answer; the tick in `Cancellation` is a dispatch and a completion. The
product of all four is beyond enumeration; what is composed in full is the tick
over all tasks (`TaskLifecycle`), the scheduler with workers, reaper and queue
(`ActionEngine`), the gate with requests and ticks (`ApprovalGate`) and two
cancel requests with workers (`Cancellation`).

`MCServices` and `MCStores` put independent components side by side: a behaviour
chooses one (`part`) and takes only its steps, so the states add up instead of
multiplying, and one run answers for each of them.

Every property of a run has a mutant, a definition of the model changed as a bug
would change it, under which TLC finds the property violated with the run's own
bounds; the operators named `Bug...` are these. A composite property is a
conjunction of named parts, each with a comment of its own.

## 3. ActionEngine

| Model | Code |
|---|---|
| `row[a]` | `actions`: status, attempt_count, lease, owner, available_at, result |
| `ledger`, `dead` | committed `side_effect_ledger` and `dead_letters` rows |
| `stream` | entries not yet delivered to the consumer group |
| `worker[w]` | what a worker process is executing and what its open transaction holds |
| `sched[s]` | where a scheduler is in `reap` / `recover` / `tick` / `publish`, the rows it read and what it still has to publish |
| `effects`, `lost` | history: external effects performed, transactions lost after one |

A transaction that reads, decides and writes later is a read step and a commit
step (`ReapRead`/`ReapCommit`, `TickRead`/`TickCommit`); the CAS of each row is
the status its UPDATE expects. The ledger insert of an open transaction blocks a
second insert of the same key, as PostgreSQL's unique index does. A dead letter
that violates its unique `action_id` rolls its transaction back. Time is two
facts about a row: its lease is held or lapsed, its backoff runs or not.

Left out here: the gate's decisions (every action is allowed; `ApprovalGate`),
task status (`TaskLifecycle`), cancellation (`Cancellation`), the local agent's
route of `publish` (`LocalAgent`), and the branch of `_run_claimed` that replays
a stored result, which `ResultMeansFinished` shows unreachable.

### Runs

| Run | Question | Result |
|---|---|---|
| `AE_zombie` | two workers, two lapses, a worker and a scheduler crash, a flush: rows, effects and outcomes | holds |
| `AE_plan` | two chained actions, lapse and crashes; refinement of `PlanExecution` | holds |
| `AE_delivery` | one entry per dispatched action; limits of one task | holds |
| `AE_live` | every READY action ends, standalone scheduler, refused XADD, worker crash | holds |
| `AE_reaper_wedged` | lapsed leases are reclaimed | violated: duplicate dead letter |

`PlanExecution` is what the engine promises about one plan: an action waits,
runs and ends, once, after what it depends on. `ImplementsPlan` maps the status
of a row to its phase.

Five more statements of the docs are refuted by TLC and have no run of their
own; they stand at the end of `ActionEngineProperties` with the bounds that show
it: `ExactlyOnceEffects` (the reservation dies with the worker's transaction,
the effect does not), `DispatchedIsTaken` (a worker dies between reading an
entry and the claim, and entries that were read are not read again),
`OnlyTableTransitions` (a duplicate entry claims a READY row), `AttemptsBounded`
(a zombie's retry returns another worker's last attempt) and `ActuatorExclusive`
(two tasks each dispatch a desktop action).

Bounds (`Max...` constants, all named): one lapse lets a zombie exist, two let
it overlap a second zombie; one crash of each kind reaches every recovery path;
three attempts let a retry race a zombie. Each property has a mutant that TLC
refutes under the same bounds, so the interesting case happens.

Fairness (`FairSpec`, only in runs with a liveness property): worker and
scheduler loops run forever and a process manager restarts them, so each
process's steps are weakly fair; leases without a working owner lapse and
backoffs end because clocks advance. No fault is fair. `AE_live` uses the
standalone scheduler because the embedded one swallows a failed publication
and never retries it.

## 4. ApprovalGate

| Model | Code |
|---|---|
| `row[a]` | `actions`: status, the invocation (its parameters, named by their hash), attempt_count; `lapsed` is whether a RUNNING row's lease is past |
| `approval[a]` | the `approvals` rows of an action, oldest first: status, parameter_hash, capability_level, whether `expires_at` has passed, whether `consumed_at` is set |
| `dead` | `dead_letters`, whose `action_id` is unique |
| `entries[a]` | copies of the action's id still undelivered in the stream |
| `working[a]` | the attempts whose workers have not ended, those that outlived their lease included |
| `policy` | the policy file `PolicyStore` reads again when it changes |
| `request[u]` | an HTTP handler between its checks and its commit |
| `sched[s]` | a tick: the approvals `due_for_expiry` returned and the verdict of `PolicyGate.check` on each action it considered |
| `permit[a]` | history: what the last dispatch of the action rested on |
| `redecided` | history: actions with an approval decided, or expired, over an earlier decision |

A tick is three steps, `TickStart` (reap, read what is due), `TickJudge` (expire
what is unanswered, judge READY actions) and `TickCommit`; a decision is two,
`RequestRead` (`_live_action`, `_assert_pending`, `_rewrite`'s check of the
ceiling) and `RequestCommit` (the approval's UPDATE and the CAS of `grant` or
`refuse`). An UPDATE of `actions` expects a status, an UPDATE of `approvals`
does not. Rows a sweep has written stay locked until its tick ends (`Locked`). A
second dead letter or a second PENDING approval of an action rolls the whole
transaction back (`Clash`, `GivesUp`). The promotion, the slots and the backoff
of the engine are reduced to the choice of which READY actions a tick considers,
and a worker to claim, success, retry, failure and death; entries are copied by
`Restart`, as recovery does. The lease of a dead worker lapses, and so does, up to
`MaxLapses` times, that of a live one, whose outcome then meets a row that has
been reaped, judged again or claimed by another: the CAS on RUNNING names no
attempt, and `_finish_failed` writes its dead letter whether or not it matched
(worker.py:491-521). `TickStart` reaps in the step in which the tick begins,
where the reaper has a transaction of its own; what may come between the two
transactions may as well come before it.

`modified_parameters`, the audit records and the summaries shown to the user are
left out; the task's status is in `TaskLifecycle`. A tick judges an action on its row
and its approvals at one instant, where the code reads the rows of a task first
and the approvals of each action after; a claim, a decision or another tick can
still come between the judgement and the commit.

### Runs

| Run | Question | Result |
|---|---|---|
| `AG_leader` | one scheduler, two handlers at once, an edit, a policy reload, a worker that outlives its lease, a restart that publishes again, a rolled-back tick; nobody is obliged to answer | consent is sound, each dispatch spends one, silence releases nothing, a wait ends but for two wedges |
| `AG_races` | two schedulers that both tick, two handlers that decide at once, a worker that dies and one that outlives its lease | one open question; refusals are final |

An approvals row carries no version, so of two handlers that read one question,
or of a handler and the sweep, the second writes over the first. What comes of it
is in the properties: `redecided` holds the actions to which this has happened,
and only these may wait without a question (`WaitingHasQuestion`: the tick found
the question open that is answered by now) or be released by an approval that was
rejected first (`OnlyAnswersRelease`).

`WaitingEnds` excepts two states, and TLC finds a wait without end for each when
its exception is taken out. One is such an action. The other is `Wedged`: a dead
letter of an action that has not ended. A worker that outlived its lease leaves
one (its `_finish_failed` misses the row, which has been reaped, judged again and
now waits), and so do an approval and a rejection of one question. `refuse` then
violates the unique `action_id`, which rolls back the tick that sweeps the
approvals of every task, and again at each next tick.

Four statements of the code's comments and docs are refuted and stand at the end
of `ApprovalGateProperties` without a run: `AttemptsConsented` (a duplicate entry
claims the retried action while it is READY), `RunsWithinConsent` (the same
claim, right after an edit that raised the level), `DecisionIsFinal` (the
sweep overwrites a decision, since an UPDATE of `approvals` expects no status)
and `UnansweredFails` (an approval nobody answers fails closed, FR-305: the wedge
above, with one scheduler, one handler and one lapse).

Bounds: three parameter values, below, at and above the ceiling; policies of
which one denies and one allows; two decisions, enough for one to be written over
the other; one reload, lapse, restart and rollback; two attempts, so that a retry
meets a worker of the first. One action is
enough: nothing here reads another action's row, and one transaction over
several actions differs only in how much a rollback undoes. `AG_leader` and
`AG_races` do not check for deadlock, because there a run can end: with every
action finished or failed no tick has anything to wait for, and a tick can be
wedged by a duplicate dead letter.

Fairness: ticks and workers' steps are weakly fair because their loops run
forever, handlers finish what they began, and approvals fall due as time passes.
Decisions are not fair: users need not answer.

## 5. TaskLifecycle

| Model | Code |
|---|---|
| `task[t]` | `tasks`: status, replan_count; `asked` and `late` are the client and the clock |
| `act[a]` | `actions`: status, error code, whether an approval was granted, retries; ABSENT until it is inserted |
| `step[a]` | the status of the step (one action per step) |
| `tick[s]` | the rows a tick has read and not yet written on; `Idle` between ticks |

A tick (`Scheduler.tick`, `_tick_task`) is one transaction over all runnable
tasks: `TickRead` takes its snapshot and `TickCommit` decides on it and writes
with compare-and-set updates on what is there by then; an exception of the
replanner is `TickAborts`, which undoes it for every task. Between the two,
clients submit, reply and cancel, users answer, and workers claim, finish and
retry. The order inside a tick is that of the code: deadline, resume,
promote, judge and dispatch, start, block, then complete, replan or escalate.
An approval covers one try: a retry is judged again without it. A task without
spare actions (`Spare[t] = {}`) stands for the scheduler built without a replanner
(`NullReplanGate`); one that has them has enough for its budget, since a replanner
can always propose something. `Refuse` is a rejection by a user and also the expiry
of an approval. In the code the latter opens the transaction of a tick, before any
task is read, so a tick that is rolled back takes it along; here it stands.

`TL_tasks`: two tasks, four actions: a chain of two with a spare for one replan,
and an action that needs an approval; one scheduler; a replanner that may raise
at every tick. Two tasks are what it takes for one to undo the other's tick; one
replan reaches a spent budget. `TL_blocked`: two questions in one task, and the
smallest bounds under which an approval granted during a tick leaves its task
waiting over a READY action.

`TasksComeToRest` says that a task leaves the scheduler's hands, by its end or
by `NEEDS_HUMAN`. It rests on the deadline, which is checked before the
replanner is called. Fair are the reads and ends of ticks, workers, expiring
approvals and clocks (loops that run for ever); submissions, replies, answers,
cancellations and the success of a replanner are not. No deadlock is checked: when
every task has ended nothing need happen.

With two schedulers that tick at once, two replans can share one count of the
budget, so that part of `EndsAreFinal` is stated for the one scheduler the lock
allows.

## 6. Cancellation

| Model | Code |
|---|---|
| `task`, `row[a]`, `step[a]` | the committed statuses |
| `attempts[a]`, `ledger`, `dead` | attempt_count, the committed reservations, the dead letters (one per action) |
| `world[a]` | the effect of the action: none, done or undone, and how often it was undone |
| `hand[w]` | what a worker is doing, from its claim to its outcome: claimed, loaded (row and task read once more), executing, signalled by its watcher |
| `req[r]` | a request: the rows it read (`act`, the stale copy its session keeps), what it has still to undo, which pass it is in, its report |
| `overrun[a]` | history: how often the lease of the action lapsed under a live worker |

`Begin` reads, `Mark` is the first transaction (the task and what has not
started), `Undo` compensates one action, `Refresh` is the second look after the
grace period, `Finish` commits the report. The session does not refresh rows it
has already loaded (`expire_on_commit` is off): an action whose CAS failed
because a worker had claimed it stays CANCELLED in that copy (`missed`). Whether
the request compensates is a flag it carries; `Mark` chooses it, since nothing
before reads it. Workers and requests may die at any of their steps.

A worker claims, loads, reserves and executes, and returns any of the outcomes of
worker.py, UNVERIFIED and a retry among them. Its outcome is a CAS on RUNNING that
names no owner. `Reap` takes what nobody has in hand, and up to `MaxLapses` times
what a live worker has: then a second worker claims beside it, and either may
perform the effect, unless the ledger keeps the tool from it (`Idempotent` are the
tools without a reservation). A pass of the reaper is one step per action; in
`Wedged` it is one transaction, which a dead letter it cannot write rolls back. An
entry of the stream may be an old one, so a READY action can be claimed.

`CA_cancel`: a chain of two actions that can be undone, the first of an idempotent
tool with two attempts and one lapse, two workers, two requests, one death of a
worker or a request. What the properties except is what TLC finds there:

* `CancellationSound`: a worker of an idempotent tool that outlived its lease
  performs the effect that its successor recorded and the request undid. The row
  says ROLLED_BACK over a present effect, and the undo may run under that worker
  (`Redoable`). Without a lapse, and with a ledger, neither happens.
* `ReportAccounts`: what escapes the report is the stale copy of a request that
  saw nothing running, and an action that was reaped under its worker, read as
  READY, claimed again and then ended by the first. UNVERIFIED is no success: its
  effect is neither undone nor reported.
* `CancelledComesToRest`: a cancelled task comes to rest unless the reaper is
  wedged, which takes a worker that outlived its lease.
* `UndoneBeforeFoundation` holds within a pass and not across the two (section 10);
  what only the second pass finds is outside it.

Nothing undone twice, no success undone that was not recorded and no ROLLED_BACK
without an undo hold throughout. A second or later request reports that the task
is cancelled already, and its report is not kept. Fair are the workers' claims
and steps, the reaper where it can commit, and the steps of a request that lives.
A cancellation ends, so no deadlock is checked.

## 7. Services: `SV_live`

| Module | State | Actions |
|---|---|---|
| `LeaderElection` | `lock`, the process of each replica, batches committed and never published | `FirstAcquire`, `Recover`, `Reacquire`, `Renew`, `TickCommits`, `PublishBatch`, `Exit`, `Killed`, `StartAgain`, and the lock's two expiries |
| `LocalAgent` | `hub` (the registered connection), the two ends and queue of each connection, the laptop behind it, the rows, Redis | `DispatchJob`, `Register`, `HandlerEnds`, `ConnectionDrops`, `Pump`, `ClaimJob`, `ExecuteJob`, `CommitJob`, `ClusterWorker`, `RecoverJobs` |
| `ModelRouting` | a breaker per provider, health, concurrent calls | `RouteCall`, `AskOrSkip`, `Answers`, `AnswersAlone`, `GiveUp`, `HalfOpens`, `HealthChanges` |
| `VoiceSession` | the session's state, the playback it knows of, the tasks of the event loop | `Speak`, `Listen`, `BargeIn`, `ResetSession`, `LoopTurn` |

Bounds: two replicas, two lapses, two deaths, two batches (a lapse in each
direction, and an orphan to publish again); two jobs, two connections under one
agent id, one recovery (the old handler's cleanup meets the new session); two
providers, two callers, a breaker that opens at two failures, two outages (a
late success, concurrent probes); three speeches (one replaced while its
predecessor's cleanup is outstanding).

Fairness: processes that are up take their steps, locks of the dead expire,
laptops and cluster workers run, cool-downs pass, the event loop turns. Calls
are weakly fair in their steps, and requests keep coming (strong fairness of a
plain request): a breaker closes only by being tried, which the router does only
on request. Nothing is owed while no replica lives, while a connection is down,
or while a provider is not well; the properties say so in their premises.

## 8. Stores and tools: `ST_stores`

| Module | What it models | Bounds |
|---|---|---|
| `AuditChain` | appends under the advisory lock, commits, rollbacks that leave a gap, edits behind the program's back, `verify_chain`; a digest is the tuple it is computed from | 2 writers, 4 appends, 2 edits |
| `WorkflowLearning` | mining hook, accept, reject and suppression, in memory and as transactions of the Postgres store that read before they write | 2 requests, 1 pattern, 2 definitions, 2 rows |
| `SemanticMemory` | ingestion in its three reads and a write, remember, forget, each a transaction | 2 clients, 2 contents, 2 facts, 3 writes |
| `TokenVault` | keyring entry and index; the file loaded, emptied and written, so that a reader may find it empty or mixed; login, rotation, logout, deaths | 2 processes, 2 accounts, 2 tokens, 1 crash |
| `FileTools` | write, copy, move, delete with backup and trash, replay, undo, two actions side by side | 3 paths (a file, a tree, nothing), 2 actions, 1 rerun |
| `GitTools` | `git.commit` as four commands of its own, undo as two (the look at the head, the soft reset), push, kills | 2 committers, 3 commits, 1 kill |
| `ApiTools` | drafts, sends, events, issues, free slots, a service per process | 2 processes, 2 actions, 4 hours, 1 repeat |
| `SurfaceSessions` | browser (fixture and Playwright) and desktop: sessions, three tiers of resolution, points that lie over some nodes or none, typing and consent, verdicts of clicks | 1 process, 2 pages, 6 targets |
| `MediaTools` | cut, join, mute, caption, export and undo on timed words | 3 files, 3 spans, 2 edits |
| `PolicyEvaluation` | classification, parsing, evaluation, the store that re-reads the file, the direct invoke and its trail | 3 calls, 2 documents, 2 edits of the file, 2 invokes |
| `PolicyMatching` | globs fitted mark by mark, tools, workflows and parameters, variables, sensitive paths and hosts | paths of up to 3 of 3 names in 2 spellings, 7 rules, 5 hosts |
| `Verification` | each predicate, with the read-back of what a tool names and of what a specification does, the choice of postconditions, the verdict, and what the worker makes of it | 3 facts, 8 postconditions |
| `Planning` | validation, order, classification, installation with every failure, the repair loop, ticks that overlap | 3 aliases in 2 steps, ceiling 3, 2 ticks, a budget of 2 repairs (the least at which one overlap gives back more than one) |
| `WorkflowMining` | signatures, support, domination, parameters and their binding | 2 mined tasks of 3 or 4 calls, support 2; patterns end at the code's 12 calls, which only the proof reaches |
| `Retrieval` | sections, windows, rank fusion, the search as three statements while the library changes | texts of up to 5 lines, windows of 3 words overlapping in 1; the constants of fusion are the code's (60, 40) |

The pure algorithms among these (Kahn's sort, globs, fusion, chunking, mining,
the free-slot search, target resolution, cues) are checked against definitions
that are written from their purpose and share nothing with them but the helpers on
sequences (`Listing`, `Pieces`, `EndsIn`): a plan is valid
when its dependency relation has no cycle, a pattern covers a path when a
letter-by-letter reading of it does, a phrase is whole when some chunk holds it.
The documents, texts and calls are enumerated in `MCStores`; the borders at which
these algorithms could differ (a window ending at a section, a cut inside a
word, a host that only ends alike, a step that depends on itself) are among
them, which the mutants show.

The concurrent stores have two of each actor, because every race here is
between a reader and one other writer. None of these parts states liveness:
they are called, and nobody need call. Where nothing is called any more a
behaviour ends, so no deadlock is checked.

## 9. Proofs

Each theorem holds for every value of the constants that satisfies the
assumptions the module names (the shape of the plan, of the policy, of the
documents; that a limit is a number); where it needs more, the theorem says so
as its own hypothesis. The pattern is always the same: a strengthening that
every step preserves (`...Inv`), a lemma per action or per group of actions
that do the same to a row, and a last step that joins them.

`ActionEngineProofs`, for every plan, every set of processes and every bound:

* `TypeCorrect`.
* `LeaseSound`, `ResultSound` and with them `RowsSound`, and `OutcomesAreFinal`,
  from `RowInv`. One lemma, `RowMoves`, lists everything a step can do to a row;
  every later argument about rows is a case split over it. Finality needs the
  lease invariant: the only unguarded write of a row is the passing of its lease.
* `SnapshotsSound`, `DependenciesFirst` and with them `DependenciesSound`, from
  `DependencyInv`: a decision on a stale snapshot is safe because what the
  snapshot saw ended has not moved.
* `EngineImplementsPlan`: each step of the engine is a step of `PlanExecution`
  or leaves its phases alone.
* `ReservationsExclusive`, `LedgerDeduplicates` from `LedgerInv`: every effect
  of a non-idempotent action is accounted for by a lost transaction, by the
  committed ledger row or by the one open transaction that holds the
  reservation. `SuccessIsReal` from `SuccessInv`. Together they are
  `EffectsReal`.
* `DispatchBounded`, from `DispatchInv`: the entry of a dispatched action is in
  exactly one place, the stream, a worker that has received it or the batch the
  dispatcher is about to publish, and when a tick writes, its snapshot counts
  all that is in flight. It assumes one dispatcher (`SoleDispatcher`) and that
  no publication is lost or repeated (`FaultFree`: no scheduler crash, refused
  XADD or flush, and no worker that dies between reading an entry and claiming
  it). Each of these alone breaks it, which is what recovery is for; leases may
  lapse and workers may die anywhere else, and the plan and its limits are any.

`ApprovalGateProofs`, for every set of parameters, policies, handlers and
schedulers and every bound, from `GateAssumption` (a task has an action, and
installation has put every action under its ceiling):

* `GateTypeCorrect`. That the gate's choice among approvals is one of them
  (`LatestIsOne`) comes from the well-foundedness of the naturals.
* `RefusalsAreFinal`, from `RowMoves`: the ways in which a step may move a row.
* `CeilingRespected`, from `CeilingInv`: the row, and every edit that has passed
  its check and not been written, are under the ceiling.
* `OneQuestion`, from `QuietMoves` and `CommitMoves`: only a commit adds a
  question, and not while one is open that it does not expire itself.
* `DispatchIsCovered`, `DispatchesSpend`, under `SoleScheduler` (at most one
  scheduler, the leader), from `DispatchInv`: between a judgement and its commit
  nothing can make the row wait for the user, so neither the row nor the
  approval it rests on can be edited, and no one else spends the approval. With
  two ticking schedulers both can rest a dispatch on one approval; when there
  are two is `LeaderElection`'s subject. `ConsentIsSound` joins these with the
  ceiling.
* `WaitersAreAsked` and `SilenceIsNoConsent`, under `SoleScheduler` and for any
  number of handlers that decide at once, from `WaitingInv`: unless an approval of
  the action has been decided twice, a decision under way is about the open
  question of an action that waits or that the sweep has failed, and a question
  that a tick found open is open when the tick commits.

`TaskLifecycleProofs`, for every plan, verdict, budget and order of events under
`SoleScheduler`:

* `EndsAreForGood` (`TasksEndOnce`), from `LifeInv`: `TaskInv` says what an ended
  or unplanned task can have outstanding, and `SnapshotInv` in which ways the
  rows a tick has read can have moved by the time it writes. The latter makes
  the property inductive: a commit writes on today's rows what it decided on
  yesterday's.
* `RowsOfTasksAgree` (`TasksAreSound`), from `SoundInv`, which adds why an action
  is failed or cancelled (`CodeInv`), that what a tick read ended is as it read
  it (`ReadInv`), and that replans, repairs that have rows and withdrawn actions
  are equally many (`CountInv`).

`StoresProofs`, for any number of clients, rows, writes and crashes:

* `ChainHolds`, from `ChainInv`: one transaction holds the chain, and in the log,
  and in what each transaction sees, every row names the greatest one before it
  and is sealed over what it said when it was appended.
* `VerdictsRestOnLooks`, for every list of up to two postconditions a tool may
  carry: a case split over the outcome of each predicate.
* `RejectionsHold`, from `LearningInv`: every step is one of four moves of the
  rows, and a rejected row's pattern is suppressed. What the property excepts,
  overlapping transactions of the Postgres store, is in its statement.
* `MemoryKeepsFaith`, from `MemoryInv`: there is one document, its chunks were
  written since it was, and nobody has read a version that was not written.
* `VaultKeepsTokens`, from `VaultInv`: between its steps a process holds only
  the index, or tokens of some earlier moment; and a file that cannot be read has
  a process that is writing it, or was spoiled by a death or an overlap.
* `DirectCallsAreGoverned` (`PolicyHolds`), for every call, document and edit,
  from `PolicyInv`: of the file and the copy, of the invoke under way, and of the
  trail. Lemmas about the pure part, `ClassifyGrows`, `RaisingKeepsStrength` and
  `RaisingIsExplained`, hold for every document; that raising never weakens is
  stated of policies whose defaults grow with the level and whose rules name
  levels only where they allow, since another policy can say otherwise on purpose.

`ServicesProofs`, the safety parts of the four properties of `SV_live`:

* `OnlyLapsesMakeTwoLeaders`, for any number of replicas, exits and deaths, from
  `LeaderInv`: whoever ticks without the lock has outlived its time to live.
* `OneVoiceAtATime`, for any number of speeches, from `VoiceInv`: what was never
  begun is not alive, and what is alive is the playback the session can cancel.
* `SensitiveNeverLeaves` and `ProbesReopen`, for every configuration, threshold,
  window and number of calls, from `RoutingInv`: all that a sensitive call has
  left to try is local, and a breaker that is not closed still has the failures
  that tripped it, so one failed probe trips it again.
* `JobsAreNotLost`, for any number of jobs, connections, drops and restarts, from
  `AgentInv`: what a connection has queued or its laptop holds it had accepted,
  a laptop that has claimed a row is alone with it, and the row of a recorded
  execution has ended. It takes the set of jobs to be finite, since recovery hands
  out all dispatched rows in one list.

`ToolsProofs`, for any number of processes, actions, kills and reruns:

* `SurfacesActOnWhatIsSeen`, for every page and target: the tiers of resolution
  are compared with what they are for, and `SurfaceInv` says that what was
  clicked can still be found where it was.
* `ServicesKeepTheirBooks`: drafts and messages come from runs that were made
  (`ApiInv`), and the search for free slots finds the earliest that fit, for
  every calendar, span and count.
* `UndoLeavesOthersAlone`, from `GitInv`: what an action knows of its own commit
  while nobody else has moved the head, and that what lies between its looks was
  made in that time. A parent is older than its child, so what a commit reaches
  is well defined (`ReachOf`).
* `UndoPutsBack`, from `FilesInv`: for each tool, what a stored output must say
  for an undo to restore what was there, as long as nobody disturbed it.

`PlanningProofs`, of plans and mined workflows:

* `PlansHold`, for every document, level and budget and any number of ticks,
  from `PlanInv`: counts (`CountsFit`), rows (`RowsFit`) and, while no ticks
  overlap, places (`PlacesFit`). That validation accepts exactly the plans that
  can finish is the correctness of Kahn's sort: `KahnInv` relates the queue, what
  is open and the order after each turn, and a turn that finds no queue leaves a
  set in which everybody waits for somebody in it. `PlanningAssumption` says that
  steps and actions are numbered as in the document and that no step is without
  an action (plan_spec.py:27).
* `HabitsBecomeOffers`, for every history and thresholds: what enough tasks
  share is frequent, and among the frequent patterns around it one is dominated
  by none, by the length of the longest.

`PlanningProofs`, of cancellation, for every plan, set of reversible actions,
number of requests and of deaths:

* `CancellationIsSound` and `FoundationsLast`, from `CancelInv`: which hands may be
  at an action at once (`HandInv`: two only after its lease lapsed under one), the
  world and the rows agree (`WorldInv`), at most one request has won the task and
  what is undone is what that one has reported (`WinnerInv`), and what it still
  has to undo is recorded and there, with all it was built on (`RequestInv`).
* `ReportIsComplete` (`ReportAccounts`), from `AccountInv`: a recorded success at
  risk of being left is among what the winner has yet to undo, what it has
  listed, what it saw running, the stale copies it missed, or what it read as not
  started after a lapse under a live worker.

`TextProofs`, of what is read, cut and written of texts:

* `EditsKeepEveryWord` (`EditsKeepWords`), for every set of recordings, spans and
  lengths of cue and any number of edits and undos, from `MediaInv`: each file is
  a clip whose words follow one another in time (`MediaTypes`), and each file that
  is not a recording has an edit that made it (`MediaReasons`). Muting all that the
  detector reports clears it, since a mute silences its words and marks no other;
  the cues say what the words say, by an invariant of the fold over the words
  (what is closed, what is open, and that the two together are all that was heard).
* `EveryAnswerIsGrounded` (`AnswersAreGrounded`), for every document, levels of
  headings, window and overlap, and every change of the library while a query
  runs. The stack of headings at a line is the headings still open there; a window
  starts where the one before has its last words, so a phrase that fits the overlap
  lies whole in the last window that begins no later than it; what both rankings found
  scores above what one did, by arithmetic on the constants 60 and 40; and
  `RetrievalInv` says how far a query has got and that an answer is what was there
  of the first `k` of the fused order.
* `PatternsReadAsTheTable` (`RulesReadAsWritten`), for every policy and call:
  what `_translate` makes of a pattern, fitted mark by mark, is what the table of
  matching.py says segment by segment. A path is cut at its separators
  (`CutsCover`), a segment of a pattern fits a segment of a path (`SegmentFits`),
  and the two readings agree from the last segment backwards (`PathFits`); for
  domains, a text that ends in a dot and a name ends in its labels (`EndsInLabels`).

`MediaAssumption`, `RetrievalAssumption` and `MatchingAssumption` say what is taken
for granted: recordings whose words are in order; an overlap shorter than the
window, as 64 and 512 are, and at most 40 places in a ranking; patterns in which
two stars are a whole segment and a class stands only in names of tools. The last
one is the table's own domain: beside it the regular expression and the table part
(section 10).

The proof of `AnswersAreGrounded` found it too strong as it stood: a chunk that
was there all the time may also be missing because 40 others are nearer. The
property now says so; the bounds of `ST_stores` hold fewer chunks.

These three algorithms filter, sort and fold sequences. `Listing` defines a sorted
list as the function from places to the item with so many before it; that it
exists and is in order is proved by cardinality (`ListedIs`), and filtering is the
sorted list of the places that are kept (`PickedIs`).

Loops (Kahn's sort, the free-slot search, the ancestry of a commit, the cutting
of a text, the cues of a clip, the marks of a pattern) are written as recursive
functions; that such a function exists is a lemma of its own (`RepeatExists`,
`WalkExists`, `ReachOf`, `StepsExist`), and facts about each turn are proved by the
least turn at which one would fail, which takes only the well-foundedness of the
naturals.

### Only model-checked

Every invariant a run checks is also a theorem. What stays with TLC is liveness,
alone or joined with safety in one property:

* `ReadyEventuallyEnds`, `WaitingEnds`, `TasksComeToRest` and `CancelledComesToRest`
  are liveness under fairness, and so are parts of `LeadersServe`,
  `JobsAreAccountedFor`, `RoutesRecover` and `SpeechEnds`, each of which joins
  safety with liveness: fairness and `ENABLED` are out of the provers' reach. The
  safety parts of these four are the theorems of `ServicesProofs`; their liveness
  stays with TLC.

## 10. What does not hold

Violated by a run, and listed as findings:

* A zombie's dead letter wedges the reaper (`AE_reaper_wedged`).
* A task is blocked over an action that was released during the tick
  (`TL_blocked`).

Statements of docs and comments that the models refute (the operators named are
in the properties modules; the others were met while modelling, are excepted in
the property named, and have no run of their own):

* Engine and gate: the nine statements named in sections 3 and 4.
* Cancellation: docs/07-EXECUTION-ENGINE.md:236 promises reverse topological
  order; an action that succeeds during the grace period is undone after what
  it stands on (cancel.py:182). A second request or a restart never resumes the
  compensation of one that died. A success after the grace period with
  `compensate=false` is in no list. A worker of an idempotent tool that outlived
  its lease performs again what was undone, and may do so during the undo, which
  cancel.py:16-20 excludes. What ended UNVERIFIED is neither undone nor reported.
* Tasks: docs/07 sends VERIFICATION_FAILED to replanning, replanning.py:38-41
  refuses it. A PLANNED dependent of a failed action keeps the task from
  replanning until its deadline; actions dispatched before a deadline still run.
* Plans: a plan that fails while it is installed is marked FAILED, and the
  rollback of the same transaction removes the mark and the task (planning.py:22-84).
  Two equal calls of one step share an idempotency key and cannot be installed.
  A tick that overlaps another writes the replan count it read plus one, and
  does not look whether its CAS on the failed action took (replanning.py:55-66):
  the count can go back, so each overlap can give back the whole budget.
  The catalog offers tools by base level, and taint then refuses the plan.
* Policy: an allow rule without a level that covers an L4 call makes `evaluate`
  raise inside the tick's one transaction, at every tick. policy.py:11-13 says a
  truncated edit cannot drop a rule; a truncated file that still parses does,
  until the write ends. A file changed within its timestamp and size stays stale.
* Patterns: `tool: "*"` counts as a match that is not empty; a variable's glob
  characters become part of the pattern; parameters nested deeper than six
  levels are not looked at; `d/**` does not cover `d`. Outside the table of
  matching.py, `x**y` and a class such as `[!a]` in a path match across separators.
* Files: fs.py:3-5 promises an undo; an action that ran again backed up its own
  writing. Two actions between check and act overwrite without a backup.
* Git: a head moved by somebody else between the two looks makes the undo drop
  both commits, and so does one made between the undo's own look and its reset;
  a replay commits twice; a soft reset leaves the index.
* APIs: a replay creates a second event, and reports a sent draft as missing.
* Surfaces: after a fixture page and then a live URL, actions still go to the
  fixture; `browser.select` sets a password field without consent; under
  Playwright a click always fails verification.
* Media: an edit that overwrites a clip it reads, or another, cannot be undone;
  partly overlapped words stay audible.
* Verification: `value_equals` looks only at the tool's own result; calendar
  read-backs have no method unless the postcondition names the event.
* Learning: overlapping transactions of the Postgres store insert a pattern
  twice, propose one that was suppressed, or revive one that was rejected.
  Within one plan the mined order is arbitrary, since creation times are equal.
* Memory: digest and text are two reads of the file; overlapping ingestions leave
  two sets of chunks; episodes carry no entity ids, so a forget deletes none.
* Tokens: the file store empties the file before it writes it (oauth.py:169), so a
  death in between, or two writes over one another, lose the tokens of every
  account, and every later read and login raises; a logout is undone by a rotation
  that overlaps it.
* Routing: a late success closes a breaker that has opened since.
* Voice: the cleanup of a cancelled playback sets "idle" under the speech that
  replaced it. Local agent: the cleanup unregisters whichever session holds the id.

## 11. Not modelled

| Part | Why |
|---|---|
| Long-running tasks (`orchestrator/longrun.py`) | a fixed list of phases and a harness that drives it; what it installs is in `Planning` |
| Model providers, embeddings | clients of external services and numeric code; any answer and any failure is possible in `ModelRouting` and `Planning` |
| API routes, schemas, command line | translation of requests into calls of the services modelled, and printing |
| Blobs, migrations | the schema's constraints are in the models of what uses the tables; migrations run once, offline |
| Metrics, traces, logging, settings | they decide nothing |
| Response cache and token accounting of the router | a lookup and a sum; they do not change which provider may be asked |
| Text extraction, episodes, graph reads | formats of documents; queries without a decision |
| Subprocesses, tool registry, reports, web reads, camera, screenshots, ffmpeg | behaviour of the operating system or of an external program |
| Signal processing, perception, wearable, gym | numeric code and simulators; the voice session that uses them is modelled |
| Policy simulation, regression gate, evaluation harness | development tools |
| Text of YAML, prompts, summaries | wording |

Of the modelled parts, `PROJECT.json` says in each component's note what is left
out, and these simplifications bear on what a property says:

* `AuditChain.Tamper` changes what a row says, not its hash, its link, nor whether
  it is there. `verify_chain` recomputes and compares both for every row, so a
  changed hash or link, and a removed row that is not the last, are found at that
  row or the next; a row forged with a matching hash is found only at the row after it, and
  rows cut off at the end are not found at all.
* `PolicyEvaluation` has the thresholds of escalation at their defaults, which a
  policy file may set.
* `FileTools` writes and copies a file in one step, where `write_bytes` and the
  `unlink` before `copytree` can be cut short by a death. What a death leaves there
  is then a partial file or none, and the next attempt takes it for the state to
  restore: a repeated action, which `UndoIsSafe` excepts anyway.
* `WorkflowMining.Dominates` looks for a pattern inside another; the code looks for
  its joined keys inside the other's (mining.py:101), where one key may also end
  or begin like another.
* `LocalAgent` has one ceiling for agents and jobs; a job above the agent's ceiling
  goes to Redis as one without an agent does.
* `VerdictsAreSeen` speaks of checks that could look; a check without a method
  proves nothing, for or against.
* Repeated creations of an event and repeated sends (section 10) are outside
  `ApiEffectsHold`.
* Times and captions in `MediaTools` are whole numbers, where the code rounds. Reads at one instant where the code issues several statements are named in
sections 3 to 6; a wait's length (backoff, TTL, timeout) is everywhere the
choice of whether it has passed.
