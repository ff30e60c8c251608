# AgentCost: TLA+ models, checks and proofs

AgentCost records what LLM calls cost, enforces budgets and policies on them, and
serves the result over an API. This directory holds TLA+ modules for the parts of
it that keep state or decide, TLC configurations that check them on small
instances, and TLAPS proofs of the main properties for every size. `PROJECT.json`
maps every definition to the lines it models and lists components, runs, hazards
and theorems.

    tlc -workers 2 -config Alerts.cfg MCAlertPipeline     # a run
    tlapm AlertPipelineProofs.tla                         # the proofs of a module

## 1. The system

Python package `agentcost` (paths below are relative to `src/agentcost`). All
services share one database; SQLite by default, Postgres in the enterprise edition.

| Component | State | Operations | Talks to |
|---|---|---|---|
| Prompts (`prompts`) | tables prompts, prompt_versions, prompt_deployments | create, new version, deploy, resolve, delete | database |
| Approvals (`policy/approval_service.py`, `policy/routes.py`) | table approval_requests | create, approve, deny, list (expires stale ones) | audit log |
| Policies (`policy`) | table policies | evaluate, dry_run, create, change, toggle, delete | gateway, API, audit log |
| SDK cost tracker (`sdk/trace.py`) | totals, traces, budget flags | record, set_budget, reset, callbacks | event bus, remote tracker |
| SDK remote tracker (`sdk/remote.py`) | buffer, timer, counters | start, stop, flush, callback of record | cost tracker, server (HTTP) |
| Event bus (`events`) | history, callbacks, SSE queues, webhooks | emit, subscribe, unsubscribe, delivery threads | everything that emits |
| Reaction engine (`reactions`) | rules, cooldown and history tables | called back by the bus, trigger, reset, CRUD | bus (nested emit), notifications |
| Heartbeat (`heartbeat`) | cycles, budgets (database), paused agents (memory) | start/end cycle, record_spend, pause, resume | bus, plugin registry |
| Goals (`goals`) | tables goals, goal_spend | create, move, delete, record_spend, budget check of a subtree | database |
| Budgets (`cost/budget_service.py`) | table budgets | set, delete, check_can_proceed | event store |
| Budget gate (`intelligence/budget_gate.py`) | spend, budget | check, record_spend, reset | calculator |
| Model choice (`router`, `intelligence`) | registered models, tiers, recorded calls | route, recommend, classify, check a tier policy, analyze | calculator |
| Prices (`cost/calculator.py`, `sync_upstream.py`, `model_routes.py`) | price maps, the vendored file | load, reload, register, sync, resolve a name, cost of a call | everything that costs |
| Chargeback (`cost/cost_center_service.py`, `allocation_service.py`) | tables cost_centers, allocation_rules | CRUD, report, summary | traces, audit log |
| Gateway (`gateway`) | response cache, rate windows, statistics | chat_completions, cache and statistics admin | providers, trace endpoint |
| Semantic cache (`gateway/semantic_cache.py`) | entries, index per model | get, put, clear | nothing yet |
| Organizations, teams, invites (`org`) | tables organizations, users, invites | create, invite, accept, revoke, resend, roles, leave | audit log |
| Audit log (`org/audit_service.py`) | table audit_log, a hash chain per organization | log, verify_chain | everything |
| Authentication (`auth`) | cached keys of the provider, session cookies, failures per address | check a token, key or cookie; sign in and out; rate limit | identity provider |
| Plugins (`plugins`) | registry, agent states, in-memory traces | load, unload, activate, transition, record | bus |
| Notifications (`notify`) | channels, scorecards | CRUD, dispatch, grade | chat services (HTTP) |
| Ingestion (`otel`, `data/events.py`, endpoints of `api/server.py`) and reports (`analytics`) | table trace_events | OTLP, single and batch traces; queries, breakdowns, trends, chargeback | everything that reads traces |
| Feedback (`feedback`) | table trace_feedback | submit, delete, quality per model, project, prompt version | trace_events |
| Forecasts (`forecast`), anomalies (`anomaly`) | daily costs; rolling baselines, cooldowns | add traces, predict; ingest, reset | traces, tracker callbacks |
| Simulator scenarios (`simulator`) | table of scenarios | save, update, delete, read | database |
| Database layer (`data`) | connections | execute, fetch, transaction | all services |

The rest (API server, CLI, integrations, thin clients, examples, optimizer) is listed
in `PROJECT.json` with the reason it is not modelled.

**How they interact.** `CostTracker.record` runs its callbacks in the calling thread;
the remote tracker and the anomaly detector are such callbacks, and budget thresholds
go to `EventBus.emit`. `emit` calls the reaction engine in the same thread, then fills
the SSE queues, then starts one thread per webhook. The engine's `escalate` action
calls `emit` again from inside that callback. API routes write the audit log after the
service call. The middleware looks at an address's failures before the request is
served and counts the outcome after it. Everything else meets in the database: what
the gateway, the SDK and OTLP store in trace_events is what budgets, scorecards,
feedback, reports and forecasts read.

**Grain of atomicity.** The database adapters open a connection per call and commit it
(`data/sqlite_adapter.py`, `data/postgres_adapter.py`); no modelled service uses
`transaction()`. So one `execute` or `fetch_*` is one step, and a service method is a
sequence of steps in which other processes may interleave. FastAPI handlers that are
`async def` without an `await` do not interleave inside one process, those that are
`def` run in a thread pool, and several processes may share the database. State in
memory that several threads reach without a lock is modelled statement by statement.

**What is hard.** Check-then-write in two calls (prompts, approvals, invites, roles,
budgets, audit chain, scorecards, scenarios); a process that dies between two calls;
callbacks and timers that race with stop and start (remote tracker, bus); nested emits
under a lock; trackers, caches and baselines without a lock; queues, buffers and caches
at their limit; retries of what was already stored; cached keys and prices that
are stale when used; a subtree that changes while it is walked.

## 2. Modules

    ApprovalLifecycle <--implements-- Approvals <-- MCApprovals
    Ledger            <--implements-- AuditLog
    EventBus <-- Reactions <-- AlertPipeline <-- MCAlertPipeline
    ModelRouter <-- Intelligence
    Ingestion, Feedback, Forecast, Anomaly <-- Scenarios

    checked by TLC in                proved in             what
    MCPrompts                        PromptsProofs         Prompts
    MCApprovals                      ApprovalsProofs       Approvals
    RemoteTracker                    RemoteTrackerProofs   RemoteTracker
    MCAlertPipeline                  AlertPipelineProofs   AlertPipeline
    MCOrganization                   OrganizationProofs    AuditLog, Membership
    MCGateway                        GatewayProofs         Gateway, SemanticCache
    MCSpending                       SpendingProofs        CostTracker, Heartbeat, Goals, Budgets,
                                                           BudgetGate
    MCServices                       SpendingProofs        Chargeback
                                     ApprovalsProofs       Policies, Pricing
                                     PromptsProofs         ModelRouter, Intelligence
    MCPlatform                       RemoteTrackerProofs   Plugins
                                     AlertPipelineProofs   Notify, Ingestion, Feedback, Forecast,
                                                           Anomaly, Scenarios
                                     OrganizationProofs    Access

All proof modules use SumLemmas. `Scenarios` extends the four modules before it only to put their
properties together (`InsightsSound`); they share no state.

An MC module that gathers components which share no state chooses one of them in
`part` and leaves the others in their first state, so that one run checks each of them
without multiplying their states. Definitions named `Mut...` stand next to the
definition they vary: each is a plausible mistake in that piece of code, and shows that
the properties can fail. Variables whose comment says *history* record what happened
for a property to look at, and no guard of the code reads them.

### Prompts, approvals, remote tracker

**Prompts** (`prompts/__init__.py`). `row`, `name`, `latest`, `versions` and `deployed` are
the three tables; `call[w]` is the next database call of worker `w` with its locals. One
action per database call: `CreatePrompt`, `ReadForVersion`, `InsertVersion` (with the UNIQUE
constraint as `NumberFree`), `BumpLatest`; `StartDeploy` to `Redeploy`; `StartResolve` to
`Fetch`; the three deletes of `delete_prompt`; `Crash`. `purged` and `released` are history.
Content, tags and configuration are payload. Properties: versions are contiguous,
deployments point at versions that exist, races alone never block `create_version`
(`FreeUnlessDied`), `latest_version` only grows, and the latest version is served in
place of the deployed one only while a deploy is in progress (`FallbackOnlyDuringDeploy`).

**Approvals** (`policy/approval_service.py` and its routes). `Create`, `ReadPending` and
`WriteDecision` (the two calls of approve and deny), `Audit` (the route's log entry), `List`
(which starts with `_expire_stale`), `Crash`, `Tick`. One uvicorn process is one worker.
**ApprovalLifecycle** is what the module docstring promises: pending, then one final status.
Several workers break it (section 5), one worker keeps it (`KeptBySingleProcess`).

**RemoteTracker** (`sdk/remote.py`, and the callback loop of `CostTracker.record`). Threads:
applications that record, the main thread that calls start, stop and flush, and the timer
chains. `batch[th]` is the batch a thread took under the lock and has not posted yet. `timer[t]`
is a chain of `threading.Timer` objects: `Fire`, `Swap`, `Send`, `CheckRunning`, `Rearm`.
Items are pairs of an event and the registration that forwarded it, so that a doubled
registration shows. `sent`, `failed` and `dropped` are the sets behind the counters.

### Alerts

**EventBus** (`events`). `phase[e]` is where the emit of `e` is: `Publish` (history, under the
lock), `CallEngine` and `EngineReturns`, `PutStreams` (under the lock), `StartDelivery`.
`delivery[h][e]` is a delivery thread: `Delivered`, `AttemptFails`, `GiveUp`, `MayDisable`; the
increment and the comparison of `_failures` are two steps. `sub._failures += 1` itself is one
step, which CPython 3.10 and later (the package requires 3.10) gives, since it does not switch
threads inside that expression. `Hooks` are subscription objects of one URL; a
new subscription replaces the old one, whose running deliveries go on. `got` and `late` are
history.

**Reactions** (`reactions/engine.py`). `at[e]` is where the handling of `e` is. `CheckCooldown`
takes the lock and reads the row, `FindRow` and `SetCooldown` are the other two database calls,
then the lock is released and `Act` and `Persist` follow. `ResetCooldown` does not take the lock.
`Configure` stands for add, remove, enable, disable and reload. The lock belongs to one process;
the model has one server process. `Start` is Unix time, far above any cooldown, so that
"no row" (0) never looks like a recent firing.

**AlertPipeline** composes the two: `Callback` is `CallEngine` and `_on_event` in one thread,
`Escalate` publishes from inside `Act`, which is over when the nested emit has returned
(`EscalationOver`), and `Trigger` is the API call that runs a reaction without an event.

### Organizations

**AuditLog** (`org/audit_service.py`). `rows[o]` is an organization's log, `pending[w]` the entry
a caller of `log` is about to insert: `LogRead` reads the last hash, `LogInsert` inserts,
`LogLost` is a caller that dies or an INSERT that fails, `PurgeLog` the deletion of the
organization. A hash is the sequence of events it covers, which takes SHA-256 to be injective.
`Misfits`, `Valid` and `FirstBroken` are `verify_chain`. **Ledger** is what callers are promised:
an append-only list; `Promised` is the instance with the mapping `EventsOf`, `AskedOf`.

**Membership** (`org`, provisioning in `auth/routes.py`). Users, invites and roles; a request's
database calls are its steps (`StartChange`, `CountAdmins`, `WriteChange`; `CheckPending`,
`InsertInvite`; `StartAccept`, `InsertUser`, `MarkAccepted`; ...), with `Audit` at the end and
`Crash` anywhere. `disturbed`, `emptied` and `resent` are history: which organizations had
overlapping changes, which were emptied by creation or deletion, which invites were resent.

### Spending

**Gateway** (`gateway/__init__.py`). One event loop: a handler is suspended only while the body
arrives and between the chunks of a stream, since the provider is called with blocking I/O.
`Arrive` to `End` are the ways of a chat completion, `Posted` the trace threads, `ClearCache` and
`ResetStats` the maintenance endpoints. **SemanticCache** is the alternative cache, checked alone.

**CostTracker** (`sdk/trace.py`): `record`, `set_budget`, `reset` statement by statement, since
the class has no lock. **Heartbeat**: the shared cycle object, the paused set, the database rows,
`Restart`. **Goals**: the forest, and `Pop`, `ReadChild` as the walk of `_get_all_descendants`, which
remembers nothing it has seen; what it should find, `Subtree`, is the least set that holds the goal
and with a goal its children. **Budgets**: the one table both budget services write, and
traces as `log_trace` writes them. **BudgetGate**: thresholds and downgrade chains.

### Services

**Policies** (`policy/engine.py`, `policy_service.py`, `routes.py`): conditions, the first match,
`DryRun` against `Evaluate`, routes and their audit entries. **ModelRouter**: the four strategies,
fallback, `recommend`. **Intelligence**: the tier registry, a singleton loaded lazily, model by
model, by several threads; the complexity score and `TokenAnalyzer`, on counts of signs.
**Pricing**: price maps loaded by threads while a sync rewrites the file, name resolution in its
six steps, the paged registry. **Chargeback**: centers, rules, the join of traces with rules.

### Platform

**Plugins** (`plugins`): slots and names under concurrent load and unload; of the built-in
plugins, `transition` as read, write, history, event, and the tracker that drops its oldest traces.
**Notify** (`notify`): a dispatch works on the channels it read, while they are
edited; grades, and the row that is looked for and then written. **Ingestion** (`otel`,
`data/events.py`, `analytics`): span to trace with the conventions tried in order, payloads stored
trace by trace with a failure anywhere, what is sent again, and the reports over the latest
traces. **Feedback**: scores joined with traces by an id nothing makes unique. **Forecast**: one
entry per day and batch (`Aggregated`), whose place in the sorted list is its rank (`Position`);
regression and exponential smoothing as integer numerators over a common denominator, compared by
cross multiplication. **Anomaly**: `ingest` as look up, check, add,
deduplicate, by several threads, and the two resets. **Scenarios**: a write followed by a read of
the newest row. **Access** (`auth`): the cache of the provider's keys (`MustFetch`, `RingFor`),
whom a request is taken for (`Method`), sign-in, refresh and sign-out, and the limit on failures
as `Enter` before and `Leave` after the request.

## 3. Runs

| Run | Properties | Bounds |
|---|---|---|
| `prompts` | `VersionsContiguous`, `DeployedExists`, `FreeUnlessDied`, `LatestOnlyGrows`, `FallbackOnlyDuringDeploy` | 3 workers that may die, 1 prompt, 1 environment, 3 versions |
| `approvals` | `ExpiredOnlyLate`, `AuditedUnlessDied`, `SettledIsFinal`, `KeptBySingleProcess` | 3 workers that may die, 2 requests, clock to 3 |
| `remote` | `Conservation`, `RunningIsFlushed`; live: `EventuallyOut`, `StoppedTimersEnd` | 2 application threads, 2 timer chains, 2 events, batches of 2, 2 starts |
| `alerts` | `StreamsHaveNoGap`, `FiringsSpaced` | 3 events (one an escalation), 2 reactions, 1 stream of capacity 2, history of 2 |
| `webhooks` | `DisabledAfterFailures`; live: `EmitReturns`, `DeliveriesEnd` | 2 matching events and an escalation, 2 attempts, limit 2 |
| `organization` | `InvitesConsistent`, `AdminRemains`; `ChainSound`, `BreakStays`, `ImplementsLedger` | 2 workers that may die, 3 people, 2 organizations, 2 invites, 4 requests; 2 writers, 2 events, 4 entries, limit 3 |
| `gateway` | `RateHeld`, `Accounted`, `LiveAnswersStay`; `SemanticSound` | 3 requests, 2 projects, 3 keys, 2 cached answers, 2 requests per window of 2; 4 prompts, 2 entries, 3 puts |
| `spending` | `TrackerSound`, `HeartbeatSound`, `GoalsSound`, `TenantsApart`, `GateHolds` | 2 threads, 4 uses; 2 callers, 3 cycles; 3 goals, 2 changes and a check; 2 organizations, 4 calls; 2 nodes, 6 questions |
| `services` | `PoliciesSound`, `ModelChoiceSound`, `PricesSound`, `ChargebackSound` | 2 admins, 3 policies, 4 writes; 3 models; 2 readers; 2 loaders, 2 syncs, 4 names; 2 organizations, 2 centers, 2 rules |
| `platform` | `PluginsSound`, `NoticesSound`, `InsightsSound`, `AccessSound` | below |
| `budget_overspent` | finding | as `spending` |
| `pricing_dated` | finding | as `services` |

What the gathered properties say:

* `ChainSound`: `verify_chain` reports a fault only where calls of `log` overlapped each other or a
  deletion, and an entry that is edited is exactly the one it names, if among the `Limit` oldest.
  `BreakStays`: the first broken entry stays the first. `ImplementsLedger`: the refinement.
* `InvitesConsistent`: two pending invites of one address need a resend or an overlap; an
  accepted invite ends accepted and audited. `AdminRemains`: the last admin stays.
* `Accounted`: hits and misses add up per project and per model; a request is traced exactly once
  but for streams cut short. `LiveAnswersStay`: what may leave the cache, and why.
* `TrackerSound`: the unlocked totals are those of the traces; alerts are sent when true, once.
  `HeartbeatSound`: recorded spend reaches the database, "exceeded" once per pause. `GoalsSound`: a
  check counts each goal once, the walk ends, no spend is inherited. `TenantsApart`: one
  organization never writes another's limits. `GateHolds`: the overshoot is that of the calls let
  through at once; downgrades descend.
* `PoliciesSound`: first match decides, `dry_run` agrees, changes are audited. `ModelChoiceSound`: a
  routed model meets its request, asking for less costs no more, advice is never circular, tiers
  are ranges of the price and current, more signs never lower a level. `PricesSound`: a loaded map
  is the file's, savings and charges make the full price, pages show every model once.
  `ChargebackSound`: a full allocation hands on every cent, no trace is overcharged.
* `PluginsSound`: slots match names; histories are legal lives, told in order; totals agree.
  `NoticesSound`: no message crosses organizations, no channel is skipped; better agents are never
  graded worse. `InsightsSound`: an acknowledged payload is stored whole; the reports of a project
  tell one story; quality adds up where no trace is stored twice; predictions do not depend on
  batches, lines are continued, a budget lasts as long as is said; a baseline is the last readings
  since its reset and an anomaly is announced once per cooldown; a scenario is what its own
  organization wrote. `AccessSound`: a withdrawn key opens no door for longer than the cache lives, a
  good token is refused only for stated reasons, failures per window stay bounded.

Bounds of `platform`: 6 plugins, 3 loads, 2 threads; 2 agents, 4 moves, histories of 3, 2 traces
kept of 4; 2 channels, 4 edits and a dispatch; 2 graders, 2 tasks; 2 payloads of 2 and 3 spans, 3
sends, reports of the latest 2; 3 feedbacked traces, 3 rows; 2 batches of 2 traces on 4 days; 2
threads, 3 readings, baselines of 2; 2 scenarios, 3 writes; 1 key rotated twice, 4 tokens, 2
requests of one address and a limit of 1.

**Why the bounds are enough.** Each is the least at which the interesting case happens, plus
one where the run stays short. A third worker can act between any two steps of two others.
Three versions let one call be overtaken by two. Prompts of different ids share no row, so one
id shows all races. Two requests are needed because `List` expires several at once. Batches of
two make the buffer overflow while another batch flies. Two starts let a new chain of timers
meet the old one. Three events overflow a queue of two and include an escalation; a cooldown of
2 on a clock of 2 to 4 is both active and over. `FailLimit` 2 with two deliveries makes the
last failure disable the webhook (10 in the code), and 2 retries exercise both a failed attempt
with another to come and the last. Four entries and a limit of three put a fork before and
after what `verify_chain` looks at. Two entries and three puts evict from the semantic cache and
store a key twice. Three goals make a chain and a fork, and two changes a cycle. Names in
`services` include a dated one that begins with two listed ones. Two readings and a baseline of
two let a reset fall between look-up and addition. Capacities (caches, histories, baselines,
`ReportLimit`) are set below what the run can produce, so that each is exceeded.

Symmetry is used for workers, requests, events, threads and timers where no definition tells them
apart, and never in a run with a liveness property.
`CHECK_DEADLOCK FALSE` is set everywhere because a system that nobody calls, whose bounds are
used up, may stop.

`alerts` has no webhook and `webhooks` no stream and no reconfiguration: the two share no state but
the emit itself, and together they take every action. A webhook that is subscribed again is
modelled, but the liveness run uses one object; the theorem `DisabledForCause` covers any number.

**Fairness.** `remote` and `webhooks` assume weak fairness of the steps of threads that are
already running: Python schedules its threads, HTTP calls have a timeout, and a timer fires.
Nothing that a user or an environment does (record, start, stop, emit, subscribe, read a stream,
reset) is fair. Weak fairness suffices for the engine's lock in `webhooks` because the events are
finitely many, so a waiting thread cannot be overtaken for ever; fairness of all attempts of
deliveries is one condition, and never forces a delivery to succeed. The other runs state no
fairness: what they check is safety.

## 4. Proofs

Each proof module EXTENDS its specification (those of Prompts and Approvals the MC module, because
the properties about crashed workers read its history variable `died`). Assumptions are the named
`ASSUME`s of the specifications (sets disjoint from `None`, sizes natural), and none bounds the
number of workers, events or timers.

* **PromptsProofs**: `VersionsAreContiguous`, `DeployedVersionsExist`, `ResolveNeverDangles`,
  `LatestIsMonotonic`. The properties alone are not inductive: what a call knows in its locals
  (`Sound`), that deleted prompts never return (`RowsSound`) and that the UNIQUE constraint lets
  only one call per prompt stand between INSERT and UPDATE (`OneBump`) make `Inv` so. Each action
  is a lemma; reads share `ReadStep`, writes to the tables share `WriteStep`. `RacesBlockNothing`
  and `FallbackIsBrief` rest on `Owed`: as long as no worker died, every prompt with a number used
  up is owed an UPDATE by a call that still runs, and every label without a row its INSERT.

  The module also proves `ModelsAreChosenWell`, of three specifications. The router (`RouterInv`: the
  names of the fleet differ): a finite set of candidates has a best one (`BestExists`), what a strategy
  selects is one of them (`SelectedIs`), so it meets the request, and loosening the request never
  raises the cost; advice lowers the cost and cannot be circular. The tiers (`TierInv`, unless new
  thresholds fell into a load): what is cached or in a reader's hands is right, and what a reader has
  passed is cached. The scores: one more sign adds to the numerator, never lowers the level
  (`ShareGrows` compares the quotients), and the analyzer keeps the last calls (`KeptIs`).
* **ApprovalsProofs**: `ExpiryIsLate`, `SettledStaysSettled`, `TrailIsSettled`, and
  `OneWorkerKeepsPromise`: with a single worker every step of Approvals is a step or a stutter of
  ApprovalLifecycle, since the request a worker is about to write is still pending.
  `DecisionsAreAudited` (`TrailIsOwed`: a settled request without an entry is owed one by a live
  worker) and `SingleProcessKeepsPromise` (`Solo`). The module also proves `PoliciesAreSound`: any
  set of policies has a first one by priority and age (`FirstIsFirst`, an induction over finite
  sets), the policies a request matches are among those a dry run matches, and each change has its
  audit entry or a worker that owes it (`PoliciesInv`).

  And `PricesAreSound`. `PricingInv` says that while no sync came in between, every loader holds the
  file and a loaded map is the file (`FreshMap`). Charges and savings make the full price because a
  bill is linear in its prices (`BillsAdd`); the pages of the registry partition it because ranks are
  distinct (`PagesShow`).
* **RemoteTrackerProofs**: `NothingLost`, `NothingTwice`, `BufferIsBounded`, `RunningHasTimer`,
  for any batch size, with or without an endpoint. `Inv` adds that an item about to be handed is
  fresh (`Fresh`), that only a thread that is posting holds a batch (`HoldsWhileSending`), and
  that a stop in progress has cleared `running`.

  `PluginsAreSound` joins three specifications that share no variable. Of the registry: in times when
  no two unloads overlapped, names and slots agree (`Alone`). Of an agent no two of whose transitions
  overlapped (`OneLife`): what its one transition read is true until it writes, and history and events
  end where it started until they hear of it. Of the tracker (`BooksOf`): what is spent plus what a
  trace half recorded still owes is what was recorded. `Among`, a filter, is a recursive function;
  `ChainExists` gives the function that its definition chooses, and `AmongIs` what it keeps.
* **AlertPipelineProofs**: `EngineInv` says who may hold the lock (`LockOwner`), that the row is
  the last firing unless its thread still holds the lock (`RowIsLast`), and that the holder's
  clock is the last firing (`HolderIsLast`); that is why the next firing, which compares with the
  row, is a cooldown later, although its clock was read before the lock. `PipelineRunsEngine`
  shows that the pipeline implements the engine's specification, so `CooldownHolds` and
  `InsertIsSafe` carry over. `NoGap` and `DisabledForCause` have invariants of their own; the
  latter counts failed deliveries with the cardinality of a finite set.

  `NoticesAreSound`: `DispatchInv` says what a dispatch under way has tried, reached and reported of
  its snapshot. `CardsInv` counts: an agent's rows, with the graders about to insert one, are no more
  than the graders (this bounds duplicates when graders race). One success more raises
  the shares of a grade (`ShareGrows`) and the number the cost is divided by (`QuotientShrinks`).

  `InsightsAreSound` joins five specifications, each with a theorem of its own:
  * `IngestionIsSound`. For each trace, copies acknowledged plus copies kept by requests under way are
    at most the rows, and rows plus what is still to come at most what was sent (`IngestInv`, sums over
    payloads and clients). `TraceIs` says what a span becomes; reports add up because their lines
    split the rows (`Grouped`, `SumPartition`), whichever rows a LIMIT chose among ties.
  * `FeedbackIsSound`. The classes of a key split the feedback that has a trace (`ClassesCount`); the
    join maps onto the feedback that arrived, so it counts no less, and the same when no trace is
    stored twice. A deleted feedback never returns (`DeletedForGood`).
  * `AnomaliesAreSound`. A window is the end of what was added since the reset (`BaselineIsRecent`).
    Unless ingests of the series overlapped, nothing was announced later than the last alert says
    (`NothingLater`), so a cooldown that is over is over for every announcement.
  * `ForecastIsSound`. The entries are a function of the traces (`ForecastInv`), and their places a
    bijection onto `0 .. N - 1` (`PlacesAre`), so `Spent` is the sum over entries and, by
    `SumPartition`, over traces, however they were cut into batches. The centred places add up
    to 0 and their squares to `N (N^2 - 1) / 3` (`CentredSums`); with that the residuals are the
    deviations less a square (`ResidualsAre`), and a line is found as it is (`RegressionIs`). The sign
    of the slope comes from comparing each cost with the one in the middle (`SlopeIs`), that of the
    smoothed rate from smoothing that stays behind costs that never fall (`SmoothedBehind`,
    `SmoothedAbove`). `Power` and `Smoothed` are recursive functions, which exist by `ChainExists`.
  * `ScenariosAreSound`. What a request wrote is still there, and its row the newest, as long as no
    other write came between its statements (`Undisturbed`).
* **OrganizationProofs**, of the audit log: `ChainIsSound`, `BreakIsFinal`, `LedgerImplemented`.
  `Inv` says that every
  entry hashes what its writer read (`Hashed`) and, of an organization without overlap, that
  entries follow each other (`Chained`), that at most one call is between its two database calls
  (`Alone`), and that what it read is still the last hash (`UpToDate`): the INSERT keeps the chain
  because nobody else can have moved its end. `EditNamed` rests on the injectivity of the hash;
  `FirstBrokenStays` on the fact that an INSERT changes neither the entries before it nor whether
  they fit; the refinement on `SaidAdded`, one INSERT is one element at the end.

  Of members and invites: `AdminsRemain`, `InvitesStayConsistent`. `AdminInv` says of a calm
  organization (no overlapping changes, nobody's rows taken) that one change at a time is between
  its look and its write (`OneChange`), that what it looked up is still a member unless its row was
  deleted (`StillMember`), and that a change about to take an admin leaves another (`OtherAdmin`):
  the count of two admins, a cardinality, is what makes that so. `PendingInv` says the same of
  invitations of one email: what is about to be inserted is still the first. `JoinInv` follows who
  holds an invite (`OneHolder`), and says that a used invite is on record or owed its mark and its
  audit entry by the one call that holds it (`JoinedOwed`).

  Of access: `AccessIsSound`. `KeysInv` says that what the cache holds under a key id is published
  still, or was taken back after the cache was filled; so a withdrawn key can open a door, and a
  good one be unknown, only while the cache is younger than its life or the provider is down.
  `RateInv` says that the middleware's list is right for every time that still counts, and that the
  refusals of an address in a window and its requests under way together stay below the limit and
  the number of visitors: a request is let in only below the limit, and a refusal takes the place of
  a request under way.
* **SumLemmas**: what `SumFunctionOnSet`, a fold, computes over a finite set of any size: one step
  of its recursion (`SumUnfold`), adding, removing and changing a member (`SumAdd`, `SumRemove`,
  `SumChange`), bounds (`SumBound`, `SumSubset`, `SumMono`), sums of sums and products (`SumPlus`,
  `SumScale`, `SumExchange`), and a set split into classes (`SumFilter`, `SumPartition`). The
  library's induction theorems need an operator as a parameter; `SetMin` does without one. A property is given as a set of sets, and by
  `WFMin` a set of subsets that lack it has a least member, which the step refutes. That the fold's
  function exists and is unique is proved in the same way. Sums of multiples, of equal values and of
  the first numbers and their squares follow (`SumCombine`, `SumConst`, `NumbersSum`); so do facts
  about quotients (`ShareGrows`, `QuotientShrinks`, `QuotientFits`), and that a function given by a
  start and a step exists and is unique (`ChainExists`, `ChainUnique`), which is what lets a recursive
  function be unfolded in a proof.
* **GatewayProofs**: `GatewayTypeCorrect`, `RateIsHeld`, `AllAccounted`, `LiveAnswersAreKept`. The
  limiter forgets what is older than its window, so `RateInv` adds that it remembers everything younger
  (`Remembers`). `StatsAddUp` is inductive because one count changes one summand and the total alike
  (`SumCounted`), and `reset` clears all. `TracesInv` gives every request exactly the trace its
  outcome calls for. `SemanticIsSound`: `CacheOK` says that every entry is in its model's index, and
  is kept by each removal (`RemovedOK`) and eviction, although the index may hold a key twice or after
  its entry is gone; so the candidates of a look-up are all live entries of the model.
* **SpendingProofs**: `TenantsStayApart`: no caller writes into a row that it did not find to be its
  own. `GateIsHeld`: `GateInv` bounds the spend and the calls under way, a sum over nodes, by the
  block line and one dearest call per node; a new call raises the sum only below the line. It assumes
  `BlockAt <= 100`, because a budget of zero counts as used by 100%. `HeartbeatIsSound`: `SpendInv`
  says of an agent that never had two calls at once where its money is at every step of the one call
  it may have (`CallOK`, `IdleOK`); `PauseInv` that there are more "exceeded" than lifted pauses only
  while the agent is paused. `TrackerIsSound`: `NumbersInv` says that what the total, the count and the
  list lack is what the threads inside `record` still hold, as sums over threads; `ResetAlone` that a
  reset nobody overlaps is alone; `AlertsInv` that flags are the events sent, that what is reported
  or about to be is true, that what is true was reported or a thread that will see it is on its way,
  and that nothing is sent twice. It assumes that the warning threshold is a fraction of the limit
  (`WarnNum <= WarnDen`; 0.80 in `sdk/trace.py`): with a threshold above the limit "exceeded" comes
  first, and `NearLimit` is not implied by it.

  `ChargebackIsSound` needs no more of the tables than their types. A report is a sum over centers of
  sums over rules of sums over traces: `SumPartition` makes the first two a sum over rules, and
  `SumExchange` sums by trace first. Rules that hand on a project in full then charge each of its
  traces exactly (`TraceChargedInFull`: `SumFilter`, `SumScale`), whoever deletes, moves or adds
  centers meanwhile. `CentersAudited` counts the workers that owe an entry.

  `GoalsAreSound`: of a check during which the forest stood still. Over a tree, each goal below the
  root is found once, when its parent is popped (`GoalsTree`); around a cycle the stack always holds a
  goal that the root is below, so the walk cannot end (`GoalsLoop`); the sum so far, with the
  spend still to be read, covers what was booked at the beginning, and counts nothing that is still to
  be read (`GoalsExact`); a goal that is gone has spend only where a booking overlapped its deletion
  (`GoalsStray`).

**Only model-checked**: the liveness properties `EventuallyOut`, `StoppedTimersEnd`, `EmitReturns` and
`DeliveriesEnd`, since TLAPS proves nothing about ENABLED and fairness. Every invariant and every
action property of the passing runs, and the refinements `ImplementsLedger` and
`KeptBySingleProcess`, are stated by a theorem. No module declares a RECURSIVE operator: recursion
is a recursive function or a fold, and where its value matters, a proof shows that the
function exists. The findings of section 5 are counterexamples of TLC.

## 5. Findings

Two runs check what the repository says of itself, and find it violated:

1. `budget_overspent`: `docs/enterprise/overview.md:28` says "Block calls that would exceed
   budgets". The spend an organization's budget is compared with is that of traces with its
   `org_id`; `log_trace` never writes that column, so the spend is always zero.
2. `pricing_dated`: the comment at `cost/calculator.py:211` promises that a dated name finds its
   model. The loop takes the first listed name the dated one begins with, in a file sorted by
   name: `gpt-4o-...` gets the price of `gpt-4`.

Other disagreements that came up while modelling. The models do what the code does; the
properties above hold with these as stated exceptions, or the behaviour is outside them:

* approvals: two API processes can approve and deny one request (`SettledIsFinal` excepts calls in
  flight), and a request past its time is approved when nobody listed it.
* prompts: a crash between INSERT and UPDATE of `create_version` leaves a prompt for which no
  version can be created; during a redeploy `resolve` serves the latest version.
* remote tracker: start, stop, start registers the callback twice and posts every event twice.
* audit log: two writers fork the chain, and `verify_chain` reports a tampering that never
  happened; "APPEND-ONLY" does not hold of `delete_org`.
* invites: `resend_invite` revives an accepted or revoked invite.
* goals: `update_goal` lets a goal become its own ancestor, and a budget check then never ends.
* budget gate and tier registry read `"input_per_1m"`, which the price functions do not return:
  every call is estimated to be free. The gateway's `_estimate_cost` cannot be resolved, its traces cost 0.
* complexity router: the branch for more than 10 messages is never taken. Model routes: the
  tier filter uses names of its own.
* notifications: a post that raises is reported as success. Sync: warnings stop nothing.
* every `/api/admin` endpoint (`api/server.py:586-657`) fails, since `require_role("admin")`
  compares a role with a text; no API key can be created through it. The scopes of a key are
  parsed and dropped (`auth/api_key.py:104`). The docstring of `jwt_provider.py` promises a new fetch
  "on verification failure"; only an unknown key id or the cache's age causes one.
* anomalies: any deviation from a constant baseline is infinitely unlikely, so that a call cheaper
  than usual is a "cost spike".
* scenarios: an update of another organization's template is answered as success and changes
  nothing; a save may be answered with another request's row.
* feedback: a trace that is sent again counts its feedback twice; forecasts: a day cut in two by a
  batch is two days; reports and forecasts see the latest 10000 traces only.
* `ReactionEngine.stop` unsubscribes from the global bus even when it was started on another; two
  server processes have a lock each, so a reaction may fire in both within one cooldown.

## 6. Not modelled

* The optimizer, the estimator and the simulator's baselines are fixed percentages and token counts
  over a list, in floating point and without state; likewise the ensemble's weights in
  `forecast`, latency percentiles and the exports of `analytics`.
* The SAML library and the configuration from the environment: a good and a bad assertion are the two
  outcomes of `SamlAcs`. Provisioning at first sign-in is in Membership; role checks read claims only.
* The API server and the CLI route requests to the services above and print; the SDK integrations
  turn library callbacks into `CostTracker.record`; the clients, editor extension, dashboard and
  examples are one request per call.
* SQL, HTTP, signatures, regular expressions, message formats and price data are abstracted: they
  appear as atoms, relations given by constants, or a choice between success and failure.
* The event store's schema and migrations, and the adapters: their one behaviour that matters, a
  commit per call, is the grain of every module.
