# nannos: a verification project

TLA+ models of nannos, the TLC configurations that check them, and theorems
about them that TLAPS proves. nannos is a platform of AI agents. People talk to an
orchestrator agent through chat clients and a web console, have *jobs* run
for them on a schedule, and search *catalogs* of documents synchronised from a
drive. Paths below are relative to `src/`. CB stands for
`packages/console-backend/console_backend`.

## 1. The system

| Part | State it keeps | Operations | Interacts with |
|---|---|---|---|
| scheduler engine (`CB/services/scheduler_engine.py`) | in memory: tick loop, dispatches in flight (`_in_flight`), heartbeats | heal, deliver notices, claim, dispatch, finalise, park, resume a parked run | repository, agent-runner, channels |
| scheduled job repository (`CB/repositories/scheduled_job_repository.py`) | tables `scheduled_job_definitions`, `_subscriptions`, `_runs` | claim, create, complete, sweep, claim notices, mark (un)delivered, consume an ask | PostgreSQL |
| scheduler service (`CB/services/scheduler_service.py`) | none | create, edit, pause, resume, suspend, release held jobs, share and withdraw, reports | repository, groups, tokens |
| scheduler web API (`CB/routers/scheduler_router.py`) | requests in progress | run now, answer a parked run, the service's operations | service, engine |
| watch conditions, scheduler tokens | none; vaulted offline tokens | evaluate a CEL condition; refresh and exchange a token | dispatch |
| catalog sync worker (`packages/console-backend/catalog_worker.py`, `CB/catalog/`) | `catalog_sync_jobs`, files, pages, change tokens; a memory budget | poll and claim, sync, re-index, heal, cancel, pause | Google Drive, vector store |
| token broker and sessions (`CB/services/broker_service.py`, `oauth_service.py`) | login requests, bindings, vaulted tokens, a cache of registrations per replica | begin login, issue code, redeem, bind, mint, mark expired | Keycloak, chat clients, dispatch |
| skills and sub-agents (`CB/services/skill_*`, `sub_agent_service.py`) | config versions, activations, approvals | save, publish, activate, submit, approve, revert, delete | orchestrator |
| console chat relay (`packages/console-backend/app.py`) | `active_tasks`, `_pending_interactions` | relay a message, steer, cancel, restore a prompt | orchestrator, browsers |
| orchestrator, agent-common, ringier-a2a-sdk | `_active_streams` with its message queue, LangGraph checkpoints | run a turn, steer, ask for approval, resume | console, clients, sub-agents |
| agent-runner | A2A tasks | execute a scheduled run, park on an ask, resume | scheduler |
| outbound SCIM push (`CB/services/outbound_scim_push_service.py`) | `outbound_scim_sync_state`, tasks in flight | push a user or a group, push all, nightly sync | the console's routes, a SCIM endpoint |
| user groups and sharing, SCIM in | grants, members | add and remove members | scheduler, skills, SCIM push |
| usage, budgets, rate cards; notifications | usage rows; connected browsers | account, notify | everything |
| chat clients (Slack, Google Chat, e-mail) | pending requests, tasks in flight | deliver, report undelivered, answer asks | scheduler, broker, orchestrator |
| frontends, embed SDK, voice agent, LiteLLM proxy, object storage, soffice worker | user interface; adapters | | |

`PROJECT.json` lists every one of them with its status, and under "hazards" what is
hard to test in them, line by line.

### What makes each part correct, and what is hard

* **Scheduler.** A due job is executed, once, and the schedule moves on. A run
  that was lost is noticed and earns exactly one fresh attempt, a lost attempt
  earns a message, and an ask holds the job until it is answered, once. A stop keeps
  its reason until somebody lifts it. Hard: several processes share the tables
  with no leader; a dispatch takes minutes and is bracketed by three
  transactions; a process may die between any two of them; people change the row
  meanwhile; a live dispatch may look dead to another process.
* **Catalog worker.** A sync job is executed once, none is stranded, and what the
  database says of the vector store is true. Hard: claims outlive their row locks, several
  loops create jobs, restarts fail jobs others wrote, the database and the
  vector store are two systems and a crash falls between them. The
  memory budget must neither leak nor starve the files that hold pages.
* **Token broker.** A code is redeemed once and by its client, a binding secret never
  acts for somebody else, and a fresh sign-in is not marked dead by a refusal of the
  old one. Hard: expiry and deletion racing use, caches of several replicas.
* **Skills and sub-agents.** The version in force is an approved one, nothing runs
  unreviewed, and a follower moves with its source or says why not. Hard: edits, bumps,
  reverts, approvals and deletions in any order, some of them without the row lock.
* **Conversations.** A tool call runs once and only if its speaker agreed; an ask waits
  for its owner; turns end. Hard: messages that arrive while a turn runs are folded into it;
  clicks on old cards; two event loops (console and orchestrator) with
  different ideas of whether a turn is running; cancels that cross completions.
* **SCIM push.** The endpoint ends up with what the console has, or the sync state says that
  it does not; a group is not pushed without the members it could have had. Hard: the push usually starts
  before the change commits, pushes of one entity overlap, a request that timed out may have been carried
  out, and a group's push contains pushes of users.
* **Groups, budgets, sockets.** The effect of a grant ends with it. Mostly data.

## 2. Modules

```
JobRow            one subscription row: what each statement makes of it
  RunRow          the run table: what each statement makes of it
    Scheduler     the state machine: processes, requests, people, time
      SchedulerProps   properties; INSTANCE RunLedger; fairness
        MCScheduler    what TLC runs
        SchedulerProofs   lemmas on rows, inductive invariant, refinement of RunLedger
          ScheduleProofs   stops and automatic pauses, pauses and suspensions
                           hold, one run at a time, one attempt per loss
RunLedger         what the run table promises, abstractly

Catalog           jobs of a catalog, the worker, files and vectors
  CatalogProofs   a sync runs once, an indexed page is stored, types
SlideBudget       the memory budget the files of one sync share
  BudgetProofs    no lost wakeup, no priority inversion, no unit lost

Broker            registrations, sign-ins, bindings, vaulted tokens
  MCBroker        what TLC runs (symmetry)
  BrokerProofs
SubAgents         the configuration versions of one sub-agent and its skills
  SubAgentProofs
Turns             the turns of one conversation: console and orchestrator
  TurnProofs
ScimPush          users and a group pushed to one SCIM endpoint
  MCScimPush      what TLC runs (first states)
  ScimProofs      what ended well is what the endpoint has
```

Operators named `X_Something` are variants of `X` with a plausible mistake. No
action uses them; each shows that one property notices that mistake
(`PROJECT.json`, "mutants"). Variables marked *history* are read by properties and by no
guard.

### The scheduler

**JobRow** holds one operator per statement that writes
`scheduled_job_subscriptions`. `CompleteJob` is the UPDATE of `complete_job` case by
case, and `FinalizeRow` is the whole first transaction of `_finalize`. Timestamps are
reduced to what `<= NOW()` tells apart. `sched` and `plan` count versions of the
trigger, so that a `next_run_at` computed from an outdated trigger is visible.
Pause codes that are treated alike are one value; the comment at `Codes` says which.

**RunRow** does the same for `scheduled_job_runs`. `CompleteAs` adds to each
completion what it means for notices: a run completed later overtakes an owed
notice, which the query of `claim_due_notices` finds by comparing completion times.

**Scheduler** is the state machine. One action is one database transaction, or one
step of a process in its own memory.

| Variable | In the code |
|---|---|
| `sub`, `run` | the two tables |
| `suspended`, `deleted` | `suspended_at` of the definition; `deleted_at` of subscriptions |
| `phase` | where `_tick` of each process stands: heal, notices, claim, gather |
| `claims` | claimed jobs whose `create_run` has not committed |
| `tasks` | dispatches: `queued` (a background task not started), `dispatching`, `recording` (the job advanced, the run not written), `posting` (a check's ask being posted) |
| `req` | web requests between their checks and their write |
| `releasing` | jobs a release has listed and not yet resumed |
| `told`, `advanced`, `chosen`, `missed` | history |
| `crashes`, `faults` | how much of the bounds is used |

Each action is named after its function: `HealStuckRuns`, `DeliverDueNotices`,
`ClaimDueJobs`, `BeginDispatch` (the `create_run` transaction of
`_dispatch_job`), `RecordOutcome` and `FinishRun` (the two transactions of
`_finalize`), `FinishRunFails` (its `except` branch), `PostCheckAsk`,
`RequestRunNow`/`RunJobNow` and `RequestAnswer`/`AnswerParkedRun`/`RefuseAnswer`
(the two handlers, each split between check and write), `Pause`, `Resume`,
`Toggle`, `EditTrigger`, `AdoptTrigger`, `WithdrawAccess`, `RestoreAccess`,
`SignIn`, `BindChannel`, `ReleaseHeld`, `ReportUndelivered`, `Suspend`,
`Unsuspend`, `Delete`. `Crash` and `Start` take a process down and up. `ScheduleComesDue`,
`RetryComesDue`, `NoticeComesDue`, `NoticeGetsTooOld` and `HeartbeatLapses` are time.

**RunLedger** is the abstract specification of the run table. A run is opened
once, it may stop to ask, an ask is answered at most once and together with the run
that continues it, and a closed run stays closed. The mapping is `LedgerEntry` in
SchedulerProps.

Abstractions:

* What happens between the agent and the engine (token exchange, A2A stream, result
  parsing, watch evaluation) is the set `Endings`: a dispatch ends in any of them. A
  watch has two endings a task does not have.
* The claim's `LIMIT` is ignored: a claim takes every claimable job. Jobs claimed in
  one round are dispatched in any order.
* `WithdrawAccess` either stops the row or removes it (`Remove`): `_withdraw_access`
  deletes a subscription that only the group stood behind, and who else stands behind
  one is not modelled. `RestoreAccess` is what `_activate_default` leaves of a row it
  brings back: switched on with its trigger recomputed, held again, or elapsed.
* A release may find that its job still cannot run. That becomes a choice
  (`ReleasedRows`); what makes it so (readiness of the sign-in, reachability of the
  channel) is not modelled.
* Definitions and subscriptions exist from the start. Only an edit of the caller's own
  trigger is an action; what it changes on other people's rows is
  `AdoptTrigger`, which takes one row at a time.
* The age limit for rows written before heartbeats existed is left out.
* `_notify_job_paused` and audit entries write nothing the scheduler reads.
* The rows one sweep completes share a completion time and are ordered by id, as in
  the query.

### Catalogs

**Catalog** is the worker (`catalog_worker.py`), the console's writes
(`catalog_service.py`, `catalog_repository.py`) and the pipeline
(`catalog/sync.py`) of one catalog.

| Variable | In the code |
|---|---|
| `job` | `catalog_sync_jobs.status`, numbered by `created_at` |
| `caller` | what a request, the tick loop or the heal loop has read and will write |
| `worker`, `hand` | the process (up, draining after SIGTERM, down); claimed jobs waiting for a slot |
| `task` | executions: job, kind (full, incremental, re-index), step, and where each file's handler stands |
| `src` | the files at the source |
| `row` | `catalog_files` and their page: what the source listed, the page's content, thumbnail, `indexed_at`, `indexing_excluded` |
| `vec` | the content in the vector store |
| `ran`, `mixed` | history: executions per job; overlapping executions or exclusions |

A version number stands for content: of the file at the source, of the page, of
the vector. `TriggerSync`, `ReindexCatalog` and `HealUnindexed` are reads that decide on an
insert, `Transition` reads a status to pause, resume or cancel, and `Write` commits
what was read, whatever happened meanwhile. `ClaimPendingJobs` is one claim transaction,
`RunJob` gives a claimed job a slot, `Start` chooses the kind, `ScanSource` or `ScanPages` list
the files, `CheckShouldContinue`, `FastPath`, `ProcessFile`, `FileFails`, `AddDocuments`
and `MarkIndexed` are the handler of one file, `RemoveDeletedFiles` and `Complete`
close. `Crash`, `Shutdown`, `Drained` and `StartWorker` are the process.
A file has one page, several catalogs do not interact, and Drive's change
feed lists exactly the files that changed.

**SlideBudget** is `_WeightedSemaphore` (two queues, `upgraders` first) and the tasks of
one batch. A step is what a task does between two awaits. `outer` and `inner`
are the variable `held` of `_handle_file` and of `_process_file`, two
variables in the code as well. `Acquire`, `Upgrade` and `Release` are the methods
with their direct hand-over of units to the tasks they wake (`WakeWaiters`);
`BeginExtract`, `Finish`, `End` and `EndEarly` are where the pipeline calls them;
`Cancel` is a shutdown before the batch begins. A file may fail wherever its code can raise
(`ExtractFails`, `SizedFails`); `lost` and `extra` are history, the units such a file held beyond
what its `finally` gives back, and those it gives back beyond what it held.

### Sign-ins

**Broker** is `broker_service.py` with the callback in the auth router and the vaulted tokens.

| Variable | In the code |
|---|---|
| `client`, `cache` | `broker_clients`; `_client_cache` of each replica |
| `login` | `broker_login_requests`; the number stands for state, code and secret |
| `linked`, `binding` | `broker_client_users`; `broker_bindings` |
| `token`, `dead` | `user_offline_tokens` with its version and expiry mark; tokens Keycloak refuses |
| `browser`, `req` | callbacks and client calls between their transactions |
| `owner`, `redeems` | history |

A call is `Call` (authenticates against the cache or fills it), then `BeginLogin`,
`Redeem` or `MintCheck`, `LoadToken`, `Refresh` and `MarkExpired`, which are separate
transactions in the code. A callback is `OpenLogin`, `Onboard`, `IssueCode`.
`UpdateClient`, `DeleteClient`, `CreateClient`, `CacheExpires`, `LoginExpires`, `ConsoleSignIn` and
`TokenDies` are the environment and administrators. Cryptography is abstracted: nobody guesses a number.

### Sub-agents

**SubAgents** follows one agent. `kind`, `bound`, `public` are its columns, `ver` its
configuration versions, `cur` and `def` the current and the default one, `row` the
registry row of its own skill, `pub`, `act`, `err` a publisher's skill and the agent's
activation of it, `call` the requests that read without the row lock. A text is its
length, which is what the auto-approve limit is about. A version holds a skill with the flag that inlines it, and
as in `_inlined_skills_length` only an inlined skill counts (`Counted`, `Fits`); the bump of one that is not
is not checked against the limit (`BumpRaises`). `by` is history: what let a version run, the rules, the
approved version it copies but for one skill, or a person (a host's publication counts as one). `UpdateSubAgent`,
`SelfUpdate` (the agent moves its own pin), `SetPublic`,
`SetDefaultVersion`, `RevertToVersion`, `PublishManagedVersion`, `DeleteBinding`, `EditOwnSkill`
and `PublisherWrites` (with the bump of a follower) hold the row lock and are atomic.
`BeginActivate`, `AddSkillToConfig`, `InsertActivation`, `SwitchMode`, `BeginDeactivate`,
`RemoveSkillFromConfig`, `DeleteActivation`, `BeginReview`, `Submit`, `Approve`, `Reject` and
`DeleteVersion` are split at their unlocked reads. `SwitchMode` may also change the flag: then one transaction writes a bumped
version and a saved one on top of it (`BumpedAndSaved`).

### Conversations

**Turns** is one conversation: `execute()` of the orchestrator and the middlewares a
model step runs through, and the message, steering and cancel handlers of the console.

| Variable | In the code |
|---|---|
| `relayed` | a console conversation, or a channel with several speakers |
| `msg`, `stage` | the messages, and where the executor has each |
| `active`, `accepted` | `_active_streams` of the conversation; what `message_queue` has taken |
| `again`, `nudged` | `steering_reinvocations`, `delegation_reinvocations` |
| `seen`, `card` | the interrupt a turn read; the one in the checkpoint |
| `run`, `used`, `ran`, `asker`, `regated` | calls to make; calls made by the model; history |
| `out` | what the message's stream ended with |
| `hand`, `cancel`, `entry`, `prompt` | console: handlers, cancels, `active_tasks`, `_pending_interactions` |
| `late`, `overlap` | history: a message relayed as steering began a turn; a turn was relayed beside a cancelled one |

`Send`, `RelayEvent`, `StreamEnds`, `TearDown`, `CancelTask`, `CancelLocal` are the
console's; `Receive` (start a turn or be queued as steering), `ReadState`, `Start`, `Resume`,
`RunCall`, `ToolsDone`, `BeforeModel` (drain the queue), `MakesCalls` (gate and perhaps ask),
`Completes`, `Fails`, `CheckSteering`, `Emit`, `End`, `CancelTurn` the orchestrator's. A
message is words, words that agree, or a click that names calls. What the model does is a
choice: it ends or makes calls of which any may need approval. Calls in `ClickOnly` save something and are marked
`_requires_click`: with one of them on the card, words approve nothing (`Approved`). Words are read for the calls
asked when the turn resumes, a click for those its card showed (`ToRun`, `Mismatch`). A turn may raise at any stage of its
`try`, up to the events it sends last (`Fails`).
A *wedged* turn has left `execute()` without releasing its registration.

### SCIM push

**ScimPush** is `outbound_scim_push_service.py` with the requests that start it.

| Variable | In the code |
|---|---|
| `row`, `tx` | `users` and `user_groups` as committed; what a request has written and not committed |
| `link`, `err` | `remote_id` and `last_error` of `outbound_scim_sync_state` |
| `res` | the endpoint's resources, by the id it gave them |
| `stack` | the pushes of each task: push-all, the group, the member pushed first |
| `wire` | requests whose sender has timed out or died |
| `fresh`, `roster`, `unheard`, `held` | history |

`Begin` is a change whose push starts before the commit (`Commit`, `Rollback`): the SCIM and group
routes and the console's login. `CommitAndPush` commits first; `Silently` pushes nothing (deletions, bulk status changes).
`PushAll` queues everything. An attempt is `Read`, `Refetch` (after the members), `Answer`, `Lookup` (after a 409),
`Record`; `GiveUp` writes the error. `Refused`, `TimesOut`, `Breaks`, `Unrecorded` and `Crash` are what goes wrong, and
`Straggles` is a late request that arrives. An entity's state is its name and its `active` flag, a group's its name and members.
`fresh` says that the last push of an entity read it while nothing else was at work on it and
that the row has not changed since: only then is a push that ended well expected to have left the endpoint up to date.
The code reads a group's row and its members with two statements, the model in one step. A change that commits between
the two gives a push half old and half new; it also makes `fresh` and `roster` FALSE, so no property speaks of that push, and the
nightly sync repairs it like any other push that read too early.

## 3. Runs

| Run | Instance | Shows |
|---|---|---|
| Stops | 1 watch that fires once, 2 runs that may overlap, 1 client who runs it by hand, toggle and the four releases, reports | auto-pause only when earned, a stop is not overwritten, lifting it drops its retry, reports prevail |
| Web | 1 watch, 1 process, 3 runs, 1 client, 1 crash, 1 edit, suspension and deletion, asks | the schedule never has a job in hand twice (`OneScheduledRun`), one attempt per loss (`OneLossOneAttempt`), an ask holds the schedule (`ParkHoldsTheSchedule`), a paused job is not claimed, a continuation leaves an edited schedule alone, nothing missed in a suspension is made up for |
| Processes | 2 processes, 2 clients, 3 runs, live dispatches may miss heartbeats | outcomes are final, `RunLedger` is implemented |
| Liveness | 2 jobs in one tick, 3 runs, timezones that may not resolve, 1 crash, 1 fault | no run reads running for ever; a pending attempt is taken; a due job moves on, also one whose schedule cannot be computed |
| Budget | 3 files of 1, 3 or 5 pages, capacity 4, floor 2, page cap 5, earlier count 0 or 1; any file may fail anywhere | units are conserved but for what failures on a resized hold lose or make up, nobody sleeps in front of units it could have, files with pages come first, every file ends unless such failures left fewer units than one of the others needs |
| Catalog | 1 file, 1 slot, 1 request at a time of five kinds, 2 jobs, 2 versions, 1 crash, shutdown or exclusion, a flat (legacy) configuration | a sync is executed once, what says it is indexed is, executions end, queued jobs are taken |
| Broker | 2 users, 1 client, 1 account key, 1 replica, 2 callbacks, 2 calls, 1 login, 2 tokens, 2 changes of the registration | secrets stay personal, a code is used once, a fresh token is never marked, a client that is gone acts for nobody |
| SubAgents | 1 unlocked request, prompts and skills of length 1 or 2, the publisher's skill inlined or not, a first version at the limit of 3 that refers to a skill it does not inline, 3 versions, the second of which may be rejected or deleted | only a reviewed prompt runs, what is approved without a person is within the limit or runs with a text a person let past it, the default is approved, no follower is left behind in silence |
| Turns | 2 speakers, queue depth 1, 1 re-invocation, 3 messages (2 in a console), 2 calls of which one saves and needs a click | a call runs once and only as approved, a card waits for its owner, the kept prompt is real, turns and follow-ups end |
| ScimPush | 2 users (one perhaps new), 1 group, an endpoint with two resources of its own, the nightly task and one more, 3 attempts, 1 change, 1 fault | a push that ended well left what the console has, a group has the members the endpoint knows, in the end the endpoint agrees or the sync state says that it does not |
| NoticeLost, SyncMissesEdit | 1 job, 2 runs; 1 file, 2 jobs, syncs and edits only | disagreements of code and documentation, below |

Scheduler runs use `MCScheduler`. There, `MaxRuns` run rows are ever inserted, so
nothing is claimed without room for it, and properties that expect a claim say so
with `Full`. `MaxCrashes` processes are killed, `MaxFaults` writes fail and `MaxEdits`
edits are made. `Ops` and `Endings` switch people's actions and the
ways a dispatch ends; each run has those that bear on its question. In Catalog
`MaxJobs`, `MaxVersion` and `MaxUpsets` bound jobs, edits and crashes; in Broker `MaxLogins`,
`MaxTokens` and `MaxAdmin`; in SubAgents `MaxVersions` and `Discardable` (the versions that may be rejected or deleted), with
`FirstPrompts`, `FirstSkills`, `FirstPins` and `FirstFlags` for what an agent is created with, and `OwnFlags`, `NewPins` and `Asked`
for what requests may put into a configuration; in Turns `MaxMsgs`,
`MaxRelayed` and `MaxCalls`; in ScimPush `MaxEdits` and `MaxFaults`. The passing runs together fire every action.

Why these bounds are enough. The scheduler's protocols concern one job and at most a
chain of original run, retry or continuation, and the next scheduled run, that
is three rows. In Stops the two rows are a scheduled run and one started by hand, one of which
ends while the other has stopped the job; `run_now` is not among the operations of Web and Processes, where it
multiplies states without bearing on the properties. Two processes give every race on a row that conditional
writes decide, and two clients every race on an ask. Jobs meet in a tick, which the two
jobs of Liveness show; a definition's suspension treats each of its jobs alone. In
Liveness every dispatch is interrupted, the ending with the longest sequel.
Three files of the budget give a holder, an upgrader and a waiter at once, and page counts
below the floor, above it and beyond the capacity. Files of a catalog touch disjoint rows, and
two jobs are one being executed and one created meanwhile. A single slot keeps the run small;
overlapping executions are covered by the theorems. The broker's races are between two
requests for one login, or a refusal and a sign-in, and the theorems drop the
bounds. Three sub-agent versions are a default, a pending one and the one that is bumped or
reverted to beside them; a version a person let past the limit and the bump on top of it are two. A timed-out POST needs all three attempts (time out, find, send), and one change
beside the nightly sync is the least that makes two pushes overlap. Three messages are one that asks, one that answers and one that comes between.

Processes, clients, users, browsers and calls are interchangeable where Processes and Broker
use them as symmetry; neither checks liveness. Deadlock is checked except where the bounds or
the work may end: Budget (all files done), Catalog, SubAgents and Turns.

Types are proved (section 4) rather than checked by a run: `TypeOK` of
the scheduler, Catalog, SlideBudget, Broker, SubAgents, Turns and ScimPush.

### Fairness

* **Scheduler** (Liveness): weak fairness of each step of the tick, of a dispatch's
  own steps, of the restart of a dead process, and of time. `_loop` catches every
  exception and sleeps between ticks; asyncio runs every
  task that can take a step; the A2A stream has a read timeout, so a dispatch
  ends; the deployment restarts a dead process; the clock moves. Nothing is
  assumed of people, of faults, of `ScheduleComesDue` or of heartbeats. In this
  run a live dispatch does not miss three heartbeats in a row (`LapseLive = FALSE`).
* **SlideBudget**: some file that can take a step takes one. That is asyncio's loop, and the
  pause check in a file gives up after an hour. The queue order of the
  semaphore is in the model, so nothing stronger is needed.
* **Catalog**: the poll's claim, each execution's steps and its start, the end of
  draining, and the restart of the worker. Nobody has to trigger, pause or resume, and the
  tick and heal loops need not run.
* **Turns**: some orchestrator step and some console step, when there is one. Both are event
  loops, a model call times out and the steps of a turn are limited. People need do
  nothing: an ask may wait for ever and is no running turn.

* **ScimPush**: each task's own steps, the nightly task's start, the end of a request, and the fate of a
  packet. asyncio runs the tasks, every request has a timeout, `_nightly_sync_loop` sleeps and comes back after any
  exception. Changes and faults are never required.

### Where code and documentation differ

Two runs check a statement of a comment, and TLC
finds it violated. `PROJECT.json` "findings" quotes each statement.

| Run | Statement | What happens |
|---|---|---|
| NoticeLost | a due notice that is sent arrives | the delivery loop reads `item["job_id"]`, which `claim_due_notices` does not return: no recovery notice is ever delivered |
| SyncMissesEdit | a file is skipped only if its source is unchanged since the last sync | the listing writes `source_modified_at` before any file is compared with it: every file with pages is skipped |

The rest of what was met while modelling has no run of its own. The models contain all of it:
a property that would not hold because of it names the exception.

*Scheduler*

* The claim commits before the run row exists, so a second process may claim again: runs
  of one job can overlap (against `docs/adr/0007`, lines 72-73). `OneScheduledRun` is for one process.
* A manual run beside a scheduled one, and both park: two asks
  (`docs/adr/0009:337`, `scheduler_router.py:1462`).
* A finished one-shot can be switched on again by the update endpoint
  (`scheduler_service.py:887`, against 1275-1276).
* Regaining access also lifts a pause which losing it overwrote (`scheduler_service.py:1643`).
* A one-shot whose moment passed in a suspension fires afterwards (`scheduler_service.py:1423`, against 1415-1416).
* A late delivery result writes an answered run, which still reads `auth_required`
  (`scheduled_job_repository.py:1934`, against 1925-1926).
* The claim clears `retry_at` and commits before `create_run`: the attempt is lost
  if the process dies between the two.
* A crash between the two transactions of `_finalize` leaves a run whose success
  the job has taken; the healer calls it interrupted and it is executed again.
* A manual run of a one-shot whose moment lies ahead retires it, off and without a
  code, which `models/scheduled_job.py:96` reserves for a one-shot that ran.
* A job paused between the listing and the resuming of a sign-in release is
  switched on by it.

*Catalog*

* Budget: `held = await _process_file(...)` (`catalog/sync.py:720`) is not assigned when the call
  raises after it resized the hold, and the `finally` at 754 releases the first units. A hold that had grown loses
  units (`lost`), and a file that needs more than are left waits for ever; one that had shrunk gives back more than it held
  (`extra`). 256 says "Deadlock-free", 1162-1163 "the correct amount". The run
  contains these failures: `EveryFileEnds` names the exception (`Short`), `UnitsConserved` bounds the damage by `lost` and `extra`.
* All handlers of a batch start at once, and only the first asks the job's status within
  five seconds, so a pause or cancel during a batch is not seen and the job reads completed.
* A terminal job is revived by a transition that read it before it ended
  (`catalog_service.py:539`: "no transitions out"). A pending job that is paused and resumed
  reads running and nobody executes it.
* `create_sync_job_atomic` does not exclude a second active job under READ COMMITTED
  (`catalog_repository.py:336-362`: "eliminate the TOCTOU race"). A re-index job is claimed again at
  every poll.
* A flat configuration gets a fresh id each time it is normalised, so its change token is never
  found again and every sync is a full one (`catalog_worker.py:651-676`).
* A sync ignores `indexing_excluded`. An exclusion beside an execution can leave `indexed_at`
  set without a vector. A crash after `source_modified_at` commits and before the pages do makes the
  next sync skip the file.

*Sub-agents*

* "An automatic version never goes past the auto-approve prompt limit" (`sub_agent_service.py:3491`): the check at 3493 is made only
  if the bumped skill is inlined. The bump of one that is not, on a default which a person approved past the limit, writes
  an approved version past the limit. It runs with the text that person approved, and `AutomaticFits` names exactly that.
* Approve beside reject or delete leaves a rejected or deleted default (`raced`). A pending version that is
  soft-deleted can still be approved. Two deletions can leave `current_version` on a deleted version.
* A revert takes `current + 1` and collides after a deleted draft. An edit of `is_public` alone makes an agent
  public without a review. An automated agent's own skill held only by a draft can outgrow the limit.
* A follower is left behind in silence when activation or switch reads the publisher's hash before a publisher's
  write, or when an old pin is approved or made the default. `NoFollowerLeftBehind` is about the publisher's step.

*Conversations*

* Some exits of `execute()` lie ahead of its `try` (`executor.py` 797-974: no context, registry failure, no models,
  the budget lock, a cancel during setup), and one cancel can fall into its `finally`. The registration then stays: later messages are
  acknowledged and never processed, until the process restarts (`Wedged`).
* The relay steers into a turn which the orchestrator has ended already. The message becomes a full turn
  nobody relays (`late`; `app.py:2321-2350` says the executor queues it).
* A cancel pops the entry and then awaits. A message sent meanwhile is a turn for the console and steering for
  the dying turn, and is dropped. A cancelled turn the orchestrator had not yet heard of runs beside the next one and can
  answer its card (`overlap`).
* Words right after an ask or a completion may be folded into the ending turn and dropped. After a cancel the
  interrupt is pending still, and the next words answer it.
* `message_queue` counts what a turn ever took, so `Depth` bounds that and not what waits.
* If the approval rules change between a card and its answer, decisions are paired with calls by
  position: a refused call may run, or the resume fails on the count (`regated`).

*SCIM push*

* The console's login starts the push "after all DB work is done" (`auth_controller.py:363-365`: the task "won't execute
  until the event loop yields (i.e., after commit)"). The commit itself yields, and the push may read the row as it was. The
  SCIM and group routes do the same without a comment. The nightly sync repairs it.
* Deleted entities are never pushed, and a suspension made in bulk is not pushed either; the nightly sync
  takes active users only (`outbound_scim_push_service.py:126`), so the endpoint keeps a suspended user active.
  `DivergenceIsTold` is about active users.
* The address of a deleted user may be given again (migration 051). The push of the new user meets a 409 and adopts the
  old one's resource (`outbound_scim_push_service.py:609`). The properties leave out names that were another's (`Reused`).

## 4. Proofs

TLAPS proves, for every value of the constants:

| Theorem | Module | Property | Hypothesis |
|---|---|---|---|
| TypeCorrect | SchedulerProofs | `TypeOK` | |
| PauseIsAlwaysOff | SchedulerProofs | `PauseIsOff` | |
| NoticesAreEarned | SchedulerProofs | `NoticeOnlyExhausted` | |
| ReportsPrevail | SchedulerProofs | `ReportedStaysUndelivered` | |
| OutcomesAreFinal | SchedulerProofs | `OutcomeIsFinal` | |
| Refinement | SchedulerProofs | `ImplementsLedger` | |
| StopsLiftCleanly | ScheduleProofs | `StopLiftDropsRetry` | |
| StopsAreKept | ScheduleProofs | `EngineKeepsStop` | |
| ResumedRunsLeavePlans | ScheduleProofs | `ResumedRunLeavesSchedule` | |
| AutoPausesAreEarned | ScheduleProofs | `AutoPauseIsEarned` | |
| PausesAreRespected | ScheduleProofs | `PausedIsNotClaimed` | no releases |
| NothingMissedIsMadeUpFor | ScheduleProofs | `NothingIsMadeUpFor` | no `toggle` |
| OneRunAtATime | ScheduleProofs | `OneScheduledRun` | one process, no `run_now` |
| ParksHoldTheSchedule | ScheduleProofs | `ParkHoldsTheSchedule` | one process, no `run_now` |
| LossesEarnOneAttempt | ScheduleProofs | `OneLossOneAttempt` | `~LapseLive` |
| TypeCorrect | BudgetProofs | `TypeOK` | |
| NobodySleepsOnUnits | BudgetProofs | `NoLostWakeup` | |
| UpgradersComeFirst | BudgetProofs | `UpgradersFirst` | |
| UnitsAreConserved | BudgetProofs | `UnitsConserved` | |
| SyncIsRunOnce | CatalogProofs | `SyncRunsOnce` | |
| IndexedPagesAreStored | CatalogProofs | `IndexedIsStored` | |
| TypeCorrect | CatalogProofs | `TypeOK` | |
| TypeCorrect | BrokerProofs | `TypeOK` | |
| SecretIsPersonal | BrokerProofs | `SecretNamesItsUser` | |
| CodesAreSingleUse | BrokerProofs | `CodeIsSingleUse` | |
| MarksAreEarned | BrokerProofs | `OnlyRefusedIsMarked` | |
| DeletedClientsAreOut | BrokerProofs | `GoneClientActsForNobody` | |
| TypeCorrect | SubAgentProofs | `TypeOK` | |
| OnlyReviewedRuns | SubAgentProofs | `NothingRunsUnreviewed` | |
| LimitIsKept | SubAgentProofs | `AutomaticFits` | |
| DefaultStaysApproved | SubAgentProofs | `DefaultIsApproved` | |
| FollowersAreTold | SubAgentProofs | `NoFollowerLeftBehind` | |
| TurnTypes | TurnProofs | `TypeOK` | |
| CallsRunOnce | TurnProofs | `RunsOnce` | |
| RunsAreApproved | TurnProofs | `OnlyApprovedRuns` | |
| AsksAreAnswered | TurnProofs | `AskIsAnswered` | |
| PromptsAreReal | TurnProofs | `PromptIsReal` | |
| TypeCorrect | ScimProofs | `TypeOK` | |
| PushesAreCurrent | ScimProofs | `PushedIsCurrent` | |
| RosterStaysWhole | ScimProofs | `RosterIsWhole` | |
| ResourcesAreOwn | ScimProofs | `OwnResources` | |

The hypotheses are about constants, hold in the run that checks the property, and exclude exactly
what breaks it in the code (section 3):

* *no releases* (`NobodyReleases`: `Ops` without `sign_in`, `bind` and `share`): a release lists held jobs
  and then resumes each, so a job paused between the two is switched on by it.
* *no `toggle`*: the update endpoint switches a job on without computing its next occurrence again.
* *one process, no `run_now`*: a claim commits before the run row exists, so another process may claim again, and a manual
  run asks nobody. Crashes, sweeps of live runs, failed writes and answers are all included.
* *`~LapseLive`*: a live dispatcher that misses three heartbeats is swept, and both the sweep and its own outcome count. Any
  number of processes may sweep, and any may die.

The assumptions are the named ones of the modules: `MaxFailures` is a positive number
(a CHECK of the table), `Jobs` is not empty, watches are jobs; a worker has finitely many slots and
at least one; the console's user is a user; bounds are numbers and switches booleans; a batch of files is finite. TLC evaluates
each of them. For ScimPush they say that the console's first rows and the endpoint's first resources are well formed: an e-mail
address is no group's name, live users' addresses differ, a group's members are live users, and a resource's
members are resources.

**Scheduler.** The inductive invariant is `IInv`: the type of every variable, with rows that
are *sound*. `SoundRow` adds to a row's type that a code means switched off.
`SoundRun` adds that a notice is owed only by an interrupted retry, and that a
reported failure excludes delivered. Neither typing nor the properties are
inductive alone. What a dispatch will write (its outcome, its snapshot, the code it
gives) sits in `tasks` for a long time, so the invariant types memory as well
(`SoundTask`, `SoundRequest`). The run id of a task must be a run id for
`run[t.run]` to mean anything. The argument goes bottom up: each row operator takes sound rows to
sound rows, each action preserves each part of `IInv`, and the four invariants follow.
The refinement shows that an action which writes the run table either leaves a ledger entry
alone or makes exactly one of the ledger's steps. The interesting cases are
`HealStuckRuns` (closes a set), `FinishRun` by a dispatcher whose run was
swept meanwhile (a stutter, because completion is conditional) and
`AnswerParkedRun` (one step that closes one entry and opens another).
ScheduleProofs first goes through the writers of `sub` and shows which lift a code and
which put one. `AutoPauseIsEarned` counts: the failure counter of a row is at most the number of
runs of the job that failed (`FailsAreRuns`), and a run has one dispatch (`OneTaskPerRun`), so no failure
counts twice.
The theorems on the schedule add one invariant each. `StopsStand`: a job its subscriber
switched off carries a code, so the claim leaves it alone whatever its run in flight earns.
`MissedIsMissed`: a row that slept through a suspension never reads due again. `OneAtATime`: a run that is
running or parked, and a claim, exclude each other per job; a request in memory still
names a run of its job. `LossInv`: attempts made, claimed and pending are at most the lost
runs, and those made or claimed at most the lost runs that are settled: an attempt is
pending only once its loss is settled, and claiming moves it from one count to the other.

**Catalog.** `SyncRunsOnce` needs to know where a job is: `ClaimInv` says that a sync job in
the poll loop's hand was claimed as pending and not executed yet, `OnceInv` that a job that is still pending was never executed. A
transition that read an old status must not bring pending back, which is why the theorem also
speaks of `caller`. The second half of CatalogProofs relates the vector to the page through every
step of a handler (`SeenInv`: what a handler holds in memory is no newer than the source; `DataInv`:
types and the order of versions; `AloneInv`: while nothing overlaps, the page, the vector and the handler's step
determine each other).

**SlideBudget.** `Safe`, the types and `NoLostWakeup`, needs to know what a pass over the
queues grants: what fits, and not the next entry (`ServedFits`, `PassFits`). It
holds after a release whatever held before. `Kept` adds that the queues hold waiting files, each once (`Lined`), that who
waits or has ended holds nothing and the finally clause releases what is held (`Balanced`), and then
conservation (`Even`): granting adds to the holds exactly the weight of what was granted (`GivenAdds`), a
failure moves units into `lost` or `extra`, and since the
holds are never negative the cap in `release` bites only where units had been made up. The weight of a queue is a recursive function and the
sum of the holds a fold. Both are reasoned about by induction in the form the provers can use, over
the *set* of numbers for which a fact holds (`Induction`, from the well-foundedness of < on the naturals): first that a
function with the defining equation exists, then that any two agree (`WeightSums`, `TotalAdds`, `TotalChange`).

**Broker.** `SecretInv` follows a secret from the code (`RedeemInv`: a login is redeemed iff it has an
owner, once) to the binding (`BindingInv`: a stored secret belongs to the user who redeemed it, at
that client) to the call (`CallInv`). `MarkInv` says that a call which is about to mark
holds a version Keycloak refused. `AccessInv` says that a client with a binding or a link exists, which the
redemption keeps although it may have read the client before a deletion.

**SubAgents.** `Core` types the versions and what requests have read of them, and holds three properties
with what makes them inductive: whatever is approved or runs was let run by something, and its prompt by a person, the
host or the rules (`ReviewedInv`); a lone review finds the version as it read it (`LoneInv`). `AutomaticFits` is inductive
because a bump of an inlined skill is measured, and one of another skill leaves the inlined text as it was (`BumpedIsSound`):
the new version fits where its default did, or a person let that text run (`Excused`), which stays true because no version is
ever removed (`Kept`, `Remembered`). `Rest` is the types of the other variables.
`FollowersAreTold` looks at the only step that moves the publisher's hash.

**Turns.** `Inv` is types, the shape of cards, one condition per stage of a turn (`TurnInv`: what a turn
in that stage has seen and has to run) and one per call (`CallInv`: a call that is to run has not
run, and is in one turn only). `RelayInv` joins console and orchestrator: what the stream says
(`OutInv`), which handler owns the entry (`EntryInv`), that steering meets a working turn
unless `late`, that one turn is live, and that a prompt kept is the card in the checkpoint (`AskInv`).

**ScimPush.** What a step does to a sequence of pushes is hard on the provers, so `Effects` first puts every step as what it
does to the *set* of pushes of each task (`Loads`, `Puts`, `Adopts`, ...), from the shape of a stack (`Stacks`: only the first
push is at work, the others wait, each entity occurs once). Seven parts are then kept by effects, each with those
before it: types and references (`Types`, `Refs`); names (`Rows`, `Named`: what is sent of an entity has a name it had); `Owned`: who
knows a resource, in a sync state, a push or a late request, shares it only with entities it shared a name with, and the resource
has a name of one of them; `Clean`: while `fresh`, one task is at work on the entity, what it sends is the row, what it
has put is the row, and with no push left and no error the link leads there; `Whole`: a group that waits for its
members has each of those the endpoint does not know still to push, in its stack, or with an error noted or lost (`Waiting`), so that what is read
again afterwards is complete (`Roster`). `Clean` is not inductive without `Owned`: somebody else's late request might
put another body under the entity's id. `ResourcesAreOwn` is `Owned` for its own sake, beyond what a run checks: it says how far the
adoption of resources by name (section 3) can go.

Only model-checked: the liveness properties (`NoRunIsStranded`, `RetryIsTaken`, `DueJobMovesOn`, `EveryFileEnds`,
`ExecutionsEnd`, `PendingIsTaken`, `TurnsEnd`, `FollowUpsEnd`, `DivergenceIsTold`), which need fairness and ENABLED, out of the
prover's reach. Every other property of the passing runs is proved.

## 5. Not modelled

* **Scheduler**: creation and sharing of definitions, delivery channels, token refresh and
  exchange of a dispatch, CEL conditions (pure evaluation).
* **Catalog**: the drive adapters, extraction and summaries, pagination of the change feed,
  several sources of a catalog, prioritised batches.
* **Broker**: `revoke_token`, which has no caller; PKCE and JWT checks; sessions of the console.
* **Sub-agents**: permissions and groups, evaluation of drafts, mirrored skills beyond their text. Two overlapping
  reviews are in the module and the proofs (`raced`); the run has one at a time.
* **Conversations**: the scope check, sub-agents that ask and forwarding of their asks, sign-in prompts, client actions,
  a crash of the orchestrator, streaming buffers and persistence, feedback prompts.
* **SCIM push**: several endpoints, their configuration, endpoints that take no users, other attributes, the back-off.
* **agent-common's sandbox pool**, **user groups**, the **chat clients'** pending
  requests, and **agent-runner**: plan, below.
* **Usage, budgets, rate cards**: sums over rows; **frontends, embed SDK, voice agent, proxies**: user interface and adapters.

## 6. Plan

1. **Sharing**: definitions with several subscribers, group members, group defaults and promotion of
   edits, as a module over `JobRow`.
2. The **sandbox pool**: a pool whose entry a second
   acquire for the same key overwrites, and whose release by key may free another turn's sandbox.
3. **Clients**: pending requests and redelivered events of Slack, Google Chat and e-mail, composed with Turns.
4. **Turns**: a crash of the orchestrator, and sub-agents that ask.

## 7. Running it

    tlc -workers 2 -config Web.cfg MCScheduler
    tlc -workers 2 -config Turns.cfg Turns
    tlapm ScheduleProofs.tla

| Run | Distinct states |
|---|---|
| Stops | 3.3 million |
| Web | 3.3 million |
| Processes | 1.0 million |
| Liveness | 0.4 million |
| Budget | 0.2 million |
| Catalog | 0.9 million |
| Broker | 1.8 million |
| SubAgents | 3.3 million |
| Turns | 0.9 million |
| ScimPush | 1.1 million |

Each takes between ten seconds and three and a half minutes on two workers; Liveness, Turns and ScimPush, which
check liveness, take longest.
