# kAI: models and proofs

kAI runs conversational agents ("bots") as separate processes, each with its own
history, scheduled tasks and tools, and a web cockpit from which operators configure,
start, stop and watch them. This directory holds TLA+ models of the parts of that
program whose correctness depends on the order of events, TLC configurations that check
them on small instances, and TLAPS proofs about them for every instance. Source paths
below are relative to `src/kai/` of the repository.

## The system

| Component | State it keeps | Operations | Talks to |
|---|---|---|---|
| Conversation history (`agent/history_store.py`) | messages per conversation in an LRU dict, dirty keys, one flush task, a file per conversation, a legacy file | change, read, clear, evict, flush, migrate, load | agent turns (callers), the thread pool (writers), shutdown code, cockpit pages (readers of the files) |
| Agent turn and tool loop (`agent/core.py`, `agent/tool_loop.py`) | the messages of one turn, the goal | chat, observe, record, tool rounds, retries | LLM, tools, history |
| Task scheduler (`agent/scheduler.py`, `agent/recurrence.py`) | pending tasks in memory and in a JSON file, the polling loop | schedule, cancel, list, poll, execute | agent turns in both directions |
| Bot framework (`bots/base.py`, `bots/webhook.py`) | the bot's context, its control server | run, stop, execute a task, answer /tell, /ingest, /clear, /status | cockpit over signed HTTP |
| Email bot and webhook ingress (`bots/email/`, `cockpit/routes/connections/webhooks.py`, `cockpit/connections/webhooks.py`) | seen nonces, threads | verify, dedupe, forward, ingest, reply | providers, SMTP, agent turns |
| Run registry (`runs.py`) and bot process (`cli/bot_runtime.py`) | one JSON file per instance | register, look up and prune, remove | cockpit and command line |
| Deployment lifecycle (`cockpit/deployments.py`, `cockpit/deployment_process.py`, `cockpit/deployment_env.py`, `cockpit/app.py`, `cli/deployment.py`) | database rows | create, edit, start, stop, restart, delete, reconcile | registry, bot processes |
| Escalations (`agent/tools/escalate.py`, `cockpit/routes/escalations.py`) | a store with its file in each bot and one in the cockpit, a blacklist | raise, forward, ingest, resolve | bots to cockpit |
| Operator login (`cockpit/tokens.py`, `cockpit/auth_backends.py`, `cockpit/routes/auth.py`, `cli/cockpit.py`) | login requests and tokens, the rate limiter | request, approve, mail, consume, expire, clean up | mailer, command line |
| Connections and key rotation (`cockpit/connections/`, `cockpit/key_rotation.py`) | encrypted configurations, the active key version | save, probe, delete, rotate | deployments at start |
| Templates and tool resolution (`templates/`, `cockpit/routes/deployments/settings.py`, `cockpit/deployment_env.py`, `cli/bot_runtime.py`) | the row's overrides, entitlements | render and save settings, pass on at a start, resolve, register | deployments, bots |
| Brain client and crawler (`brain/`, `cockpit/brains.py`, `cockpit/routes/brain.py`) | documents at Morphik | provision, upload, crawl, delete | crawler, Morphik |
| Tools, cockpit pages, database models, post-processing, display and logging | none of their own, or that of the parts above | I/O | external services |

### What is hard about it, and what must hold

*History.* Everything but the writers runs on one event loop, but a flush writes in a
thread while conversations go on changing, and shutdown cancels the flush task without
being able to cancel its thread. It must hold that a changed conversation is dirty until it is
on disk, that dirty conversations have a flush on its way, that no late write brings old
contents back, and that a graceful exit leaves the files current. The migration of the
legacy file may be interrupted between any two of its writes, and be read meanwhile:
nothing that was stored may be lost or go back.

*Scheduler.* A tick pops tasks and saves, then executes for as long as agent turns take;
meanwhile other turns schedule and cancel, the process may end, and a save may have
failed. It must hold that no firing happens twice, at the wrong time or not at all, that a cancellation
lasts, that limits are kept and that due tasks start; and that the calendar passes over
no day at the ends of months and weeks.

*Turns.* Any number of turns interleave at their awaits, the model may call any tool in
any order and answer anything, and a mail may be delivered although the SMTP session
failed. It must hold that a reply goes out once, that what is recorded was sent, that
conversations are kept apart, and that every turn ends.

*Ingress.* A provider delivers an event again until it is acknowledged, the cockpit keeps
nonces in bounded memory, and the bot answers after a whole turn. It must hold that
nothing is acknowledged before it is handled, and that repeats have a reason.

*Deployments.* Rows, registry files and processes are three views of one bot, changed by
the web server, the command line, a startup thread and the bot itself, with waits of up
to 40 seconds in between and no lock. It must hold that a deployment has one bot, that a
bot can be found and stopped, that rows are consistent, and that what should run is
restarted.

*Cockpit.* Escalations live in two stores between which a single post may be lost, late or
doubled; a login request is approved by two processes, each with several commits; saves,
probes and a key rotation overlap on one row. It must hold that what the cockpit shows the
bot knows, that resolutions last, that sessions come from approvals and nobody is locked
out, and that no secret or verdict is lost.

*Tools and crawls.* A settings page is saved long after it was rendered, and a bot resolves
its tools later still; a crawl goes through a cyclic site with caps and failures. It must
hold that bots have what they need and nothing that was not granted, and that a crawl
takes every page once, at its distance, and reports what it stored.

Every hazard is listed at its line in `PROJECT.json`.

## Modules

| Module | Models | Proofs |
|---|---|---|
| `HistoryFlush` | the history store from a change down to the files, with shutdown, crash and restart | `HistoryFlushProofs` |
| `HistoryLayout` | the LRU cache, the legacy file and its migration, the pages that read both | `ServicesProofs` |
| `TaskScheduler` | the task store, its file, the polling loop and the tools | `TaskSchedulerProofs` |
| `Recurrence` | the calendar by which recurring tasks move on | `ServicesProofs` |
| `EmailTurn` | turns of the email bot: tool loop, typed actions, history, mails | `EmailTurnProofs` |
| `EventDelivery` | what the ingress promises to a provider (abstract) | |
| `WebhookIngress` | deliveries, nonces, forwarding and ingest; implements `EventDelivery` | `WebhookIngressProofs` |
| `DeploymentLifecycle` | deployment rows, registry files, bot processes and the actors that start and stop them | `DeploymentLifecycleProofs` |
| `Escalations` | escalations in the bots and in the cockpit | `EscalationsProofs` |
| `OperatorLogin` | requests, approvals, tokens, sessions, rate limiter | `CockpitProofs` |
| `Connections` | stored credentials, probes, key rotation | `CockpitProofs` |
| `ToolSelection` | tools and capabilities from the settings page to the running agent | `ServicesProofs` |
| `BrainIngest` | a Brain's documents and the crawl that adds them | `ServicesProofs` |
| `MC...` | the constants with which TLC runs them; `MCCockpit` and `MCServices` run several that share no state | |

The parts meet at interfaces that are actions in both: a popped task is an agent turn
(`StartNext`, `Finish` in `TaskScheduler`), a turn changes a conversation (`Touch` in
`HistoryFlush`, `Change` in `HistoryLayout`, `PersistTurn` in `EmailTurn`), an ingest is a
turn (`TurnEnds`, `SendReply` in `WebhookIngress` stand for `EmailTurn` as a whole), a start
of a deployment is a process whose tools resolve (`Spawn` and `Register` in
`DeploymentLifecycle`, `Start` and `BotComesUp` in `ToolSelection`).

### HistoryFlush

A message list is a version number per conversation: `mem` in memory, `disk` in the file,
0 for the empty list, which is never written but unlinks its file. `dirtyKeys` is
`_dirty_keys` (and `_dirty`), `task` is what `_flush_task` does, `thread` holds the
writer thread that the task awaits and the one it abandoned, `phase` follows `flush()` in
`_shutdown_resources`.

- `Touch`, `Open`, `Clear` are the changes made by agent turns and the `/clear` route;
  each contains the eviction (`Victims`, `Store`) that `get_history` performs, and any
  unlink may fail.
- `FlushTimer`, `WriteFile`, `WriteFails`, `FlushReturns` are one debounced flush:
  snapshot under the write lock, files written by a thread one by one, marks cleared.
- `Flush`, `DrainReturns`, `FinalFlush`, `FinalReturns`, `OrphanReturns`, `Exit` are the
  shutdown. Cancelling the task in its sleep makes its handler flush; cancelling it
  while it awaits the thread releases the write lock and leaves the thread alone.
- `Crash` at any point, `Restart` with the files, of which those beyond the cap are deleted.

Two history variables say how much may be lost. `exposed` holds the conversations whose
last change came while a writer held an older snapshot of them (or whose unlink failed):
the finding below shows that the code does lose these. `gaveUp` says that the last flush
failed and nothing has changed since: the code retries only with the next change. Every
property is exact outside these.

Left out: message contents and trimming (which change a list within one step), the exact
LRU victim (any cached conversation may be evicted) and the legacy file, which are in
`HistoryLayout`, and a second signal that forces the exit. Changes made after `flush()` has
begun are left out: the bot's server has stopped by then.

### HistoryLayout

`cache` is the order of `_history`, least recently used first, `paths` the files in the
order of their modification times, `legacy` the single file of older versions.
`GetHistory` and `EvictExcess` are the LRU discipline; `Change`, `ReadOne`, `ReadAll` and
`ClearHistory` are its callers, of which a read alone may evict another conversation.
`BeginFlush` takes everything that is cached as long as the legacy file exists;
`WriteConversation`, `PruneFile` and `RemoveLegacy` are the steps of the writer, any of
which may be the last before `BotEnds` or an error. `LoadHistory` caps the files and merges
the legacy file behind them. `ReadLegacy`, `ListFiles`, `ReadFile`, `ShowPage` are a page of
the cockpit, which runs in another process. `kept` is what is stored of each conversation
and must be found again, `promised` its value when the page began to read.

### TaskScheduler

`tasks` and `file` are functions on task ids. `Poll` is `pop_due` with its save; the
popped occurrences wait in `queue` and run one at a time (`StartNext`, `Finish`).
`BeginSchedule` and `FinishSchedule` are the two halves of `schedule_task` around the
awaited clarity judge. `Stop` cancels the loop wherever it is, `Down` ends the process,
`Restart` loads the file, in which a count of 0 reads back as no limit. A save may fail,
and then `file` keeps its old contents.

History variables: `used` has what was asked for with each id, from which `Asked` tells at
which times its task is to fire; `started`, `repeated` and `dropped` occurrences; `cancelled`
ids; `lagging` ids whose last change is not in the file and `revived` ids that a restart brought
back because of that. Time is a number of ticks and a recurrence a period. The tools
refuse to run while a task executes, so that a chat turn is never a task's own turn.

### Recurrence

One action, `Fire`, moves `due_at` on as `advance_recurrence` does, on a calendar given by
the lengths of its months and the weekday of its first day. `AdvanceWeekly` searches as the
loop does, one day at a time with a bounded number of rounds; `AdvanceMonthly` clamps the
day to the month, and goes on from the clamped day. The time of day is left out. A weekly
recurrence with weekdays stops at the first of them whatever its interval, which is a finding
(`EveryNWeeks`); `NoDayIsSkipped` is exact of it for an interval of 1.

### EmailTurn

`turn` holds the local variables of each turn, `history` the messages per conversation
(who said it, in which turn), `mails` what reached the mail server. An answer of the
language model is known by what each strategy of the parser makes of it (`json`, `kv`,
`repaired`), and `ParseStructuredText` takes the first that validates, with
`RecoverBaseAction` behind it.

- `StartInbound`, `StartOperator` begin a turn for a mail, or for /tell, a task or a
  message of the operator.
- `AskModel`, `CallAction`, `CallSendEmail`, `CallOther`, `ResolveTerminal` are the tool
  loop with its rounds, its terminal resolution in two attempts and its errors. `Decide`
  stores the messages of the turn (`PersistTurn`, with the delegated reply of an operator
  turn that is not stored in the operator's own conversation); `ChatError` stores nothing.
- `DispatchInbound`, `DispatchReply`, `DispatchConsole` send the reply, unless
  `SentViaTool`, and record what was mailed on an operator's behalf.
- `ClearOperatorHistory` is the `/clear` route.

Left out: prompts, media, streaming, the goal file, the characters by which long messages
are trimmed, and the text of anything.

### WebhookIngress and EventDelivery

A delivery is an event with the number of its attempt. `request` is where it is in the
cockpit's route, `handler` where it is in the bot, `waiting` which answer the provider still
waits for. `Receive` is the route up to the forward (freshness, nonce, parsing, finding the
deployment), `Forward` the call to the bot, `Accept` and `Refuse` what follows it, in which
the nonce is recorded after a success only. `TurnEnds` and `SendReply` are the bot.
`nonces` is the store in its insertion order: `Prune` stops at the first fresh entry and
`Record` drops the oldest entry beyond the cap. `BotCrashes` and `ContainerRestarts` end
what they end, the second one with the nonces. `Slow` lets a turn outlast `call_bot`'s
timeout, `Impatient` lets the provider stop waiting, `CanFail` lets the mail server and the
provider's API fail.

`EventDelivery` says what the provider may rely on: an event is acknowledged only once a bot
has handled it, what was given up is not acknowledged, and in the end it is one or the other.
`WebhookIngress` implements it with `handled` as the events of which some delivery was
answered "ok" by the bot, and `settled` as the provider's view. It does not promise "once":
`excused` names the events that may be handled again, each for a reason in the code
(overlapping deliveries, a turn taken for failed, a forgotten nonce, a restart), and
`RepeatsAreExcused` says that there are no others.

Left out: signatures (a delivery is genuine; only its time may be too old), the layout of
mails, attachments, and the other kinds of webhook, which take the same route.

### DeploymentLifecycle

`row` holds the committed rows, `registry` the run id in each instance's file, `proc` the
processes in the order in which they were spawned, `op` what the web server, the command
line and the reconcile thread are in the middle of, `rec` the reconcile thread's
session. A session reads a row, waits, and commits only the columns it changed
(`Merge`); `settings` is one JSON column with the control port in it.

- `Spawn`, `Register`, `FinishStart`, `AbortStart` are `start` with its waits;
  `BeginStop` and `FinishStop` are `stop`, also as the first half of `delete` and of the
  restart route, which goes on with `StartAgain` on the row that it reads again;
  `Create` and `Edit` are one step. `stop_all_for_user` is a sequence of stops by the
  command line. `WebRequest` and `Command` say who may do what: the command line has no
  restart.
- `ReconcileProbe`, `ReconcileClean`, `ReconcileNext`, `ReconcileEnd` are the two loops of
  `reconcile_deployments`, on the rows its session has queried.
- `Bind`, `Exit`, `BotDies` are the bot; one whose parent is the cockpit stays a zombie
  until the cockpit spawns again, and `record_is_live` takes a zombie for alive, as the
  real `/proc` does.
- `Restart` ends the container with every process, or the cockpit alone.

Three constants widen the model: `Overlap` lets two actors work on one deployment at the
same time, `CockpitAlone` lets bots survive a cockpit restart, `ProbeFails` lets status
calls to live bots fail. The passing run has all three off, since the code makes none of
its promises under them; what then breaks is shown by the violation runs, and under
Hazards below.

Left out: `RunRegistry.get` is one step although it reads and then removes; looking up a
live run, allocating the port and spawning are one step although the database may make an
actor wait in between; the contents of settings are a version; `StaleDataError` after a
wait leaves the row alone and its other effects out.

### Escalations

`store` and `file` are a bot's escalations in memory and on disk, `posts` what is on its way,
`cockpit` and `disk` the same for the cockpit, where an escalation is unknown, active, or
resolved by somebody. `Escalate` and `AddToBlacklist` record, save and post in one step
(the tool runs on the event loop up to the post); `Ingest`, which checks the bot's secret
and stores what came, may meet an escalation that is there already. `Resolve` is for the
owner only. Saves fail silently. `unsaved` and `undone` name what a failed save or a doubled
post may undo. What a record says is left out.

### OperatorLogin

`requests` and `tokens` are the tables, `proc` what the web server and the command line are
in the middle of: every commit is a step, so that the other process sees the rows between
`CreateRequest`, `FindRequest`, `Mint` and `Fulfill`, and either may end there
(`CockpitRestarts`, `CommandAborts`). `Recent` is the limiter's popleft, which stops at the
first post that is fresh. `Consume` is
`login_auth`, in which the token is looked up and marked in one handler. `doubled` and
`stuck` name the users for whom two approvals of one request overlapped, and those with a
request that only the command line can fulfil. Session cookies and pages are left out.

### Connections

`row` is a connection with its encrypted fields, each with the version of its key. A save is
`BeginSave` (read and merge), `CommitSave` and `ProbeAndReflect`, by threads that overlap; a
rotation is `BeginRotation` and `FinishRotation`, whose `.env` may be missing. `Encrypt`
leaves alone what looks encrypted, and `Decryptable` fails for what merely looks so. The
services' probes are outcomes. `wanted` is what the operator saved last, `verdict` what was
last said of the present configuration, `overtaken` the rows that were written from an older
one.

### ToolSelection

`row`, `entitled` and `conn` are the database, `form` the page in the browser, `spawn` the argv
and environment of a process that has not resolved its tools yet, `file` the bot's config
file. `ToolSet`, `Rejected` and `Missing` are the resolver, `TemplateToolIsOn`, `DisableOf` and
`FlagsForPost` the settings page, `Options` and `Parsed` the argv as it is written and as the
command reads it, `Registered` what the agent ends up with. A connection stands for its
variables, and `operator_enable`, which no page sets, is left out.

### BrainIngest

`crawl` holds the queue, the visited URLs and the pages of `bfs_crawl`, `fetched` the requests
made, `docs` the documents, by name and number, since Morphik stores a name again and again.
`CrawlPage` is a round of the loop with its four outcomes, `IngestPage` one of
`ingest_texts`. What a page links to is a function of its URL, its links come in any order.
Queries, the status of documents and the instruction are left out.

## Runs

| Run | Expect | Shows | Bounds |
|---|---|---|---|
| `history_flush` | pass | nothing is lost outside `exposed`, flushes are not forgotten, writes are ordered, changes reach the disk | 2 conversations, a cap of 1, 2 changes each, failing file system |
| `flush_persists_everything` | violation | a change during a write is lost at a graceful exit | cap 2, no failures |
| `task_scheduler` | pass | at most once, firings at the times asked for, cancellations last, limits hold, due tasks start | 2 tasks, one chat, 3 ticks, three recurrences (none; every 2 ticks until 3; every tick, twice), saves that fail until a restart has undone a change (`FailuresEnd`) |
| `count_limits_firings` | violation | count 0 is unlimited after a restart | 1 task, 3 ticks |
| `deployment_lifecycle` | pass | one bot, no orphans, complete rows, flagged stale bots, intent honoured | 1 deployment, 3 processes, 1 edit, 1 restart of the cockpit, 2 ports |
| `duplicate_bots` | violation | web and command line start two bots | 2 processes, `Overlap` |
| `resolved_bots_are_up` | violation | a zombie counts as live | 2 processes |
| `live_bots_are_left_alone` | violation | a failed status call clears the row of a live bot | `CockpitAlone`, `ProbeFails` |
| `email_turn` | pass | no double reply, recorded mails were sent, conversations apart, answers next to their questions, turns end | 2 turns, 2 addresses of which one is refused, 2 rounds of one call, 8 answers, 3 messages per conversation |
| `webhook_ingress` | pass | implements `EventDelivery` with its liveness, repeats are excused | an event of each kind delivered twice and a mail once, 1 nonce, freshness 0, 2 clock values, 1 crash, `Slow`, `Impatient`, `CanFail` |
| `cockpit` | pass | escalations, login and connections as described above | 2 calls, 2 bots, 2 contacts, 2 restarts; 1 user, 2 requests, 2 tokens, links of 1 tick, 2 posts in a window of 1, 3 clock values, 1 restart; 2 services, 2 threads, 3 saves, 1 rotation |
| `services` | pass | tools, crawls, calendar and history files as described above | 3 templates, 2 pages, 2 starts; 5 URLs, 3 sites, depth 2, 4 pages, 2 ingests; 2 years, 5 first days, 12 firings; 3 conversations, a cache of 2, 1 change, 2 starts, 1 page |

`cockpit` and `services` run several modules whose variables are disjoint and whose code
shares no rows or files. A behaviour of such a system is an interleaving of behaviours of
its parts, which adds nothing to a property of one part; so the instance picks a `part` in
its first state, and the others rest.

Why the bounds are enough for the interesting cases.

- History: a cap of 1 with 2 conversations makes every touch of the other conversation an
  eviction; 2 changes are needed for one change under a snapshot of another, and a third
  would repeat it; at most two threads exist at once whatever the bounds. In
  `HistoryLayout` three conversations in a cache of two let a read evict a conversation that
  is being migrated. Of its two starts the first ends in a migration that may be interrupted
  anywhere, and the second loads what it left; to set the migration off again takes a second
  change, which the run has not. With 2 changes and no page (`MaxChanges = 2`,
  `MaxViews = 0`) `StoredHistoryIsKept` holds as well, in 2 min 10 s; with the page only the
  proof covers the repetition.
- Scheduler: three ticks let a recurring task fire until its limit, be polled when its next
  firing is due as well, or reach its `until` exactly; two tasks make one wait behind the
  other. In the specification every save may fail. In the run no further save fails once a
  restart has brought a task back that a failed save had left in the file (`FailuresEnd` of
  `MCTaskScheduler`): the properties except that task by then, and the failures before are
  all there. The calendar starts at the ends of months, and the February of a common year
  clamps every later day than the 28th.
- Turns: two turns are needed for any interference between turns, and may share a
  conversation, or be an operator's that writes into the other's; two rounds let
  `send_email` fail or succeed and be followed by another call or by the reply. A history of
  3 messages is trimmed in the middle of a pair. With two calls in one answer the run also
  passes, in 4 min 25 s.
- Ingress: a second delivery is needed for each repeat; a store of one nonce and another
  mail make the cap and the expiry bite. A third attempt would only repeat the second.
- Deployments: three processes are a start, a crash or stop and start, and the one that
  reconciliation spawns; with one deployment the ports never run out, and the second port is
  there for the shifted range.
- Cockpit: two requests and two tokens are two approvals of one request or of two; three
  posts at three times fill, cross and leave a window of one tick; a save under a save
  and a rotation under a save need two threads and two saves, and the third is the earlier
  one on which they build.
- Tools: one template requires a tool of a service that the cockpit itself runs with, one a
  tool of an optional connection, and one a task tool; two pages are a stale one and a fresh
  one. Crawls: the sites are a diamond with
  a link back, a chain longer than the depth, and a page that links to all; four pages of
  five reach the cap.

Symmetry (`MCCockpit`: threads, and the two secrets of a Resend account; `MCServices`:
conversations) permutes model values that the definitions do not tell apart, in runs without
liveness. Deadlock is not checked: all these systems may have nothing left to do once the
bounded changes, ticks, turns or processes are used up.

Five more configurations are kept to be run by hand; each is violated and belongs to a
finding: `SentViaTool.cfg` (module `MCEmailTurn`), `AnsweredOnce.cfg` (`MCWebhookIngress`),
`ControlPorts.cfg` (`MCDeploymentLifecycle`), `UncheckedToolsAreOff.cfg` and `EveryNWeeks.cfg`
(`MCServices`). With `Damage = TRUE` in `Services.cfg`
`StoredHistoryIsKept` is violated as well.

### Fairness

`HistoryFlush`: weak fairness of the event loop's callbacks (timer, returning flush,
shutdown steps) and of each writer thread, since asyncio runs ready callbacks and the OS
runs threads; none of changes, signals, crashes or restarts. `TaskScheduler`: weak
fairness of the loop's next step; that an execution ends rests on the timeouts of agent
turns and SMTP. `DeploymentLifecycle`: weak fairness of the bots' own steps, of the waits,
which all have timeouts, and of the reconcile thread. `EmailTurn`: weak fairness of each
turn's steps, since the client of the language model and the SMTP session have timeouts;
nothing is assumed of what the model answers, so that termination comes from the cap on
rounds and attempts. `WebhookIngress`: weak fairness of each delivery's steps in the cockpit
and in the bot, and of the provider's schedule (it delivers again, or gives up); none of
crashes, of the clock or of impatience. The other modules claim no liveness.

## Findings

With a run of their own:

- `flush_once` unmarks every key of its snapshot after a successful write
  (`agent/history_store.py:430-434`), including one that changed during the write. The
  change stays in memory only; without another change to that conversation neither the
  debounced flush nor `flush()` at shutdown writes it.
- `Task.from_dict` turns `count` 0 into no limit (`agent/scheduler.py:150`).
- The duplicate-start guard of `start` (`cockpit/deployments.py:326`) and the commit of
  the run id (344) are up to 40 seconds apart, with no lock between processes.
- A crashed bot remains a zombie of the cockpit and passes for live
  (`runs.py:94-105`); `start` then refuses "already running" until a stop or another spawn.
- `reconcile_deployments` treats a failed status call as a dead bot in its first loop
  (`cockpit/deployments.py:538`), while the comment in the second one promises the opposite.

With a configuration to be run by hand:

- `allocate_control_port` (`cockpit/deployments.py:82`) looks at the committed rows that say
  running, and a start commits its port only when its bot is up: a start of another deployment
  by the other process meanwhile gets the same one, and the bot that binds later ends.
- `advance_weekly` (`agent/recurrence.py:11-14`) stops at the first weekday that matches
  whatever the interval is, which `Task` documents as "every N weeks". No caller passes an
  interval other than 1 as yet; the parameter is there in `schedule` and in the file.
- `send_email` returns its failures as a text (`agent/tools/email.py:233`), the call counts as
  ok, and `sent_via_tool` then keeps the bot from sending its own reply.
- `call_bot` waits 30 seconds for `/ingest` as for every other call
  (`cockpit/deployment_chat.py:33`), which the bot answers after a whole turn: a longer turn is
  refused, retried and answered twice.
- The agent's constructor registers every default tool (`agent/core.py:115`), so that what the
  operator unchecks stays on; and `build_spawn_argv` repeats `--disable-tools`
  (`cockpit/deployments.py:387`) although the option takes one value, the last.
- A legacy history file that cannot be parsed clears the conversations just loaded
  (`agent/history_store.py:177`), and the next flush deletes their files.

Seen while modelling, and modelled as the code has them:

- `format_all_conversations` (`agent/tools/conversation.py:39`) turns the LRU order round by
  reading every conversation.
- The key rotation (`cockpit/key_rotation.py:39`) leaves the secrets of webhook connections
  under their old version, which stays decryptable.

## Hazards outside the passing bounds

With `Overlap` TLC also finds rows left incomplete (a commit overwrites the whole settings
column), stale bots without a flag (an edit during a start) and orphans (the second bot's
registration hides the first). With `CockpitAlone` a restart between spawn and commit
leaves a bot no row knows, and the reconciliation spawns another. A cockpit that ends between the two commits of the restart route leaves a
deployment stopped that was meant to run: `IntentIsHonoured` speaks of rows that say so.
While an orphan writer thread finishes, the next flush may write the same file at the
same time; `flush_now` says it serialises concurrent writers, and `WritesAreCurrent` holds all the
same because a conversation in both snapshots that changed in between is in `exposed`.

## Proofs

All proofs hold for every value of the constants that satisfies the module's named
assumption (finite sets, types, positive caps). Two parts assume more, as a hypothesis of
their theorems: `~Overlap` and `~CockpitAlone` in `DeploymentLifecycleProofs`, and `~Damage`
for the history files in `ServicesProofs` (see there). Each goes the same way: none of the properties is
inductive alone, an invariant that says what the steps rely on is, and each step lemma has
one case per action and one per conjunct that the action can disturb. TLC checked each of
these invariants on the bounds of the passing run before it was proved.

`HistoryFlushProofs`, for any finite set of conversations, any cap and any number
of changes: `TypeCorrectness`, `StaleFilesAreDirtyAlways`, `DirtyHasFlushTaskAlways`,
`ExitIsDurableAlways` and, for the action property, `WritesAreCurrentAlways`. `FilesInv` adds
what the writers hold: the snapshot of an active writer agrees with memory except for exposed
conversations, and keys still to be written by an orphan are either exposed or equal in
memory. From it come `StaleFilesAreDirty` and, step by step, `WritesAreCurrent`. `FlushInv`
adds where the process is: which of the tasks and threads exist in each phase, and that a
drained or final flush has taken every dirty key with it. From it come `DirtyHasFlushTask`
and `ExitIsDurable`.

`TaskSchedulerProofs`, for any tasks, chats, recurrences and clock, when every save may fail:
`TypeCorrect`, `AtMostOnceAlways`, `FiringsAccountedForAlways`, `PositiveCountLimitsFiringsAlways` and `CancelledStaysCancelledAlways`. What a restart brings
back decides all of them, so that `FileInv` must relate the file to the store: they agree but
for `lagging` ids and for counts of 0, which load as no limit. `NumbersInv` says that the
numbers of a task's firings have no gap, `DueInv` that the store and every firing keep to
what was asked for: number k is due k periods after the first one, and was wanted under the
limits. That due times grow with their numbers (`DueTimesAscend`, where the arithmetic is)
turns this into `FiringsAccountedFor`, which speaks of times only. `OnceInv` says that a
number belongs to one occurrence among those that wait, run or were dropped, `LimitInv` that
the numbers and the store's counter are below the count, `CancelInv` that a cancelled id is
out of the store; each excepts the ids that a restart revived after a failed save.

`DeploymentLifecycleProofs`, for any deployments, settings, ports, processes and restarts:
`TypesAreCorrect` for all of the model, and, under the hypotheses `~Overlap` and `~CockpitAlone`,
`NoDuplicateBotsAlways`, `NoOrphansAlways`, `RunningRowsAreCompleteAlways` and
`StaleBotsAreFlaggedAlways`. The hypotheses are those under which the code makes its promises:
with `Overlap` the run `duplicate_bots` refutes the first of them, and with `CockpitAlone` a
cockpit that ends between a spawn and its commit leaves a bot that no row knows. `SafeInv`
relates the row, the registry file, the processes and the operation of a deployment:
`ActorsInv` says that whoever waits works alone on its deployment and finds the row as it
read it, `ReconcileInv` the same of the reconcile thread's session with the rows that it has
yet to visit (none of which has a live bot before it starts any), `BotsInv` that a live
bot is either the one of a start in progress or the one that row and file name, `RowsInv`
that rows are complete and flagged. A start commits what it read up to 40 seconds ago, so
that none of these holds without the first.

`EmailTurnProofs`, for any turns, addresses, answers of the model, rounds, calls and caps:
`TypesAreCorrect`, `NoDoubleSendAlways`, `RecordedMailWasSentAlways`, `ConversationsAreSeparateAlways`
and `AnswersFollowQuestionsAlways`. `MailInv` says that every mail of a tool call is in the
records of its turn, by which the turn decides on its own reply, `RecordInv` that what such a
record says was sent was, and `HistoryInv` that each stored message is in its place, was sent
if it says so, and follows the one that it answers. That a history is trimmed in the middle
of a pair is why it speaks of neighbours and not of pairs.

`WebhookIngressProofs`, for any events, attempts, windows, sizes of the nonce store and
crashes: `ImplementsEventDelivery`, that initial states map to initial states and every step
to a step of `EventDelivery` or a stutter, `AcknowledgedIsHandledAlways`, `TypesAreCorrect` and
`RepeatsAreExcusedAlways`. `DeliveryInv` says that the nonces in the store are those of handled
events, which needs that pruning and capping only remove entries, and that the provider waits
only for pending events. `ExcuseInv` follows an event that nothing excuses: one delivery of
it at a time is in the cockpit, the bot works only on the one that is being forwarded,
and once a bot has answered, the cockpit is still waiting for that answer or has the nonce.

`CockpitProofs`, for any users, requests, tokens, windows, limits, services, secrets, threads
and key versions. Of logins: `SessionsAreApprovedAlways`, `NobodyIsLockedOutAlways` and
`WindowsAreLimitedAlways`. `ApprovalInv` says that, unless two approvals overlapped, who works on
a request finds it pending and is alone with it, and that a link belongs to a fulfilled request
which has no other; the sessions of a user are then counted by the tokens spent, and these
map one to one to requests. `AttendedInv` says that a pending request which the web
server could approve is the one that it is approving. `LimiterInv` says that the limiter
remembers the end of the sequence of allowed posts and has forgotten only what is older than
a window, and that two posts a limit apart are more than a window apart, from which the
bound on every window follows by counting. Of connections: `SecretsSurviveAlways` and
`StatusIsOfConfigAlways`. The version number of a row stands for its contents: `Known` says that
a row that somebody read and whose version is still stored has the stored values, which
makes `SavesInv` and `RotationInv` (what a save or a rotation is about to write is right
unless the row changes first) and `ProbesInv` (a probe judges the version that it saved)
inductive. Encryption and decryption keep values, also those that look encrypted.

`EscalationsProofs`, for any bots, calls, restarts and posts: `CockpitShowsRecordedAlways`, from
`RecordedInv` (what has left a bot, on its way or stored by the cockpit, in memory or on
disk, is in the bot's store and file unless a save failed), and `ResolutionsLastAlways`, from
`DiskInv` (the cockpit's file is current but for what a failed save or a doubled post may
undo).

`ServicesProofs` has four parts that share no state. Tools, for any tools, templates, services
and forms: `BotsKeepTheirToolsAlways` and `BotsUseOnlyWhatWasGrantedAlways`, from `ToolInv`,
which carries the entitlement under which flags were saved from the row through the config
file, and the granted services through the environment of a process that is not up yet.

Crawls, for any web whose pages have finitely many links, any depth, cap and number of
ingests: `CrawlsAreExactAlways`. The property measures the distance of a URL by the walks that
lead to it over pages that had content. `CrawlInv` says that the queue is sorted by depth and
spans at most two neighbouring ones, that what waits in it was visited and not asked for, that
every page and entry is at its true distance, and that whatever is near enough was
visited or is linked from an entry that is still waiting. Distances change while the crawl
goes on, since a page counts once it has had content; the lemma `NewPage` is that a page taken
from a sorted queue brings nothing nearer than it is already.

Calendar, for any months of 28 to 31 days, any first day, rule and number of firings:
`NoDayIsSkippedAlways`. The days before a month are a recursive function, `Before`. That its
recursion is well-defined is proved for it alone, `BeforeMonths`, from a least counterexample,
as are its bounds; then dates and numbers of days correspond (`DateOfNumber`), a weekly
recurrence stops within seven days at the first of its weekdays (`WeeklyStops`), and
`CalendarInv` says that due times are dates of the calendar, follow each other as the code
has it, and that a monthly day is the first one or the length of a month since.

History files, for any finite set of conversations, any cap and any number of changes, crashes,
starts and pages: `StoredHistoryIsKeptAlways` and `PagesShowStoredHistoryAlways`, under the
hypothesis `~Damage`, without which TLC refutes the first (see Findings). `LayoutInv` has
`WritingInv`, that a flush writes nothing older than what is stored or newer than what is
cached, and that one which migrates has written, or will write, a file for everything that must
not be lost before the legacy file goes; and `PageInv`, that what a page was promised is still
stored and that the page has read it, will read it, or took it from the legacy file. The
sequences matter only by their members, so that the proofs rest on a lemma for each operation
on them; `Without` is recursive, and `WithoutLeaves` is proved from least counterexamples, too.

Only model-checked: liveness, which is beyond this prover, that is `ChangesReachDisk`,
`DueTaskStarts`, `IntentIsHonoured`, `TurnsEnd`, and that the ingress settles every event.

## Plan

Done: models and runs of every component that keeps state of its own, and a proof of each
safety invariant and action property that the passing runs check.

Left, in this order:

1. `RunRegistry.get` in two steps, a read and the removal of a record found dead, between
   which another process may write.
2. What the models leave out of the tools (`calcom`, `sql`) and of the bot framework, where it
   keeps state.

## Not modelled

- Post-processing of replies rewrites the wording of a text that is already decided on.
- Command line display, configuration and logging: parsing and output, without concurrent
  state.
- Tools that only call a service (calendar, SQL, web, image, time): their results are
  outcomes of a tool call in `EmailTurn`.
- Attachments and the layout of mails; prompts, media and streaming; the goal file.
- Session cookies and CSRF tokens: checks within one request.
- Migrations of the database run once, before the cockpit serves.
