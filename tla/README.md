# The agent platform in TLA+

This directory is a verification project for `src/agent_platform`, the local-first
office agent, with its evaluation (`src/evaluation`) and the offline bundle it is
delivered in (`src/packaging`): TLA+ modules translated from the source, TLC
configurations that check them on small instances, and TLAPS proofs of every safety
property of the passing runs for every value of the constants.

1. [The system](#1-the-system)
2. [The modules](#2-the-modules)
3. [The runs](#3-the-runs)
4. [Fairness](#4-fairness)
5. [The proofs](#5-the-proofs)
6. [Where the code and its documents disagree](#6-where-the-code-and-its-documents-disagree)
7. [What is not modelled](#7-what-is-not-modelled)
8. [The plan](#8-the-plan)

## 1. The system

One server process, one asyncio event loop. A request becomes a *task*, a row in SQLite;
a model interprets it as a call of a tool; policy, router and schema decide whether the
call may run; the tool executor runs it; a page follows the row over a server-sent event
stream. Beside that, two schedulers notify of reminders and appointments, a push-to-talk
service records and transcribes, another reads results aloud, and in its desktop form the
server runs in a supervising loop which restarts it when its settings change. Outside the
process, an evaluation command measures the model, and a builder packs everything for
machines without a network, where two scripts start and stop the services.

| component | state | operations | what can go wrong |
|---|---|---|---|
| Task state machine `core/task_state_machine.py` | – | `transition` | a state no event leaves, an end that is not final |
| Orchestration kernel `core/agent_core.py` | the coroutines themselves, the row's context | `process`, `confirm`, `_continue`, `_fail` | two coroutines on one task; rows read before an `await` and used after it; confirmations that answer another question |
| Store and task API `core/session_manager.py`, `core/task_api.py` | rows, cancellation events, subscriber queues | create, transition, cancel, initialize, purge, subscribe, publish | a restart between two transitions; a full queue |
| Tool executor `core/tool_executor.py` | receipt cache | `execute` | cancellation racing completion; a cached receipt for work not done; one key twice |
| Routes and page `api/routes.py`, `static/app.js` | EventSource | create, confirm, cancel, events | lost connections, reconnection, stale records |
| Container `api/container.py` | background tasks | initialize, spawn, close | shutdown in the middle of anything |
| Request reading `core/intent_router.py`, `core/parameter_normalizer.py`, `core/policy_engine.py`, `core/edge_cloud_router.py` | – | anchor, derive, normalize, boundary, policy, route | rules that contradict one another; repairs of what was right |
| Model gateway and adapters `core/model_gateway.py`, `adapters/` | slots of the local server | `interpret`, `generate`, `generate_text` | retries, repair rounds, a fallback that data may not reach, a slot that is not given back |
| Knowledge base `tools/knowledge_base_tool.py`, `tools/vector_store.py` | documents, the SQLite index | synchronize, ingest, search, reindex | a thread and the event loop in one transaction; a file that changes while it is read |
| To-dos `tools/todo_tool.py` | `todos` rows | create, query, update, complete, delete | an ID that changes its meaning between question and answer |
| Reminders `tools/reminder_tool.py` | `reminders` rows | create, cancel, complete, delete_all, poll | a crash between callback and commit; missed weeks |
| Schedules `tools/schedule_tool.py` | `schedules`, `schedule_notifications` | create, cancel, poll | keys committed before the callback; a window that passes |
| Voice input `core/voice_input.py` | the active recording and its PCM | start, accept, stop, cancel, close | audio thread, transcriber thread, timeout |
| Speech output `core/speech_output.py`, `adapters/zipvoice_tts.py` | WAV versions, the engine | create, close | clean-up of a file that is just being returned |
| Connectors `adapters/base_http_connector.py`, `core/connection_manager.py` | token bucket, failure counter | `execute` | idle time that counts twice; a counter shared by requests |
| Audit log `core/audit_service.py` | buffer, one file a day | record, flush, purge | a write that fails half-way, a kill |
| Desktop supervisor `core/desktop_supervisor.py`, `core/desktop_settings.py` | `.env`, backups, the controller | save, request, mark ready, rollback | watchers and timers against the loop; a backup that is gone or was never good |
| Evaluation `core/evaluation_service.py`, `cli.py` | dataset, snapshots, report | capture, replay | snapshots of other inputs scored as these |
| Offline bundle builder `packaging/windows_offline/build_bundle.py` | bundle, stages, archive | verify, stage, checksum, publish, archive | builds that overlap or are killed |
| Packaged services `packaging/windows_offline/runtime/` | state file, processes | start, stop | a process ID that belongs to another program by now |
| Authentication, settings, device tools, deployment | – | – | section 7 |

How they interact. A route creates the row and spawns `process()`. `process()` calls the
gateway, then `_continue`, which calls the executor, which waits for the tool *and* for
the task's cancellation event. Cancelling sets that event and moves the row. Every
persisted transition is published to the row's subscribers. `confirm()` runs in the
request's own coroutine. Two tools ask the gateway for text in turn; the admin page's
reindex runs in a thread beside the knowledge tool, over its connection. The container
starts the schedulers and, when it closes, waits five seconds for background tasks before
it cancels them. The supervisor owns the main thread; its watcher and timer threads reach
it through a lock. The evaluation drives a kernel of its own over a container whose tools
do nothing.

The hard behaviours, each with its line and the properties that would catch it going
wrong, are the `hazards` of `PROJECT.json`.

## 2. The modules

| module | models |
|---|---|
| `TaskStateMachine` | the states, the events and the transition table, as the relation `Edge` |
| `TaskLifecycle` | **abstract**: what the platform promises about its rows: created once, moved along the table, purged only when over |
| `AgentCore` | the kernel with the store, the executor's cache and race, the routes that drive it and the life of the process |
| `TaskStream` | subscriptions, the event stream and the page that follows it |
| `DesktopSupervisor` | supervised restart, settings, backups and rollback |
| `VoiceInput` | push-to-talk |
| `DesktopSession` | the supervisor, the pages and the recordings of one desktop session, composed for one run |
| `ServerClock`, `ReminderScheduler`, `ScheduleNotifier` | the clock and the process that the two schedulers share, and each scheduler |
| `LocalNotifiers` | the two schedulers composed in one server |
| `ModelService` | **abstract**: what callers of the gateway rely on |
| `ModelGateway` | the gateway, its adapters and the two tools that ask it for text |
| `ToolExecutor` | executions, retries and the receipt cache, for tools of any kind |
| `KnowledgeIndex`, `TodoBook` | two of the tools, with the documents and the admin page's reindex |
| `Toolbox` | the executor composed with these tools |
| `RequestReader` | from the words of a request to a call that may run |
| `SpeechOutput`, `Connector`, `AuditLog` | one component each |
| `Evaluation` | capture and replay of the fixed dataset |
| `OfflineBundle`, `PackagedServices` | the bundle's builder, and its start and stop scripts |
| `Surroundings` | everything around the kernel but the reader and the builder, composed for one run |
| `AgentCoreProofs`, `TaskStreamProofs`, `DesktopSupervisorProofs`, `VoiceInputProofs`, `LocalNotifiersProofs`, `ToolboxProofs` | the theorems about the module of that name |
| `ServicesProofs` | the theorems about `ModelGateway`, `Connector`, `SpeechOutput` and `AuditLog` |
| `SurroundingsProofs` | the theorems about `RequestReader`, `Evaluation`, `OfflineBundle` and `PackagedServices`, and about `Surroundings` |
| `MCAgentCore`, `MCDesktopSession`, `MCSurroundings` | the instances TLC checks |
| `MCBoundaries` | the same for `RequestReader` and `OfflineBundle`, composed for one run |

### AgentCore

*State.* `state`, `call`, `missing`, `result` are the row's columns (the state, the
interpreted call in the context, whether fields are missing, the kind of result).
`pc[<<t, r>>]` is where the coroutine of runner `r` for task `t` is; `"process"` is the
background one, the members of `Confirmer` are request handlers. `job` holds the
coroutine's local tool name and arguments, which may differ from the row's. `tool` is the
executor's view of the tool task. `effects`, `approved` and `shown` are history.

*Steps.* Everything shares one event loop, so a coroutine is interrupted only where it
suspends: the 50 ms sleep, the model call, the tool. `Suspended` holds these places and
`Holding` the others. Between two suspensions the module still takes one step for each
persisted transition, since the process may die between them; `LoopFree` keeps the other
coroutines out meanwhile. SQLite calls do not suspend.

*Actions.* One for each way out of each check, in the order of the checks in `_continue`:
`AskMissing`, `AnswerDrift` (`_capability_boundary`), `Refuse` (schema or policy),
`AskRisk`, `RouterRefuses`, `EnterExecution`; then the executor's `ExecuteCached`,
`ExecuteCancelled`, `ExecuteStarts`, `ToolRuns`, `ToolReturns`, `ToolCancelled`; then
`FallBack` (an empty knowledge answer becomes a chat), `UseReceipt`, `Complete`, `Fail`.
`CancelBackground` is the `CancelledError` of the shutdown.

*Data.* A call is a model value; which calls are risky, denied, invalid or answered by
the boundary are constant sets, so that the policy's decision is a parameter. The
arguments of a confirmation replace the stored ones, the tool stays (`ToolOf`). The tools
registered in `container.py` all have `retry_budget = 0`, so a tool runs once.

### TaskStream

A record is its `version`. `queue[s]` is the subscriber's `asyncio.Queue`; `Offer` is
`_publish` for one of them. The generator subscribes before it reads the row, so the first
record may be newer than queued ones; `Begin` and `Forward` are its two places of
yielding. `Disconnect` is a lost connection, `Restart` a new process: the page's
EventSource opens a new stream in both cases. A generator that never started leaves its
queue behind (`leaked`).

### DesktopSupervisor

`phase` is the main thread's place in `run_desktop`. A configuration is told apart by
where a start with it fails (`FailsIn`). `Save` is a whole `PUT /admin/settings`: after
validation nothing in it suspends. `MarkReady` is a watcher thread, which may come late,
`TimerFires` the timer of `request_restart`. uvicorn is external: it leaves by
`SystemExit` when it cannot bind, returns unstarted when the lifespan fails, and stops
once `should_exit` is set.

### VoiceInput

`stop` is three steps: `Claim` takes the recording; `StopTranscribes` closes the stream,
joins the chunks and waits; `StopAnswers` or `StopTimesOut` wipes and releases. The audio
callback (`Accept`) runs between any two of them while the stream is open. `thread` is the
transcription, which nothing can stop: while it is `"converting"` it exports the buffer
that `stop` wants to clear, and once `"running"` it owns a copy.

### The schedulers

`ServerClock` has the minute, the process and who holds the event loop: the installed
callback, `windows_toast`, never suspends, so a poll that found something runs to its end
unless the process ends. `ReminderNotify` and `ReminderCommit` are the callback of a row
and its update, `torn` remembers ends of the process between them. `SchedulePoll` commits
all keys, `ScheduleNotify` emits them; a callback that raises ends the poll. A recurrence
is the set of minutes it occurs in.

### ModelGateway

A request is a coroutine in a *round* (one call of `generate` or `generate_text`: classify,
extract, chat, polish and their repairs), a round goes through *attempts* (`first`, the
`second` one after a connection error, `fallback`), and an attempt waits for a slot of the
local server and for its answer (`progress`). An answer is the kind of error the adapter
makes of it, or `"good"`; `"unfit"` is the mock's ValidationError, which is no ModelError
and so fails the request at once. `Raised` is why the order matters: the second attempt's own
error is dropped, and the first one decides whether the fallback may follow. `Interrupted`
is a cancellation or the tool's timeout at any await. `reached` is history. The module
refines `ModelService` through `Status`.

### ToolExecutor, KnowledgeIndex, TodoBook, Toolbox

A call stands for its idempotency key; `Mutation` calls have the short key window,
`Unkeyed` ones a new key each time. The look-up and the start of the tool are one step
(`Execute`), since the cache's lock is never held across a suspension; between the tool's
end and `Store` other coroutines run, which is where two executions of one key meet.
`RetryOrRaise` is the retry loop; the shipped tools do not use it, and the model allows a
budget so that the loop's own code is covered. `lastDone` and `overlapped` are history.

`KnowledgeIndex` goes statement by statement (`DeleteChunks`, `UpsertDocument`,
`InsertChunks`, `Commit`), because the reindex thread shares the connection: `row` is the
index as the connection sees it, `saved` what is committed, and a rollback of either
indexer takes back both. A version of a document stands for its text and its modification
time. In `TodoBook` every operation is one transaction under the tool's lock. `Toolbox`
composes them: a tool has no await, so the executor's own steps wait while one runs.

### RequestReader

A *form* is a wording: one for each pattern of the router, the normalizer and the
boundary that the properties tell apart, so that a regular expression is the set of forms
it matches. `ExtractsArguments` lets the model answer whatever its acceptance schema
admits; then come `NormalizesArguments`, `AsksOrAnswers` (missing fields, capability
boundary), `Evaluates` (schema, policy), `UserConfirms` and `RoutesCall`, in the kernel's
order. On a creation of an appointment `RangeMoved` takes the end of a range away before
`TimeRead` looks at the start. `UserConfirms` merges what the client sends with its
confirmation into the call, whichever question was asked, and the checks are gone through
once more; `supplied` remembers the fields that came from the client. Policy rules are
those of `config/policies.yaml` and `config/policy_rules.yaml`.

### SpeechOutput, Connector, AuditLog

`point` is where a request to read a task aloud is, from the task's lock over the thread
that holds the engine to the clean-up; a version's number stands for its modification
time. `close()` waits for the engine on the event loop's own thread, so nothing else goes
on (`Serving`). In `Connector` time is counted in ticks in which `Rate` tokens come back;
the failure counter is shared by its clients, as in the code. `AuditLog` has the buffer,
the copies of each event on file and the calendar: `FlushFails` writes the days before the
failing one and a prefix of that one, and keeps the whole buffer.

### Evaluation, OfflineBundle, PackagedServices

A run loads the dataset, takes one line per case from the model or from the snapshot file,
scores it, writes the snapshots and then the report; the dataset may be edited in between,
and a kill may leave a prefix of the file. The snapshot file a replay reads is the one the
captures write.

A directory of the builder maps each of six kinds of files to the build it came from. A
builder is a record: its place, its build, its stage. Stages are private and grow in
steps. What has the bundle's name is shared: `MakesRoom` removes it file by file in any
order, another builder may publish meanwhile, and `OpensArchive`, `ZipsFile` and
`ClosesArchive` read it one file at a time, in the order of the names, each file as it is
by then. `archive` is a set of zips since two builders that write to one name leave parts
of both.

The scripts are modelled with the process table of the machine, in which a free ID may be
given to any program, and the port of each service. A stop may fail: `Stop.ps1` then ends
and keeps the state file, `Start.ps1` warns (`warned`) and removes it all the same.

### DesktopSession

The supervisor boots a server; once that is up, the session goes on with the supervisor's
restarts, with the pages of a task or with recordings (`part`), for the reason given for
`Surroundings` below. It turns to the pages or the recordings before the first save only:
the three share no variable, so it is enough to do so once. A restart of the server under
the pages is `TaskStream!Restart`. Every step of the session is, by `Turn`, a step of one
of the three modules, in which the other two stutter.

### Surroundings

These components share no variable with one another. A behaviour of `Surroundings`
chooses one of them, `part`, and lets it run while the others stay at their start. A
property of one component is a formula over that component's variables, and steps of the
others leave these unchanged, so a behaviour of all of them side by side violates it only
if its projection to the component does, which is a behaviour of one `part`. Interleaving
them would multiply the states and show nothing more. That a behaviour of `Surroundings`
is one of every component's own specification is a theorem (`EachPartByItself`). Within a part everything that does
interact is composed: both schedulers in one server, tools under their executor, requests
over one gateway. `"documents"` and `"todos"` are two instances of `Toolbox`: the knowledge
base asked by one worker, the to-dos by all.

## 3. The runs

| run | bounds | shows |
|---|---|---|
| `agent_core_single` | 1 task, 2 confirm handlers, 8 calls (one of each kind), 2 stops | `SingleRunner`, `EffectOnce`, `EffectsPermitted`, `NoToolAfterEnd`; that the kernel implements `TaskLifecycle`; and `Settles`: a task that is not waiting for its user ends, or comes to wait for him |
| `agent_core_pair` | 2 tasks, 1 handler, 4 calls, 1 stop | what the shared cache and the events can mix up: `CancelEventMeansCancelled`, `DeliversWhatWasDone`; and `IInv`, the invariant of the proofs |
| `desktop_session` | 6 configurations, 4 saves, 2 backups kept; 2 pages, queues of 2, 4 versions, 1 lost connection or restart; 2 recordings, at most 3 units of sound in chunks of 1 and 2 | of the supervisor `BackupOnDisk`, `EndIsExcused`, `RollbackIsReported`, `Resolves`; of the pages `QueuesGapFree`, `NothingMissed`, `EndIsLast`, `SeesTheEnd`; of the recordings `MicrophoneIsActive`, `NothingCutOff`, `Released`, `Frees` |
| `surroundings` | below | sixteen properties of the components around the kernel |
| `boundaries` | 41 forms, 3 roles, 2 domains, 2 data classes, 3 fields and 2 values a client may send; 2 interchangeable builders, 3 builds (one may be an earlier one), 4 kinds of build of which the gate refuses one | of the request `NamedItemWins`, `RepairsDoNotBreak`; of the bundle `BundleIsWhatItSays` |
| `agent_core_restart`, `agent_core_risk`, `desktop_supervisor_double`, `voice_input_timeout`, `knowledge_shared_connection`, `request_update`, `executor_double_click` | as above, or smaller | violations: section 6 |

| part of `surroundings` | bounds | shows |
|---|---|---|
| `gateway` | 2 requests, 1 slot; mock, cloud and queueing local adapter, with and without fallback; one open and one closed level | `SlotsKept`, `ImplementsService` |
| `documents` | 1 document with 2 versions, 1 reindex, receipts for 2 ticks, 1 retry | `AnswersAreRecent` |
| `todos` | 2 workers, 5 calls, 2 to-dos, a window of 1 tick, 1 retry | `TodosAreSound`, `NoRepeatInWindow` |
| `speech` | 2 requests, 2 tasks, 3 versions of which 2 are kept | `NewestOnDisk` |
| `connector` | 2 clients, rate 1, burst 2, 1 retry, 4 ticks | `RateRespected` |
| `audit` | buffer of 2, 4 events, 3 days, 1 day kept, 1 failed write | `AuditKeepsAll` |
| `notifiers` | 1 reminder, 1 schedule with 1 or 2 occurrences, 5 minutes, a week of 2, 1 end of the process | `NoWeekSkipped`, `RepeatsAreTorn`, `ToldAtMostOnce`, `MissedOnlyWhileDown`, `DueIsCalled` |
| `evaluation` | 2 cases, 1 edit, 2 runs, 3 answers | `ReplayAgrees` |
| `packaged` | 2 windows, 2 process IDs, 2 scripts | `OnlyServicesStopped`, `NothingLeftBehind` |

No run lists a type invariant among its properties. For the kernel, the stream, the
supervisor, the gateway and voice input it is a theorem of its own (section 5), for the
other components part of the inductive invariant, where a proof needs it;
`Surroundings!TypeOK` and `DesktopSession!TypeOK` are stated, hold on the same instances, and
can be added to the cfgs. The builders of `boundaries` are a symmetry set: no definition
tells them apart, and the run has no liveness property.

Why the bounds are enough. *Tasks*: two tasks interact only through the cache and the
event loop; a third adds no new pair. *Confirm handlers*: two are the smallest race.
*Calls*: one per way a call can be treated. *Stops*: two let a crash be followed by
another in the recovered state. *Queues*: capacity 2 with 4 versions overflows before and
after the first read. *Saves*: four with two backups kept let refused saves prune a
pending backup, and a second save replace the first. *Recordings*: a second one meets what
the first left behind. *Minutes*: with a week of two, two weeks can be missed while the
server is down. *Slots*: one slot and two requests make one of them wait until its queue
timeout. *Versions*: the second is the change that falls between two steps of an
ingestion. *Ticks*: two let a window end and the next begin. *Written*: the third version
is the first that displaces one. *Days and events*: a buffer with events of two days, and
a day that is past retention. *Edits and runs*: a capture, an edit and its replay.
*Scripts*: two are the smallest overlap. *Builds*: two overlap while a bundle of a third is
in the way; with files of one kind removed and zipped in one step each, every mixture of
two builds occurs. *Client*: an argument it may set for each that a property looks at. The proofs of section 5 remove the bounds for
every safety property.

Deadlock is not checked: tasks end, the desktop ends, counters reach their bounds, and
then nothing has to happen.

## 4. Fairness

- *Kernel.* Strong fairness of each coroutine: asyncio's ready queue is first in, first
  out, so a coroutine that is ready again and again is resumed. Model and tool calls end
  since both run under timeouts. A server that closes exits, and a stopped one is started
  again. Users need not act.
- *Stream* (`DesktopSession!StreamFairness`). Weak fairness of serving each page: generators are resumed, the network
  delivers, and an EventSource reconnects by itself (the page relies on it,
  `static/app.js:293`). The task need not go on, connections need not hold.
- *Supervisor* (`DesktopFairness`). Threads are scheduled and timers fire. Nobody has to save.
- *Voice* (`VoiceFairness`). A claimed recording is carried on and its timeout comes. The transcription
  need not end: `Frees` holds although no fairness is assumed of the thread.
- *Schedulers* (`Surroundings!Fairness`). Both loops poll every half second for ever (a
  minute does not pass on a running server while something is due), and a stopped server
  is started again. Strong fairness, because the other loop and requests keep taking the
  event loop.

The other parts of `Surroundings` have safety properties only, and `ModelService` promises
nothing that needs fairness: whether an answer comes is the server's affair.

## 5. The proofs

Every safety property of a passing run, invariant or action property, is a theorem, and so
are both refinements. A proof module proves its theorems from the named assumptions of the
modules it extends and from nothing else: `CallAssumption`, `CapAssumption`,
`SupervisorAssumption`, `VoiceAssumption`, `ClockAssumption`, `WeekAssumption`,
`ScheduleAssumption`, `GatewayAssumption`, `ExecutorAssumption`, `TodoAssumption`,
`KnowledgeAssumption`, `ToolboxAssumption`, `SpeechAssumption`, `ConnectorAssumption`,
`AuditAssumption`, `EvaluationAssumption`, `KindAssumption`,
`PackagedAssumption`. They say that bounds,
times and sizes are natural numbers; that a queue, a slot, a burst, a buffer, a week, a
first version or the number of backups or versions kept is not empty; that sets of calls,
levels and answers are subsets of one another as the code has them; that names for nothing
(`NoCall`, `None`, `NoPid`, …) name nothing; that the knowledge question is not a mutation
and a document is not a call; and that the requests of a gateway are finitely many. TLC
evaluates them in the runs. Every inductive invariant was checked by TLC on the run's
instance first.

### The kernel

| theorem of `AgentCoreProofs` | says |
|---|---|
| `TypeCorrect` | `Spec => []TypeOK` |
| `OneRunnerPerTask` | no task is ever driven by two coroutines |
| `EventsOfCancelledTasks` | a set cancellation event belongs to a cancelled row |
| `NoToolStartsLate` | a tool is started only for a row that is executing |
| `EffectsHappenOnce` | a task makes one call take effect at most once |
| `EffectsArePermitted` | a risky call takes effect only on the user's approval; a refused one never |
| `DeliveriesWereDone` | a delivered receipt stands for work that was done |
| `KernelImplementsLifecycle` | `Spec => Tasks!Spec`: every step is a step of `TaskLifecycle` or a stutter |
| `InductiveInvariant` | `Spec => []IInv` |

The argument. None of the safety properties is inductive. `IInv` is the conjunction of
four groups, each proved relative to the ones before it:

- `Control` says which row state each place of a coroutine fits (`Fits`), that a runner is
  alone, that a cancelled row's running coroutine has its event set (`Informed`), and that
  a stopped process holds nothing. `SingleRunner` needs `Fits`: a confirm handler starts
  only from `awaiting_confirmation`, and no place of a coroutine fits that state. This is
  what stands in for the lock the kernel does not have.
- `Spending` says what has had no effect yet: rows before execution, a scheduled tool, a
  tool that only asked back. `EffectOnce` follows because a tool that did something leads
  to `delivering`, from where nothing executes, save the fallback, which runs another call.
- `Clearance` says that a coroutine past the policy runs a call its user approved, if it
  is risky. It needs `Control`, since only a confirm handler skips the question.
- `Backing` says that cached and delivered outcomes were performed by some task.

One lemma per action shows that it preserves a group; the action properties and the
refinement follow from `Control` and `TypeOK`.

### The stream

| theorem of `TaskStreamProofs` | says |
|---|---|
| `StreamTypeCorrect` | `Spec => []TypeOK`; in particular no queue exceeds its size |
| `QueuesHaveNoGap` | a queue keeps the newest records without a gap |
| `NothingIsMissed` | a generator with nothing to forward is at the row's version |
| `EndComesLast` | no response goes on after the terminal record |

The invariant is their conjunction with two facts: a generator that can still yield has
yielded no terminal record (`Unfinished`; without it a second record could follow the
terminal one), and lost subscriptions are no more than lost connections. Two lemmas,
`OfferType` and `OfferGapFree`, say what `_publish` does to one queue. `NothingMissed`
rests on `QueuesGapFree`: the last record of a queue is the row's version, so a generator
that has emptied its queue has just forwarded that one.

### The supervisor

| theorem of `DesktopSupervisorProofs` | says |
|---|---|
| `DesktopTypeCorrect` | `Spec => []TypeOK` |
| `BackupStaysOnDisk` | the backup of a pending restart is on disk, up to refused saves |
| `EndsAreExcused` | the loop ends by itself only with a named excuse |
| `RollbacksAreReported` | a server that is to stay up runs what was saved last, or says that it was rolled back |
| `OldConfigReturnsOnce` | a rollback puts back a configuration that has been up, unless a second save came before the first was booted |

`DesktopInv` adds four parts. `BackupsCounted`: the backups on disk are the newest ones,
and only refused saves have come after the one that a rollback would use, so that the
pruning can be counted. `LoopKnows`: what the main thread knows where it is; in particular
a server that stopped was told to, which is what makes `EndIsExcused` hold at `Again`.
`EnvIsAsked`: `.env` is what was saved last, or was put back, or does not start; and
`Recoverable`: without one of the excuses a restart under way was asked for and leads to a
configuration that starts, or is taken back to one. `Recoverable` is the heart of
`EndIsExcused`, which says nothing of the steps that lead to the end.
`OldConfigReturnsOnce` is the promise of ADR 0005 with the condition that
`desktop_supervisor_double` shows to be needed; it adds `Returning` (up to one save after a
start the backup is a configuration that was up, and a loop that starts for the first
time has none).

### The components around the kernel

| theorem | says |
|---|---|
| `ServicesProofs!GatewayTypeCorrect`, `SlotsAreKept` | the gateway's types; a slot is free or held by one call |
| `ServicesProofs!GatewayImplementsService` | `GatewaySpec => Service!Spec`: the gateway refines `ModelService` |
| `ServicesProofs!RateIsRespected` | no interval sees more grants than the burst and what came back in it |
| `ServicesProofs!NewestStaysOnDisk` | the version returned last can be played |
| `ServicesProofs!AuditKeeps` | every event is in one place until its day is over, save for kills and failed writes |
| `ToolboxProofs!TodosStaySound` | IDs are never given twice, `completed_at` follows the status |
| `ToolboxProofs!WindowIsKept` | a mutation has its effect once within the window, with the exceptions of section 6 |
| `ToolboxProofs!AnswersStayRecent` | a live receipt shows no version replaced longer than its lifetime ago |
| `ToolboxProofs!IndexFollowsAlone` | at rest an indexed time vouches for the indexed text, unless ingestions overlapped |
| `VoiceInputProofs!VoiceTypeCorrect`, `MicrophoneStaysActive`, `NothingIsCutOff`, `AnsweredIsReleased` | the type invariant and the three safety properties of voice input |
| `VoiceInputProofs!OnlyTimeoutsLeaveCopies` | a transcription goes on after the answer only if that was a timeout |
| `LocalNotifiersProofs!ToldOnce`, `MissedWhileDown` | an occurrence is told at most once, and untold only after an outage |
| `LocalNotifiersProofs!RepeatsWereTorn`, `WeeksAreCalled` | a reminder repeats only after a torn call, and no week is skipped |
| `SurroundingsProofs!NamedItemAlwaysWins` | the item a literal request names is the one its tool is called with, unless the client's confirmation sets it |
| `SurroundingsProofs!RepairsKeepWhatIsValid` | the normalizer breaks no valid arguments, but in three cases |
| `SurroundingsProofs!ReplaysAgree` | a replay gives unchanged cases the capture's rows, changed ones no credit |
| `SurroundingsProofs!BundleTellsTruth` | what passes the check of its checksums, a directory or out of an archive, is one build's and truly labelled |
| `SurroundingsProofs!PackagedLeavesNothing`, `PackagedStopsServices` | no service without a state file but those warned of, no other program stopped |
| `SurroundingsProofs!EachPartByItself` | `Spec => GatewaySpec /\ … /\ PackagedSpec` |

They are theorems about the specification of the component itself (`GatewaySpec`,
`ToolboxSpec`, …). `EachPartByItself` carries them over to `Surroundings`: every step of
the whole is a step or a stutter of each component. The inductive invariants:

- `GatewayInv` adds `Orderly` to the types and `SlotsKept`: nothing is under way for a
  request that asks nothing, and only a request of an open level is on its way to the
  fallback. `SlotUse` and `SlotBalance` count what one request's step does to the set of
  calls that hold a slot; every action is then an instance of one of three step shapes.
  The refinement follows because an attempt moves `Status` only when its round ends.
- `RateInv` adds `Budgeted`: what was granted since the i-th grant, *together with what is
  in the bucket*, is at most the burst and what came back since. Without the bucket's
  content the claim is not inductive. `RefillAddsUp` is its only nonlinear step.
- `SpeechInv` adds that requests which hold a task's lock are alone (`OneAtATime`), that
  the thread holds the engine (`EngineHeld`), and that a file is on disk between its
  writing and its return (`WrittenOnDisk`).
- `AuditInv` adds that an event waits in one place of the buffer only (`Once`) and that
  nothing is on file before it was recorded. The lemma about `Flush` is stated for the
  buffer it is given, since `record` flushes the one with the new event in it.
- `TodoInv` adds `Fresh`: no ID above `sqlite_sequence` was given to a row. `WindowInv` says
  that a receipt lives as long as the effect it stands for is in the window, and that a
  keyed call under way was not done in the window, unless another overlapped it.
- `IndexInv` is about the index while no ingestions have overlapped (`IndexKept`): an
  indexed time is never newer than the text indexed with it (`Vouched`), because an
  ingestion reads the time first (`IngestionKnows`); and the documents that a query has
  looked at are indexed as they were in this tick of the clock (`LookedAt`). `ReceiptInv`
  then bounds a receipt's end by the moment its version was replaced. `WholeInv`, for
  `IndexFollowsAlone`, adds that only a document that is being replaced has a time without
  chunks.
- `VoiceInv` adds that the request which ends a recording has claimed the active one
  (`ClaimIsActive`) and that the buffer holds what was accepted until the samples are
  taken (`BufferIsWhole`). `ThreadsLeft` follows the thread into the ended request.
- For the schedules, `RecordedFirst` (nothing unrecorded or pending has been told) and
  `ChancesWereDown` (a chance let pass fell into an outage). For the reminders,
  `BatchIsCurrent` (a poll's rows are as it read them), `CallsCounted` (an occurrence to
  come was called for no more often than it was torn) and `WeeksAligned`; `NextMultiple`
  and `NothingBetween` are the facts about multiples that week arithmetic needs.
- `ReaderInv` says what each place between the anchors and the router knows of the form,
  the intent and the names of its arguments, and what the repairs have left in the fields
  the client did not set (`AfterRepair`). `RepairsKeepWhatIsValid` is one lemma per tool
  about `Normalized` and `Valid`, for arguments with these names only: they are what its
  acceptance schema (`Fields`) lets through. For appointments it goes step by step, since
  `RangeMoved` breaks a custom range (`CustomRange`) and nothing else.
- `EvaluationInv` says that the captured rows are those of the lines on file
  (`FileIsCaptured`) and that a run takes the cases in order, from the model or from the
  file as it still is (`TakenInOrder`). A replay's rows then follow from what one line
  gives, `RowOf` and `ReplayOf`, which do not depend on the run in progress.
- `BundleInv` says that every file outside the stages is one that its build has and was
  published after its checksums were taken (`Genuine`), that what has the bundle's name
  holds files of one build (`Only`), and that a zip whose first file (the metadata) and
  last one (the checksums) are of one build is of that build only (`Sealed`). The heart is
  `ZipsWell`: while anything of the build whose metadata was zipped is still under the
  bundle's name, the zip holds nothing else; once it is gone it does not come back, so
  that the checksums zipped last are another build's. `Only` fails of archives, and so
  does their label (section 6).
- `AllAccountedFor` says which of a script's own record and the state file names each
  service, at every place of the script. Its first version was not inductive: a start that
  is about to spawn the agent has to know that none runs yet, since a failure behind that
  point cleans up only what the script itself has started. A start that could not stop
  something has `warned` of it before it removes the file (`Unwarned` is the rest).

### Only model-checked

Liveness (`Settles`, `SeesTheEnd`, `Resolves`, `Frees`, `DueIsCalled`), since fairness and
ENABLED are beyond the prover; and the seven violations of section 6, which are
counterexamples. For four of these a theorem says what does hold: `OldConfigReturnsOnce`,
`IndexFollowsAlone`, `OnlyTimeoutsLeaveCopies`, `WindowIsKept`. What a recurrence or a
regular expression computes for every input is an induction over data, which the prover
cannot do; no module here declares a RECURSIVE operator.

## 6. Where the code and its documents disagree

- **Unfinished tasks are not resumed** (`agent_core_restart`). `SessionManager` promises to
  "recover non-terminal work after restart"; `TaskAPI.initialize` gives such rows a
  cancellation event and nothing else.
- **A risk confirmation can be skipped** (`agent_core_risk`). After a question for missing
  fields, `confirm()` continues with `confirmed=True`, so a call the policy wants confirmed
  runs without having been put before the user as such.
- **A rollback may restore a configuration that was never up** (`desktop_supervisor_double`).
  Two saves before the restart make the first one the backup. ADR 0005 says the old
  configuration is started again; here it fails too and the desktop ends.
- **A recording outlives its timeout** (`voice_input_timeout`). The README says PCM is
  cleared immediately; the transcriber thread goes on with a copy.
- **"Update to-do 7 to completed" is always answered with a question** (`request_update`).
  The normalizer repairs it to an update, the capability boundary sees 完成 and expects a
  completion. `docs/releases/2026-08-06-local-functional-hardening.md:32` lists the
  sentence as supported.
- **The reindex does not open a second connection** (`knowledge_shared_connection`), as the
  comment at `vector_store.py:123` says. Its statements and a query's form one
  transaction, and a document can stay indexed as current with other chunks or none.
- **Double clicks are not always absorbed** (`executor_double_click`). The comment at
  `tool_executor.py:31` says they are; two executions of one key that overlap both look
  into the cache before either has stored its receipt, and both mutate.

Further observations. Those that a passing property excepts by name are described by it
and not caught: the code does behave so, and what is checked is that nothing else does.

- *Voice.* A timeout that falls into the conversion raises BufferError and leaves the
  service busy (excepted in `Released` and `Frees`).
- *Supervisor.* Refused saves can prune a pending backup (excepted in `BackupOnDisk` and
  `EndIsExcused`), a second save or a late watcher can make the desktop forget a restart
  request and end (excepted in `EndIsExcused`).
- *Executor.* A mutation also repeats after a cancellation that came after its effect, and
  overlapping executions are excepted in `NoRepeatInWindow`, which is about calls one after
  the other.
- *To-dos.* A title may be updated between the question whether to delete the row and the
  answer (`todo_tool.py:247`), so the row deleted is the one confirmed, under a new title.
- *Bundle.* An archive may be labelled for another build. `create_archive`
  (`build_bundle.py:764-771`) zips the shared directory file by file: a local-validation
  build with `--archive` reads its voices, a distributable one with `--replace` takes the
  name, and the zip gets that one's status, "All selected assets passed the recorded
  redistribution gate." (`build_bundle.py:928`). `OfflineBundle` reaches that archive; the
  checksums in it give it away (`BundleIsWhatItSays`), the status by itself does not.
- *Words.* `RepairsDoNotBreak` excepts "每周…" without a weekday (which the page offers), an
  update to an unknown value, and a creation with `range: custom`, from which the repair
  takes the end of the range that the schema then asks for (`schedule_tool.py:118`): the
  repair makes valid arguments invalid.
  A client may send arguments with any confirmation, so `NamedItemWins` excepts an action
  or an ID that the client has set.
  `NamedItemWins` holds for wordings the program reads itself; "办结/移除待办 N",
  "删除日程/提醒 N", "取消待办 N" and "请取消提醒 N" take the model's ID. An unanchored
  "完成提醒 1" may complete a to-do if the model classifies it as one. With the mock
  "删除提醒 1" becomes a creation, and "总结：…调整语气…" may become a change of tone.
- *Knowledge.* A removed document stays searchable until it is written again.
- *Audit.* Old files are purged at a start only (`container.py:140`), so a process that
  runs on keeps them.
- *Connectors.* Nothing calls `ConnectionManager.execute` yet.
- *Evaluation.* Duplicate case IDs are captured but refused on replay; a snapshot file cut
  between two lines replays as missing cases; neither file is written atomically. On the
  command line a replay may score another file than the baseline it is compared with; the
  module takes them as one.
- *Bundle.* The old bundle is removed before the new one is ready; inputs are verified and
  copied later. A complete self-check also wants the licences accepted and the voices
  there, so that a fresh bundle does not pass it; the property is about its checksums
  (`PassesSums`), which leave out `active-model.txt`, `license-acceptance.json` and
  `voices.json`. With the
  current lock (`qwen`, `zipvoice` and the voice references blocked) a distributable build
  is always refused.
- *Packaged scripts.* A failed start that cannot stop what it has started warns and removes
  the state file all the same (`Start.ps1:163-172`; excepted in `NothingLeftBehind`).
  Starts that overlap or are killed leave services no state file names, so that a stop finds nothing to stop (the release notes report no port left after
  a stop, which is true of scripts that run alone: `NothingLeftBehind`). A stale state file
  whose process ID has passed on makes both scripts refuse.

## 7. What is not modelled

- Wording: prompts, answers, summaries, the page's rendering, the Chinese time parser's
  grammar (a time is given or not).
- Numeric content: embeddings, retrieval scores, audio levels (a flag `loud`), resource
  figures (flags of the router).
- The expansion of recurrences: a recurrence is given as its set of occurrences.
- `compare_reports` and the reports' formatting, the settings files' serialization, the
  weather connector's fields.
- Authentication: requests of other sessions are refused before anything changes. Device
  tools, deployment and benchmark scripts run outside the product.
- SQLite failures, save in the knowledge base. A failing commit leaves no trace in the
  code's own state.
- Four small hazards: a client that is gone before its generator starts leaves its queue
  subscribed (`routes.py:115`; `leaked` in `TaskStream` has it, no property forbids it);
  cancellation events are kept for life (`task_api.py:85`); the process ends between the
  replacement of `.env` and the restart request (`desktop_settings.py:174`); a confirm
  handler that is cancelled does not fail its task (`agent_core.py:357`).
- The moment between a packaged script's last look at a process and its end
  (`Common.ps1:470` and `474`): `OnlyServicesStopped` is about process IDs that pass to
  another program before the last look.
- What a to-do says beside its status; the connectors' failure counter beyond its being
  there (`RateRespected` is about the bucket).
- The role and the domain of a request are chosen anew at each evaluation of the policy,
  which admits more than the code does; a task keeps them.

## 8. The plan

Done: the kernel with its lifecycle, the stream, the supervisor, voice input, the
schedulers, the gateway with its service, executor and tools, speech output, connectors,
the audit log, request reading, evaluation, bundle and packaged services; proofs of every
safety property that the passing runs check.

What is left, in order of importance:

1. What does hold of the three remaining claims of section 6: which unfinished tasks a
   restart leaves behind (all but those awaiting a confirmation), which risky calls can run
   without having been shown, and that an update to a completed status is always answered.
2. The type invariants that no proof needed, `Surroundings!TypeOK` as a theorem; that a
   behaviour of `DesktopSession` is one of each of its parts.
3. `Recurrence` and `ChineseTime`: pure operators against reference definitions, checked
   over bounded inputs; then the sets of occurrences of `ScheduleNotifier` are theirs.
4. An abstract specification of a tool with candidates and confirmations, which the to-do,
   reminder and schedule tools implement, composed with the kernel's confirmations.
5. The supervisor and the kernel composed: a restart by the supervisor is the kernel's
   `Stop`, and a save in the middle of a task's work.
