# Specialist Model Studio: verification project

TLA+ specifications of the core of Specialist Model Studio (the Python package
`model_harness`), the TLC configurations that check them on small instances, and
proofs that TLAPS checks for every value of the constants. All source references are to
this repository; `PROJECT.json` maps every definition to its lines.

## 1. The system and its parts

The backend is one Python process per runs directory: a FastAPI application whose
`async def` handlers share one event loop, whose `def` handlers run in a thread pool, and
whose training work runs on a `ThreadPoolExecutor`. All durable state is JSON files.

| Component | State | Operations | What is hard | What makes it correct |
|---|---|---|---|---|
| Run state and event log (`state.py`) | `run_state.json`, `events.ndjson`; one in-memory copy per thread | load, save, event, transition, request_cancel, cancel, interrupt, fail | every thread saves its own copy of the whole document; two writes per event | events numbered without gap, cancel requests kept, one verdict |
| RunService (`service.py`) | futures, work queue, closing flag | submit, cancel, resume, apply_strategy, close, recover_stale_runs | `Future.cancel` against pick-up; draining; restart | nothing runs after a verdict, nothing orphaned, close returns and has drained |
| Run worker (`runner.py`) | its copy of the Run | prepare_run, execute_run with checkpoints | cancel between checkpoints, failures outside the `try` | a cancel in time is honoured; a verdict is left behind |
| Run event stream (`server.py`) | cursor per connection | poll log, yield records, poll status | two unrelated reads, a client that leaves between two records, reconnection, restart | each event once, in order; the stream ends |
| Task ledger (`workspace.py`) | `task.json`, contract file, revisions, approvals | views, update/confirm contract, archive, start, resume, apply strategy, cancel, reconcile | three documents per start, crash between any two, views written back outside the lock, cancellers with old copies of a Run | no Run without consent, every Run accounted for, one Run at a time |
| Delivery authorizations (`delivery_authorizations.py`) | one record per approval | issue, reserve, complete | retries, stale scope, failures half-way | one approval starts at most one Run, of the approved scope |
| Writer lease and startup (`server.py`, `startup_lifecycle.py`) | an OS lock | acquire, release, wait | two processes, recovery before the lease | one writer |
| Conversation stream broker (`conversation_stream.py`) | per-task hub: history, cursor, epoch, subscribers; reservations | reserve, register, project, append, replay, wake, GET, cancel, evict, close | bounded history, slow or late subscribers, threads that outlive their request, errors that end an epoch | snapshot plus records is the conversation; nobody waits in vain; one hub per task; close leaves nothing running |
| Agent runs (`multi_agent.py`, `agent_bridge.py`) | `team.json`, audit ledger, the hub's pending checkpoints | submit, refresh, answer, discuss a checkpoint, cancel, archive | the agent runtime is another process and moves on between any two calls; replies get lost | a message delivered once, no answer invented, a stop that stays, an archive that strands no message |
| Model binding and attempts (`workspace.py`, `model_source_store.py`, `repository_analysis_store.py`) | attempts, intents, binding records, pointer, receipts, task | queue, cancel, read, commit, recover | a long read without the lock, seven writes per commit, death between any two, a failure after the commit | attempt, binding and task agree; a binding takes effect on a task at rest |
| Dataset upload (`workspace.py`) | receipts, imported data sets with reports, contract file, task | begin, import, commit, complete, recover a receipt; update the contract, revise the TaskSpec | four files per import, retries after a crash, contract and task written one after the other, views written back meanwhile | a request imports once, a completed receipt is true, a Run trains on the data the task shows |
| Contract and spec revisions, training plans, feasibility, blockers | append-only stores | write, supersede, gate | staleness | gates read current revisions |
| Isolated execution, evidence, recipes, web client, deployment | files, containers, UI | - | mostly I/O and computation | - |

Interactions: the HTTP handlers call the task ledger; the ledger authorizes, writes an
intent and calls `RunService.submit`; the service creates the Run's directory and hands it
to a worker; the worker and cancellers write the Run's two files; the event stream and
`_view` of the ledger read them. A restart first recovers Runs (`recover_stale_runs`),
then binding attempts, requested binding commits and the tasks that name a binding, then
intents (`_recover_pending_runs`). The conversation broker calls `conversation()` of the
agent runtime adapter in a thread, which is the refresh of the agent runs.

## 2. Modules

| Module | Models | Uses |
|---|---|---|
| `EventLog` | the abstract promise of `events.ndjson`: it grows by the next number | - |
| `RunLifecycle` | RunState, RunService and the worker | implements `EventLog` |
| `Selection` | the entries of a list at given positions, in order | - |
| `RunEventStream` | readers of `GET /runs/{id}/events/stream` | composes with `RunLifecycle`, `Selection` |
| `TaskLedger` | one Task with contract, authorizations and Runs | Runs abstracted to active/ended |
| `TaskLedgerProofs` | theorems about `TaskLedger` | `TaskLedger`, TLAPS |
| `RunLifecycleProofs` | theorems about `RunLifecycle`: types, counters, the log | `RunLifecycle`, TLAPS |
| `RunVerdictProofs` | theorems about `RunLifecycle`: how Runs end | `RunLifecycleProofs` |
| `RunEventStreamProofs` | theorems about `RunEventStream` | `RunLifecycleProofs`, `RunEventStream` |
| `ConversationStream` | the conversation hub of one task and its broker | `Selection`; the agent runtime as a free source of conversations |
| `ConversationStreamProofs` | theorems about `ConversationStream` | `ConversationStream`, TLAPS |
| `AgentTurns` | the agent runs of one task | the agent runtime as an external process |
| `AgentTurnsProofs` | theorems about `AgentTurns` | `AgentTurns`, TLAPS |
| `ModelBinding` | binding a model source to one task | Runs abstracted to "one is running" |
| `ModelBindingProofs` | theorems about `ModelBinding` | `ModelBinding`, TLAPS |
| `DatasetUpload` | importing a data set into one task under a request id | Runs and views abstracted, see there |
| `DatasetUploadProofs` | theorems about `DatasetUpload` | `DatasetUpload`, TLAPS |
| `MC...` | instances for TLC | |

Definitions whose comment calls them a *mutant* are not part of a specification: each is
the plausible mistake that a property has to notice, kept next to the definition it
replaces.

### RunLifecycle

Actors are the service thread (`Service`: submit, close, recovery, which exclude each
other), one worker per Run, and `Cancellers`, request threads that call
`RunService.cancel` once. `disk[r]` and `log[r]` are the two files of Run `r`; `mem[a]` is
the `RunState` instance thread `a` works on and `job[a]` the Run it belongs to. A save
(`_save`: merge counter and cancel flag, write everything) and an event (merge, number,
append, save) are one step each, because `_STATE_IO_LOCK` makes them so. A call such as
`transition()` is a save and then one or two events, and between them any other thread may
act: `todo[a]` holds the events still to come and `At(a, p)` lets the thread go on when it
is empty.

| Code | Actions |
|---|---|
| `RunService.submit`, `prepare_run` | `Submit`, `Queue`, `Schedule`, `ScheduleFails`, `SubmitRaises` |
| executor | `StartWork`, `DropCancelled` |
| `execute_run` | `LoadRun`, `CheckStops`/`CheckPasses` (`_check_cancel`), `EnterStage`, `WorkDone`, `WorkFails`, `TrainingSeesCancel`, `Complete`, `BuildReport`, `ReportFails`, `FailRun`, `LeaveRun` |
| `RunService.cancel` | `CancelLoad`, `RequestCancel`/`RefuseCancel`, `CancelFuture`/`LeaveToWorker`, `ReloadLatest`, `CancelRun`/`CancelTooLate`, `CancelReturns` |
| `RunService.close` | `BeginClose`, `CloseAsks`, `CloseSettles`, `CloseSkips`, `FinishClose` |
| process death, `recover_stale_runs` | `Crash`, `CrashInEvent` (after the append, before the counter is saved), `Restart`, `Recover`, `Serve` |
| every event | `Announce` |

Abstractions: the events a stage writes are one event `work`; the payloads are left out;
errors of the file system are left out; an append is whole.

### RunEventStream

The generator of `stream_events` reads the log after its cursor (`ReadEvents`), yields what
it read record by record, the cursor moving along (`YieldRecord`), and then reads the status
(`ReadStatus`); it ends when the status is terminal and the last read was empty. A client
may lose its connection at any of these points, also in the middle of a batch, whose rest is
lost with the generator, and come back with the last number it saw (`after_seq`). `After`
takes the entries it wants out of the log with `InOrder` of `Selection`, which says the
same as `SelectSeq` without recursion, so that it can be reasoned about.

### TaskLedger

`task` is `task.json`; `contract` the version of the contract file; `approved` the
versions with an approval decision; `run` the Runs of the task (status, lineage, the
contract version the line started from, the authorization that started it); `grant` the
authorizations. `lock` is `TrainingWorkspace._lock`. Where the code reads and writes under
the lock with a single durable write, the operation is one step; where it writes several
files (contract then task; intent, Run, task, authorization) each write is a step and the
lock stays taken. `_view` is the exception the module is about: it runs after the lock is
released and writes its copy back when it finds that the Run has ended, so `ViewEnded` and
`WriteView` are steps of their own and take no lock. `WriteViewLost` is the same write
falling between the read and the write of a locked operation, which then covers it.

| Code | Actions |
|---|---|
| `get_task`, `list_tasks`, `_view` | `GetTask`, `View`, `ViewEnded`, `WriteView`, `WriteViewLost` |
| `archive_task` | `ArchiveTask` |
| `update_contract`, `_record_contract_revision` | `UpdateContract`, `RecordRevision` |
| `confirm_contract` | `ConfirmContract` |
| `_authorize_task_run_creation` | `Authorized` and its parts; `RevokeConfirmation` when a confirmation no longer fits |
| `authorize_task_run_start`, `reserve`, `complete` | `IssueGrant`, `Reserve`, `RefuseGrant`, `Complete`, `Fail` |
| `start_run`, `resume_run`, `apply_strategy` | `StartRun`/`StartRefused`, `StartChild`, `Submit`, `SubmitUnscheduled`, `SubmitRefused`, `Finalize`, `IntentLost` |
| the Run's verdict and the worker's later saves | `RunEnds`, `WorkerSaves` |
| `cancel_run`, `RunService.close` | `CancelRun`/`CloseAsks`, `CancelSaves`, `CancelSettles`, `CancelReturns`/`CloseGoesOn` |
| death and `_recover_pending_runs` | `Crash`, `Restart` |

`Callers` are the event loop (`async def` handlers), `Viewers` the request pool (`GET
/tasks`, archive), and those of them in `Cancellers` also cancel; `close()` is a thread that
asks every worker to stop. `worker` says how far the worker of each Run is and what it
decided, `copy` the Run a canceller has loaded while it was active. A canceller saves its
whole copy, status included (`state.py:121`), so a verdict is not final here: `CancelSaves`
puts an active status over whatever the Run says by now, also after a view has written the
outcome into the task, and `undone` is the history variable that remembers what was lost so.
`overwritten` is a history variable: some view has written over a
document that was newer than its copy. Properties that this legitimately breaks (it is the
deviation `LineageKept`) are stated for histories without it, so that they still show
that nothing else breaks them; `Consent`, `LineIsCurrent`, `GrantStartsOne`,
`GrantIsExact` and `OutcomeIsTheRuns` hold in spite of it.

Abstractions: `start_run` is only reached with an authorization, as `POST /runs` of the
server does it; gates that only refuse (spec, blockers, execution qualification) are left
out, since refusing changes nothing; the walk over a parent's ancestors is the stored
`line` and `origin` of the Run; an approval decision and the task document that names it
are one step; a cancelled Run is counted
as failed, since recovery and the views tell only completed, interrupted and failed apart.

### ConversationStream

Everything runs on one event loop, so what happens between two `await`s is one step; only
a projection (`runtime.conversation`) is a thread. `hub` is the broadcaster: `stream` its
epoch, `history` its records, `latest` the last projection, `fatal` the number of the
error record that ended the epoch. `holder` is the owner of the projection mutex, `worker`
says whether a thread runs, which a cancelled GET leaves behind and the next holder of the
mutex adopts. One subscriber is followed in detail: `at` where it is, `batch` the records
it was given, `token` the event id it saw last, `view` the conversation it has put
together from what it was sent. `others` stands for all other clients. What the history
keeps and what is replayed of it are selections by position (`InOrder`).

| Code | Actions |
|---|---|
| `_produce`, `_project_once`, `_accept_projection`, `_publish_error` | `ProducerWakes`, `ProducerAsks`, `ProducerAccepts` (with a heartbeat or without), `ProducerFails` |
| `GET /conversation` (`refresh`) | `GetAsks`, `GetProjects`, `GetReturns`, `GetFails`, `GetCancelled`; `WorkerEnds` |
| `reserve`, `_register`, `subscribe`, `_unregister` | `Reserve`, `Register`, `Ready`, `Send`, `Wake`, `Disconnect`; `OthersRegister`, `OthersLeave` |
| `_hub` (eviction), `close` | `Evict`; `Close`, `CloseReturns` |

What a conversation consists of is a set of entries, which records may add to and only a
snapshot takes from, and a state, which is always sent whole. `Turns` says what the agent
runtime may show next. A subscriber that was woken runs before a projection that returns
later (`Returned`): the loop runs tasks in the order they became ready. Left out: the
refusal when all hubs are busy (it changes nothing), `after_seq` without an event id, and
changes of the projector's revision, which is a constant of the process.

### AgentTurns

The variables fall in three groups. The runtime's, external: `history` (checkpoints and
ends of turns in source order, and the results of answered or aborted tool calls), `queue`,
`turn`, `aborting`, `asking` (the checkpoint whose tool is at work) and `replied`. The host's
files:
`runs`, `status`, `floor` (how long the history was when a run was appended), `fence`
(`cancellation_targets`), `seen` and `audit` (the ledger), `cards` (the event hub's
pending checkpoints), `archived`. And `op`, the handler at work: all handlers hold one
lock, so there is one, but the runtime moves on between any two of its calls, and the
process may die there (`Crash`). A refresh, an archive and a message about a checkpoint make
three calls or more: they read the history (`Reads`), then ask whether the session runs
(`Lists`), then read the children's histories, and only then settle, archive or suspend; a
turn may end, start or be continued by a child's report between any two of them. The hub's thread hears of checkpoints at any time, late
or never (`HubHears`, `HubForgets`).

| Code | Actions |
|---|---|
| `submit_message`, `append_prompt_run`, `session.prompt` | `SubmitAppends`, `SubmitPrompts` (accepted; accepted with the reply lost; refused) |
| `conversation`, `_reconcile_team`, `_converge_cancel_requested_runs` | `Reads`, `Lists`, `RefreshSettles` |
| `archive_task` | `Reads`, `Lists`, `ArchiveSettles` |
| a message about a checkpoint (`_suspend_checkpoint_for_discussion`) | `Reads`, `Lists`, `DiscussSuspends`, `DiscussResolves`/`DiscussGivesUp`, then `SubmitAppends` |
| `cancel` | `CancelFences`, `CancelSignals`, `CancelRecords` |
| `answer_approval`, `answer_question` | `Answer` |

What the agent may ask are `Questions`, told apart by their words. `Origin` is where a pending
checkpoint is taken to stem from (`_pending_origin_identity`): an approval carries its id; a
question is looked up by its words, and while no event with these words is persisted, the
newest call that asked something and has no result stands for it, whatever it asked and
whichever turn it was (`multi_agent.py:4518`). `Outlived` compares an end of that turn with
that place. `Settled` is what a refresh makes of every run; it stands for the branches of
`_reconcile_team` in their order. Whether a snapshot is degraded is a free choice at each
refresh. Left out: messages in the history that are no candidates for an answer, child
sessions and delegations, background actions, model selection, a boundary read or a
refresh that fails; how evidence makes an answer acceptable is the difference between the
events "finished" and "answered".

### ModelBinding

`attempts` holds the approvals with the latest state of each, `job` where the thread of
each is, `intents`, `bindings` and `pointer` the files of `ModelSourceStore`, `task` what
`task.json` says of bindings. `lock` is `TrainingWorkspace._lock` where it is held over
more than one write; a write is a step, and the process may die between any two.

| Code | Actions |
|---|---|
| `queue_model_source_binding` | `QueueBinding`, `SubmitBinding` |
| `cancel_model_binding_attempt` | `CancelAttempt` |
| `_execute_model_source_binding_attempt` | `Start`, `MarkRunning`/`MarkRefused`, `VerifyAttempt`, `CatchError`, `FailAttempt` |
| `bind_model_source` | `OpenBinding`, `ReadSource`, `RefuseCommit`/`PrepareIntent`, `RequestCommit`, `RecordBinding`, `MovePointer`, `WriteReceipt`, `ActivateBinding`, `CompleteAttempt`/`FinalizeFails` |
| `update_task_spec`, `archive_task`, Runs | `WriteSpec`, `ApplySpec`; `ArchiveTask`; `RunStarts`, `RunEnds` |
| death, `recover_interrupted_attempts`, `recover_pending_commits`, `_restore_model_binding_task_projections` | `Crash`, `Restart`, `RecoverAttempts`/`RefuseToStart`, `RecoverCommit`, `CommitsRecovered`, `RestoreTask` |

`RecoverCommit` is one write of the recovery at a time, so that recovery itself may be
interrupted. A failure of the analysis and of its records is `ReadSource` raising, before the
commit. After the commit, with the task written, the view of the binding and the writes of
the blocker store may raise as well (`workspace.py:2609`-`2638`): `FinalizeFails`, after which
the handler of the thread records "failed" for an attempt whose binding is in force; `late` is
the history variable of these attempts. Left out: the contents of the analysis and of the
blockers, manual mappings, a change of the analyzer's version, the records of
aborted intents (unreachable while the lock is held from the intent to the receipt), and
the orderly shutdown of the executor. Whether a contract admits a Run is a free choice of
`RunStarts`, apart from its condition on the binding.

### DatasetUpload

`receipt` holds the upload receipts by request id, `report` the upload each imported data
set came from, `contract` the contract file: the data set it was written for and the rest of
its text. `task` is what `task.json` says of data sets and contracts; its `revision` is the
last contract revision, the contract and the data set it was recorded for, which need not be
the contract's own. `step` is where the one operation of several writes is (the workspace
lock, and for an upload the file lock, are held throughout), `copy` the document it works on.
`seen` is the document of a view that was read before and may be written back at any
moment, as in `TaskLedger`.

| Code | Actions |
|---|---|
| `attach_dataset_idempotent`, before the import | `Begin`; `Discard`, `Recover` for a receipt that was interrupted (`_reconcile_processing_dataset_upload_receipt`); `Outdated` |
| `attach_dataset`, with or without a request id | `BeginPlain`, `ReadTask`, `Import`, `WriteContract`, `Commit`, `ViewImported`; `FailImport` at any of them |
| `attach_dataset_idempotent`, after it | `Complete` |
| `update_contract`, `_apply_spec_to_task`, `attach_huggingface_model`, each with `_record_contract_revision` | `UpdateContract`, `UpdateSpec`, `AttachAsset` (the contract file and the revision), then `WriteRevised` (the document) or `FailRevise`; `UpdateSpecAway` |
| confirmation, start, revocation, end of a Run | `ConfirmContract`, `StartRun`, `RevokeConfirmation`, `EndRun` |
| `_view`, `get_task` | `View`; `ReadView`, `WriteView`, `LeaveView` |
| death | `Crash` |

An update reads the contract file as it is and records it for the task's data set; after an
upload that died between `WriteContract` and `Commit` that file belongs to the new data.
Confirmation and start compare contract and revision, not the data set the contract was
written for. `adopted` is the history variable of the data sets whose contract was taken so.
The history of a task is a set: the code compares prefixes of a list whose ids are fresh
uuids, which comes to the same. The task has its recipe; whether an adapter can read the
file is left open; staged assets and generic data are left out. A view written at once and
the whole start of a Run are one step each, since their steps are `TaskLedger`'s.

## 3. Runs

| Run | Instance | Shows |
|---|---|---|
| `run_race` | 1 Run, 1 canceller, service, 1 restart; 1.3M states | `CancelSticky`, `CancelBeatsCompletion`, `VerdictsAgree`, `QueuedCancelSettles`; `DenseLog`, `NoOrphan` and the refinement of `EventLog` over a crash at any step, recovery included |
| `run_close` | 1 Run, 1 canceller, fair; 0.5M | `close()` returns next to a canceller |
| `run_pool` | 2 Runs on 1 worker, symmetric; 1.2M | `close()` has drained what it owned: a verdict in the log or a terminal status on disk |
| `stream` | 1 Run, 1 reader, 1 restart; 1.9M | `ExactlyOnce` for a reader that may leave after any record and reconnects, also to the next process |
| `task` | 2 Runs, 2 authorizations, 1 caller that cancels too, 1 viewer, 2 contracts, 1 crash; 2.6M | the eight properties of the ledger |
| `conv` | 1 GET, 1 entry, history of 2, 2 changes, 1 failure, 1 heartbeat; 2.0M | `ViewIsCurrent`, `NoRepeat`, `Attended`, `ClosedMeansQuiet` |
| `conv_fair` | 1 change, 1 failure, 2 hubs, fair; 0.3M | `OneHub` over an eviction; `Informed` |
| `agent` | 2 requests, 2 questions and approvals, 4 moves, 6 events; symmetric; 1.9M | `PromptedOnce`, `LiveCardSurvives`, `CompletedIsTrue`, `CancelSticks`, `StopIsFinal`, `NoMessageStranded` |
| `binding` | 2 sources, 3 attempts on 2 threads, 2 TaskSpec revisions, 2 deaths; 0.9M | `AttemptTellsBinding`, `TaskFollowsPointer`, `NoAttemptAbandoned`, `BindsAnOpenTask` |
| `upload` | 1 request and uploads without one, 1 file, 3 data sets, contract updates, 1 death; symmetric; 0.8M | `ImportedOnce`, `ReceiptIsTrue`, `StartsOnItsData` |
| `run_final` | violation | a cancel that loaded the Run while its worker was at it writes an active status over the worker's verdict |
| `task_active` | violation | confirming a running task's contract opens the way to a second active Run |

Deadlock is checked in `agent` only: the other systems may stop (all Runs settled, service
closed, bounds used up).

Bounds. `MaxRestarts` bounds how often a process comes back; one restart is enough for a
crash at every step followed by everything the next process does, and a crash during
recovery is included because only serving again counts. Configurations that hold are kept
beside the runs: `MCVerdictInv.cfg` (module `RunVerdictProofs`, 1.3M states) checks the
inductive invariant `VInv` on the instance of `run_race`; `MCConversationInv.cfg` (module
`ConversationStreamProofs`, 2.0M) the inductive invariant `CInv` on that of `conv`;
`MCUploadTwo.cfg` (2.9M) the properties of `upload` with two requests. `task` starts from two
places in the history of a task, before its first Run and in the middle of it (`MidSpec`),
because two authorizations and threads that cancel are too many states from the beginning;
`MCTaskTwo.cfg` (1.2M) checks its properties from the beginning without cancellers, where
`OutcomeIsShown` holds too, and `MCTaskCancel.cfg` (0.96M) from the beginning with one
authorization and two threads that cancel. One canceller plus the closing
service make two concurrent threads in `cancel()` on the same Run, next to its worker; Runs
share nothing but the pool, for which two Runs on one worker are checked. Two contracts
give an old and a new version, two Runs a parent and a child or a Run that is replaced. A
caller reads a view of its own, so that one viewer is enough for a view that is overtaken by
another. One authorization is enough for its reuse after any death, two for a start after
another.

In `conv` a history of two records is the least the code accepts, and two changes with a
heartbeat and an error overflow it; a subscriber may come and go without bound. One entry
is enough to appear, disappear and appear again, which is what snapshots and deltas tell
apart; one hub there, because `conv_fair` checks the exchange of hubs. In `agent` two
requests are an older and a latest run, two questions one that is asked and one it may be
taken for. `MaxMoves` counts runs, checkpoints, ends of turns, cancellations and crashes
together, results excepted: four are a message, its question, the end of the turn and the
next question, message, cancellation or crash. In `binding` three attempts give A, B and A again, two threads an attempt
that is cancelled while a later one commits, and two deaths a death during recovery. In
`upload` one request is repeated and uploads without a request come between; three data sets
are an import of each and a repetition. One file is enough because a receipt compares files
for equality only, one text because only the data set of a contract matters to the
properties.

Symmetry (Runs, authorizations, viewers, sources, questions, data sets) is used in runs of safety properties only; these
sets occur in the modules only as unordered sets of identities.

Fairness. `FairSpec` says that threads that have started run on: the executor hands out
queued work, a worker continues (training that is trusted and in-process returns), and a
canceller that has begun, the recovering and the closing service continue. Clients owe
nothing: no fairness for submitting, closing, cancelling or connecting. `StreamFairSpec`
only says that a connected generator keeps polling. In `ConversationStream` projections
come back, woken tasks continue and a connected client reads on; `ProducerAsks` is
strongly fair because `asyncio.Lock` hands the mutex out in the order of asking, so GET
requests cannot keep the producer from it for ever.

## 4. Findings

Each with a run that shows it:

1. `WorkersVerdictIsFinal` (`run_final`). `_save` merges the event counter and the cancel
   flag, not the status. A `cancel()` that loaded the Run before the worker settled it and
   saves afterwards brings an active status back. The run uses `TaskPathSpec`: one call at a
   time is under way on the Run, as `TrainingWorkspace._lock` arranges for `start_run` and
   `cancel_run` (the endpoints that reach a Run without its task are off, `server.py:3506`),
   so that the only other thread is the worker, which takes no such lock. The same overwrite,
   of "queued" by "created", makes the worker refuse the Run; `NoOrphan` therefore excepts
   Runs asked to stop.
2. `OneActiveRun` (`task_active`). `confirm_contract` accepts a running task and makes it
   "ready", which disarms the guard of `update_contract`, which forgets the current Run.

Further deviations the models show. Each has a property and a configuration in this
directory that reproduces it with TLC, beside the runs above. The two configurations
called `...Deviations.cfg` name several properties, one of them at a time outside a comment:

| Property | Configuration | What happens |
|---|---|---|
| `WorkerLeavesVerdict` | `MCRunVerdict.cfg` (`MCRunLifecycle`) | `execute_run` validates the contract, file hashes included, before its `try` block (`runner.py:174`): if the data changed while the Run was queued, the worker ends and the Run stays "queued" |
| `EndShowsVerdict` | `MCStreamEnd.cfg` (`MCRunEventStream`) | the status is saved before the event that announces it (`state.py:176`), and the stream ends on the status |
| `LineageKept` | `MCTaskLineage.cfg` (`MCTaskLedger`) | `_view` writes a whole, possibly older document outside the lock (`workspace.py:6266`) and drops a Run |
| `EveryViewIsCurrent` | `MCConversationEpoch.cfg` (`MCConversationStream`) | a reconnect after an error starts a new epoch under subscribers of the old one (`conversation_stream.py:633`), whose cursors are then compared with other numbers; an old heartbeat at the head of the history has the same effect (`:882`). EXECUTION-PLAN.md:654 of v1.0 asks for a snapshot |
| `OutcomeIsOwn` | `MCAgentOutcome.cfg` (`MCAgentTurns`) | the end of the turn of an earlier run, written after a new run was queued, is held against the new one (`multi_agent.py:5261`), against the docstring "owned by the Agent run" |
| `OutcomeIsShown` | `MCTaskOutcome.cfg` (`MCTaskLedger`) | the same stale copy as in finding 1 is saved after a view has written the outcome into the task: the task shows an outcome its Run no longer has (`state.py:121`), until recovery or the worker writes again |
| `ArchiveIsQuiet` | `MCAgentQuiet.cfg` (`MCAgentTurns`) | a child's report continues the session between `session.list` (`multi_agent.py:2604`) and the archive (`:2077`): a turn is open in an archived task, against "Atomically compare live execution state and persist soft archive" (`:2026`) |
| `LiveCardIsOwn` | `MCAgentMistaken.cfg` (`MCAgentTurns`) | a question is asked, its turn fails, the run goes on and asks another one: before that is persisted, it is taken for the unfinished call of the first (`multi_agent.py:4518`) and retired, against the comment at `:4042` |
| `LiveCardIsKept` | `MCAgentKept.cfg` (`MCAgentTurns`) | a message about an outlived checkpoint saw the session idle; a child's report continues the run, which asks; the checkpoint that is waiting is superseded with the old one (`multi_agent.py:2364`) |
| `FailureMeansUnbound` | `MCBindingDeviations.cfg` (`MCModelBinding`) | a blocker write after the commit raises (`workspace.py:2619`-`2638`): the attempt is recorded as failed, its binding is in force |
| `StartsOnShownData` | `MCUploadDeviations.cfg` (`MCDatasetUpload`) | an upload died between contract and task (`workspace.py:3786`, `3787`), a contract update records the new file's contract under the old data set (`:4281`), and a Run starts on data the task does not show |
| `ReturnMeansCompleted` | `MCBindingDeviations.cfg` (`MCModelBinding`) | A is bound, an attempt at B fails, A is approved again: `bind_model_source` returns early (`workspace.py:2373`), the attempt is not completed, and the worker reports a failure for a binding that is in force, against the comment at `workspace.py:2259` |
| `SourceCanReturn` | `MCBindingDeviations.cfg` (`MCModelBinding`) | A bound, B bound, A again: the intent of the first binding is found, differs in its base and refuses (`model_source_store.py:793`); closure-matrix.md:33 wants sources exchangeable |
| `ImportedAtMostOnce` | `MCUploadDeviations.cfg` (`MCDatasetUpload`) | the view after the commit is inside the same `try` as the import: if it raises, the receipt of a committed upload is removed and a repetition imports again, against "successful receipts remain immutable and replayable" (`workspace.py:4090`) |
| `RetryIsAdmitted` | `MCUploadDeviations.cfg` (`MCDatasetUpload`) | an upload was interrupted and another one committed after it: the repetition is refused for good, against "Retrying the same exact request is safe" (`workspace.py:3947`) |
| `ReceiptAlwaysTrue` | `MCUploadDeviations.cfg` (`MCDatasetUpload`) | a slow view writes its older document back after a commit (`workspace.py:6266`): the data set of a completed receipt is gone from the task |
| `StartsAgain` | `MCBindingDeviations.cfg` (`MCModelBinding`) | an attempt whose process died before its first state makes every later start raise (`repository_analysis_store.py:1633`) |
| `SpecCanBeRevised` | `MCBindingDeviations.cfg` (`MCModelBinding`) | a TaskSpec revision file the task does not name yet blocks all revisions (`workspace.py:3395`) |

`StreamEnds` (`MCStreamFair.cfg`, `MCRunEventStream`) holds: the stream of a settled Run
ends for a client that stays.

Seen while modelling `AgentTurns`, and part of the model: after a death between
`append_prompt_run` and `session.prompt` the run is on file, and a repetition of its request
id is answered as a replay although the agent never got the message; a prompt whose reply
is lost is marked failed although it runs, and the next refresh overwrites that status; a
task can be archived while the message of its latest run waits, if an earlier run's end of
turn was held against it (the exception in `NoMessageStranded`).

## 5. Proofs

Eight modules, each from the named assumptions on its constants alone.

| Module | Theorem | Statement |
|---|---|---|
| `RunLifecycleProofs` | `TypeCorrect` | `Spec => []TypeOK` |
| | `LogIsDense` | `Spec => []DenseLog` |
| | `CountersSound` | `Spec => []CounterInv` |
| | `CancelIsSticky` | `Spec => CancelSticky` |
| | `ImplementsEventLog` | `Spec => PublishesInOrder` |
| `RunVerdictProofs` | `VerdictInvariance` | `Spec => []VInv` |
| | `ThreadsAgree` | `Spec => []VerdictsAgree` |
| | `CancelPrevails` | `Spec => []CancelBeatsCompletion` |
| | `TakenBackIsCancelled` | `Spec => []QueuedCancelSettles` |
| | `NoneOrphaned` | `Spec => []NoOrphan` |
| | `ClosedIsDrained` | `Spec => []ClosedMeansDrained` |
| `RunEventStreamProofs` | `StreamInvariance` | `StreamSpec => []SInv` |
| | `SentExactlyOnce` | `StreamSpec => []ExactlyOnce` |
| `TaskLedgerProofs` | `TypeCorrect` | `Spec => []TypeOK` |
| | `ConsentGiven` | `Spec => []Consent` |
| | `ApprovalStartsOne` | `Spec => []GrantStartsOne` |
| | `ApprovalIsExact` | `Spec => []GrantIsExact` |
| | `NoRunIsLost` | `Spec => []RunsAccountedFor` |
| | `OutcomeIsTrue` | `Spec => []OutcomeIsTheRuns` |
| | `LineStaysCurrent` | `Spec => LineIsCurrent` |
| | `ArchiveHolds` | `Spec => ArchivedStartsNothing` |
| `AgentTurnsProofs` | `TypeCorrect` | `Spec => []TypeOK` |
| | `DeliveredOnce` | `Spec => []PromptedOnce` |
| | `CancellationSticks` | `Spec => CancelSticks` |
| | `StopsForGood` | `Spec => StopIsFinal` |
| | `CompletionIsEarned` | `Spec => []CompletedIsTrue` |
| | `LiveCardsSurvive` | `Spec => []LiveCardSurvives` |
| | `ArchivingStrandsNothing` | `Spec => NoMessageStranded` |
| `ModelBindingProofs` | `TypeCorrect` | `Spec => []TypeOK` |
| | `AttemptsTellTheTruth` | `Spec => []AttemptTellsBinding` |
| | `TaskAgrees` | `Spec => []TaskFollowsPointer` |
| | `NobodyAbandoned` | `Spec => []NoAttemptAbandoned` |
| | `BindingIsAdmitted` | `Spec => BindsAnOpenTask` |
| `ConversationStreamProofs` | `HubIsPinned` | `Spec => []OneHub` |
| | `CloseIsQuiet` | `Spec => []ClosedMeansQuiet` |
| | `NobodyWaitsInVain` | `Spec => []Attended` |
| | `StaysInLine` | `Spec => []CInv` |
| | `TypeCorrect` | `Spec => []TypeOK` |
| | `ShowsTheLatest` | `Spec => []ViewIsCurrent` |
| | `SentOnce` | `Spec => []NoRepeat` |
| `DatasetUploadProofs` | `TypeCorrect` | `Spec => []TypeOK` |
| | `RequestsImportOnce` | `Spec => []ImportedOnce` |
| | `ReceiptsAreTrue` | `Spec => []ReceiptIsTrue` |
| | `RunsUseShownData` | `Spec => []StartsOnItsData` |

**Runs.** For all finite or infinite sets of Runs and cancellers, every pool size and
every number of restarts.
`DenseLog` is not inductive: an event is numbered from a counter that the acting thread
carries in its own copy, merged with the one on disk, and a crash can leave the counter on
disk one behind the log. `CounterInv` says what keeps the numbering right: the counter on
disk and in every copy never exceeds the log; a thread's copy may lag behind only if the
disk is up to date (then the merge corrects it), and if the disk lags, as it may only
after a crash and before recovery has touched the Run, every thread on that Run has
counted the log itself, as `load` does. `Owners` adds which Run a thread works on at each
place, which the argument needs to know that only recovery meets a lagging disk. The proof
groups the actions by what they do to the two files: *quiet* steps change neither, *save*
steps write a merged copy, an *event* step appends; a lemma for each kind shows that it
preserves the counters, and a step per action shows which kind it is. `CancelIsSticky` and
`ImplementsEventLog` follow from the same classification.

**How Runs end.** Every thread saves and appends on its own, so a verdict in the log is
nobody's single decision; `VInv` finds the decision in the Run's future. As long as the
future is pending, or the Run is still being submitted, nothing that settles or advances
it is in the log (`Untouched`), and every copy shows an active status. If the future was
cancelled, only "cancelled" may be written, by the helpers (cancellers and the service)
that hold it, and as long as the document is not yet cancelled one of them is still on its
way to it (`Responsible`). While it runs, only its worker may write a verdict (`WorkerOK`
says where the worker is when it does), and where there is no future only an interruption.
`Late` carries `CancelBeatsCompletion`: a request that reached the log before the last
stage is on disk, so the worker's next check does not pass. The proof has a lemma for each
kind of frame (a thread that works on another Run, a helper, the worker, the service that
submits, closes, starts or recovers) and a step per action. TLC checks `VInv` itself
(`MCVerdictInv.cfg`).

**Readers of a Run.** For any number of readers and connections. `ReaderOK`: what a client
has been sent is the log up to its cursor. Since the log is dense, the events numbered
after the cursor are its tail (`InOrderTail`), and since it only grows, what was sent stays
its beginning. A batch not yet sent is what the log held after the cursor when it was read
(`BatchFollows`), so each record that goes out is the next one.

**The task.** For any Runs, approvals, threads of both kinds, contract versions and
deaths of the process. None of the properties is inductive, since a Run is decided on,
created and entered in three steps, and views write documents meanwhile. `MutexOK` says
where a thread holds the lock, and that it does as long as it consumes an authorization;
`IntentOK` and `PendingOK` that an intent without Run is that of the one thread about to
create it, so that what it compared before still holds of the Run, its parent and the
contract (`ConsentOK`). `DocsOK` extends to every copy of the document what is wanted of
`task.json`, because any copy may be written back: its confirmation is a user's, and an
outcome it shows, or would be taken back to, is its Run's. `GrantOK` and `OutcomeOK` follow
an authorization from reservation to completion; `WorkOK` and `CancelOK` say what a
worker and a canceller may write: the worker's own verdict, or an active status over a
verdict that `undone` then remembers; `AccountOK` says what the holder of the
lock may rely on, as long as no view has written an older document (`overwritten`). The
proof has a lemma per action, with a step per part of the invariant; `WhoCreates` shows
that only submission creates a Run, from which the two action properties follow.

**Agent runs.** For any number of requests and events. `PromptedOnce` alone is not
inductive: that a run has not been prompted before rests on who may prompt it. `PromptInv`
says that a run nobody submitted was never delivered, that the run of a handler at
`appended` is on file and not yet delivered, and that a handler discussing a checkpoint
holds a request that is still new. `StopIsFinal` needs `StopInv`: the run an accepted
cancellation stopped stays fenced while it is the latest, which holds because the fence is
published before the runtime is called and never shrinks below the latest run.
`SubmittedInv` ties the runtime's queue and history to runs on file; `CompletedIsTrue`
then follows from how `Settled` and `Handoff` choose a status, and from the history only
growing.

`AskingInv`: the checkpoint whose tool is at work is the last event of the history and belongs
to the open turn. `QueueInv`: nothing is known of a message that was not delivered, and the
message of the latest run is the last of the queue, so while anything is queued the latest
run has no event of its own. `ListInv`: of all runs in the history only the one at work may
not have ended a turn, and a turn that opened after a handler saw the session idle goes on
after an end of its own, or the latest run has no end yet. `LiveCardSurvives` rests on
`CardInv`: no end of a turn follows the last event, so the checkpoint the turn waits for can be
outlived only as what it is taken for (`StandsIn`); a discussion that retires checkpoints
waits for the turn to stop, or its checkpoint was outlived and, by `ListInv`, a turn that asks
by now was continued (`Continued`). `NoMessageStranded` rests on `QueueInv` and `ListInv`: if a
message waits, or a turn is open that never ended, the latest run has no end of its own to be
archived on, so its failure or cancellation is another's.

**Bindings.** For any sources, any number of TaskSpec revisions, attempts, threads and
restarts. None of the four properties is inductive. The invariant follows the one commit
under way: `CommitOK` says what the thread at each place has written, and that the lock is
held and the task stays at rest meanwhile; `IntentOK` that a requested commit is the only
one, belongs to a running or interrupted attempt and can be carried on from where it is;
`BindingOK` that every binding is of an attempt that can no longer be cancelled or fail, or
has raised after its commit (`LateOK`), and receipted or about to be; `TaskOK` that a task not naming the binding in force is
about to, in this process or by recovery; `AttemptOK` and `JobOK` that only the last
attempt is active, and who runs it; `SpecOK` that the revision files are at most one ahead.
The proof has a lemma per group of actions (requests, the thread, the commit, recovery)
and a step per conjunct.

**Uploads.** For any requests, files, data sets and deaths. `ImportedOnce` needs to know
what the task does not hold: `OnceOK` says that no data set of a request is in the task, or
in the copy about to become the task, unless a receipt tells of it, and that the receipt of
an interrupted import remembers a history without it. `GrowthOK` says that a view brings
back at most what the task has and an import keeps all of it; `RequestOK` and `ImportOK`
follow the receipt and the files from step to step, as long as no view has written over a
newer document. `FileOK` says that there is a contract file once a document has a data set.
`Sound` (a document confirms, and its revision records, a contract of its data set or one
that was adopted for it) holds of every copy, because any copy may be written back;
`StartsOnItsData` follows from it.

**Conversations.** For any requests, entries, history limit and bounds. `OneHub` and
`ClosedMeansQuiet` are preserved once it is known that publishing changes (`AppendLocked`,
`WithChanges`, `Accepted`) never changes a hub's identity. `Attended` is not inductive: a
client becomes a waiting one by steps that do not look at the producer. `ProducedFor`
strengthens it to every place of a subscription: as long as the hub is open, whoever is
connected has a producer, or an error to read that ended the epoch. It holds because
registration starts a producer under the same lock, and a producer stops only where it
sees no subscriber or leaves an error behind; an error's cursor is never 0, for which
`HubOK` keeps the cursor a number.

`ViewIsCurrent` relates a client to records that may no longer exist when it reads, so `CInv`
says for every cursor what follows it. Records are a set ordered by their cursors;
`Yields(v, R, c)` says that records `R` make conversation `c` of `v`: every entry as the
last snapshot and the deltas after it leave it, the state as the last record that sets it.
Two lemmas, `Joined` and `Parted`, put records together and take them apart at a cursor.
`Fits` is the promise: at a cursor the history reaches back to (`Reaches`), and before the
error that ended the epoch if there is one, the records after it lead to the latest
projection. `ClientOK` makes it of the client's view at its last cursor (`TokenFits`), and
of what the view becomes wherever the records in hand leave off (`BatchFits`).
The heart of the proof is that appending keeps the promise although heartbeats coalesce
and the oldest record goes (`AppendedHistory`, `ReachesBack`, `AppendedFits`): what the
history reaches back to afterwards it reached back to before, for which a limit of at
least two records is needed, and what is dropped is not after such a cursor.
`ChangesAdvance` follows a projection through its one or two records, `SendFits` a batch
through the client, `ReplayFacts` and `SnapshotFacts` say what a reconnecting client is
given. Two assumptions: the history keeps at least two records, which the constructor
enforces, and no GET request is called `Nobody` or `Producer`, which only separates names.

Not proved: liveness. That `close()` returns (`CloseTerminates`) and that a connected
client is informed (`Informed`) are checked by TLC only, because fairness and ENABLED are
beyond the prover. Every other property of a passing run is a theorem.

## 6. Plan

Done: `EventLog`, `RunLifecycle`, `RunEventStream`, `TaskLedger`, `ConversationStream`,
`AgentTurns`, `ModelBinding`, `DatasetUpload`, and proofs of all of them.

Next, in this order:
1. `WriterLease`: two processes on one directory, startup hand-over, and recovery that
   runs before the lease is held (`server.py`, `startup_lifecycle.py`).
2. Sample-inference jobs as a further party `close()` waits for; the gates (training plan,
   feasibility, blockers) as one model of staleness.

Not modelled, and not planned: numerical training, file parsing, the container engine, the
inside of the external agent harness, the web client, deployment and acceptance scripts.
They are I/O or computation whose state a model of control would not tell apart, and they
are most of the source by lines.
