# A TLA+ model of chatgpt-remote-mcp

This directory specifies the parts of the server whose correctness depends on
the order of events: what it remembers about commands and tasks, how it writes
that down, how it hands out process output, and how it starts and stops. TLC
checks the models on small instances; TLAPS proves the results listed under
"Proofs" for every value of the constants. Source paths are relative to the
repository (`src/src/...` in PROJECT.json is `src/...` of the repository).

- [Inventory](#inventory) - [Plan](#plan) - [Modules and code](#modules-and-code)
- [Runs](#runs) - [Bounds](#bounds) - [Fairness](#fairness) - [Proofs](#proofs)
- [Disagreements found](#disagreements-found) - [Not modelled](#not-modelled)

## Inventory

The program is one Node process (started by `src/server.ts`) that answers MCP
tool calls over HTTP. Node runs one callback at a time; everything between two
`await`s is atomic, and every `await` lets other requests, terminal hooks and
timers run. The state that survives a crash is a directory of files.

| component | state | operations | hard behaviour | what makes it correct |
|---|---|---|---|---|
| Tracked command protocol (`exec-tools.ts`, `execution-recorder.ts`) | one receipt file per operationId | exec_command, run_script, read_process, the terminal hook, reconciliation, boot recovery | a retry while the first call is anywhere between prepare and terminal; a crash between two of these steps; a write that fails after its rename | a command is spawned at most once per operationId; a receipt never lies; what was reported as verified is durable |
| Task continuity store (`task-store.ts`, `storage-journal.ts`, `storage-durability.ts`) | state.json, receipts, journal payload and marker, writer.lock, a cache of durable files, queues per workspace and per execution | read, write, commitWorkspace, recovery, initialize, close | power loss between any two file system calls; a stale lock; recovery that fails half way | transactions are all or nothing; nothing a caller was told is undone; one writer |
| Task continuity service (`task-service.ts`) | tasks, revisions, requestId records inside state.json | start_work, update_work, complete_work, resume | lost answers, repeated and reused requestIds, two clients with the same view | each requestId mutates once, no lost update, one active task, a closed task never changes |
| Process manager (`process-manager.ts`, `process-output-buffer.ts`) | sessions, output buffers, recency order, running counter, waiters | start, data/error/close events, read, write, terminate, prune, shutdown | eviction under two budgets while a client pages; a waiter against the event it waits for | exact accounting; nothing retained is skipped; no lost wake-up; limits hold |
| HTTP server, start and stop (`http-server.ts`, `server.ts`) | phase of the process | startHttpServer, request handlers, close | requests in flight while close() waits; a second server that starts meanwhile | what the shutdown terminates is settled; the shutdown ends |
| Operator approval (`operator-approval*.ts`) | signed approval ledger, its own writer.lock | request, decide, reserve, execute, finish, restart | a crash between reserve, start and finish; a failed write that leaves memory and file apart; a completion of the task meanwhile | an approval is consumed once; an interrupted one is unknown, never succeeded; no worker runs for a completed task |
| Host executor (`host-executor.ts`, `scripts/host-executor.mjs`, `scripts/host-exec-client.mjs`) | queue directory: request, claim, marker, state, output and result files | submit, claim, spawn, relay, terminate, finalize, recover | the companion dies between claim and result; the client dies or leaves; the directory is removed meanwhile | a claimed job is never run again; the client gets all output or an error |
| OAuth (`oauth.ts`) | codes in memory, clients and tokens in memory and in one file, a mutation queue | register, authorize, exchange, rotate, revoke, verify | racing refreshes, a failing write rolled back under readers, a restart | a code and a refresh token are used once; what was answered is in the file; revoked stays revoked |
| Artifacts (`artifact-service.ts`) | published snapshots in memory and a temporary directory | publish, resolve, prune, close | capacity tested before awaits; the source is edited during the copy | a token leads to a whole snapshot, and the limits hold |
| File tools (`file-service.ts`) | the user's files | read and download in pages, upload, move | a file that grows between two pages; a move that fails half way, or is repeated | pages are exact; a failed move leaves the destination |
| Storage migration (`storage-migration.ts`) | marker, pending file, backups, and the files themselves | migrate, restore | a loss of power between any two durable steps | nothing written last is lost, and an interrupted run can go on |
| Script runner, workspace identity and snapshot, kernel review, telemetry, configuration | none, or files of the user | | | see "Not modelled" |

How they interact: a tool call enters `exec-tools.ts`, which asks the recorder
for a receipt (the store's workspace and execution locks, then an atomic
write), calls `ProcessManager.start`, and records `running`. The process
manager calls the terminal hook when the child ends; the hook takes the
execution lock and writes the outcome, concurrently with polls, with
completions of the task (which read all receipts under the workspace lock
only), and with reconciliation batches (which hold the workspace lock and
several execution locks and commit through the journal). `close()` stops the
process manager, then the store, then the HTTP server.

The hazards of this code are listed with their lines in PROJECT.json; each
names the properties that watch it, or says why none does yet.

## Plan

The order is by how much depends on the component: first the receipt protocol,
then the storage it trusts, the ledger that shares its locks, the output clients
read, and the life cycle around all of them.

| step | modules | abstract specification | state |
|---|---|---|---|
| 1 | `TrackedExecution`, `TrackedExecution_proofs` | `AtMostOnceExecution`: a ledger entry that only moves forward, one start per operation | checked; every safety property and the refinement proved |
| 2 | `StoreJournal`, `StoreJournal_proofs` | `AtomicCommit`: transactions at once, confirmed contents for good | checked; every property and the refinement proved |
| 3 | `TaskLedger`, `TaskLedger_proofs` | (its properties are the contract) | checked; every property proved |
| 4 | `ProcessOutput`, `ProcessOutput_proofs` | (the reference definition of a page is inside `SelectionIsExact`) | checked; every invariant proved |
| 5 | `ServerLifecycle`, `ServerLifecycle_proofs` | | checked; every invariant that the code keeps proved |
| 6 | `OperatorApproval`, `OperatorServices_proofs` | | checked; every property proved |
| 7 | `HostExecutor`, `OperatorServices_proofs` | | checked; both properties proved |
| 8 | `OAuthStore`, `OAuthStore_proofs` | | checked; every property proved |
| 9 | `StorageMigration`, `FileServices_proofs` | | checked and proved |
| 10 | `FilePages`, `FileMoves`, `ArtifactService`, `FileServices_proofs` | | checked; every property proved |

What is left: the restart after a crash of the container, when the
supervisor gives pids anew and the pid in a dead writer's lock may belong to a
living process for good, so that every start is refused until the lock is
removed by hand. `ServerLifecycle` has the behaviour (`Probe`), but no property
about it: nothing in the repository promises that a start succeeds.

## Modules and code

How the modules share the code: each models the steps of its own component in
full and takes the others by their contract.

- `TrackedExecution` takes a store call as one step with the outcomes
  `StoreJournal` allows: done and durable, failed before the rename, failed after
  the rename (visible, not durable), and a power loss between them.
- `TaskLedger` takes the receipts that may refuse a completion as a
  nondeterministic refusal; `TrackedExecution` has them.
- `ServerLifecycle` takes a store call of a handler as one successful step and looks
  at who may make it, when; the terminal hook's may fail, since shutdown() waits for it.
- `ProcessOutput` looks at the process manager alone; the terminal hook is in
  `TrackedExecution`, shutdown in `ServerLifecycle`.
- `OAuthStore`, `OperatorApproval`, `HostExecutor`, `StorageMigration`,
  `FilePages`, `FileMoves` and `ArtifactService` have state that no other module
  shares, except that an approval takes the workspace lock a completion takes:
  `OperatorApproval` has both sides of it. `MCServices` puts them in one run.

### TrackedExecution

One workspace, one task, a receipt per operation. `vis` is the receipt a read
returns, `dur` the one a power loss leaves; `wsQ` and `exQ` are the promise
chains of `#serialize` as FIFO queues; `pc`, `req`, `seen` are the handlers
between two awaits; `proc`, `managed`, `attempts` are the process manager's view;
`runs` and `promised` are history. `PrepareTask ... MarkSpawnFailedWrite` are
exec_command, `PollCall ... PollExpires` read_process, `Finish`, `MarkTerminal`,
`MarkTerminalWrite` the terminal hook, `CompleteCall ... WriteTask` complete_work,
`ReconcileCall ... CommitReconciliation` the reconciliations of update_work,
`Crash`, `PowerLoss`, `RecoverReceipt`, `BootDone` the restart.
`superseded` is treated like `verified_no_retry`, because the filters of
complete() do.

### StoreJournal

The directory of one workspace; every action is one file system call of
`writeJsonAtomic`, of the reads that confirm durability, of `commitWorkspace`,
`apply` and `recoverJournals`. `may[f]` is the set of contents a power loss may
leave of a file that was renamed but whose directory was not synced. Contents
are version numbers: the journal only compares their hashes.

### TaskLedger

`find` (requireTask before the lock), `mutate` and `write` of
create/checkpoint/complete; `vis`/`dur` is state.json, `told` the answers clients
received. An input is what `inputHmac` tells apart.

### ProcessOutput

An action is a whole callback: `Start`, `Data`, `StdinError`, `Finish` (error or
close), `Prune`, `Read`, `Resume`, `Abort`. `store` holds the buffers with the fields
of `IndexedProcessOutputBuffer` (chunks, head, base, next, retained, dropped), the
total and the recency list. A woken reader resumes in a microtask, before any
other callback (`Settled`).

### ServerLifecycle

Server processes that share a state directory, in any overlap. `Start`, `Open`, `Write`,
`InspectLock`, `Probe`, `Unlink`, `Recover` are `initialize()`, one call to the file system
each; `GuardFails`, `RecoveryFails` and `Undo` are its failures, with the lock file they may leave;
`Reinitialize` is a store call after close(). `Probe` is refused by a living owner or a reused pid.
`Accept ... TerminalHook` is one tracked command; `Ends` may never come. `Shutdown`, `Terminated`,
`Settle`, `Release`, `RemoveLock`, `CloseStore`, `Exit` are close(): `Terminated` comes when the
commands of the snapshot have ended or when the 5000 and 2000 ms of shutdown() are over,
and `CloseFails` is a close() that throws, after which the server goes on (`"failed"`). History:
`robbed` has the servers whose lock was removed by another one that had read an earlier lock, `outlived`
the commands of a snapshot that still ran when shutdown() stopped waiting.

### OAuthStore

A call is one HTTP request, its `pc` the await it is at; `queue` is
mutationQueue, whose head runs (`Run...`), is written (`Persist`, `PersistFails`)
and rolled back from `prior`. `memory` and `disk` are the two copies of clients and tokens;
`codes` the authorization codes, which only memory has. A token pair and its
grant are named by the call that made them, so "used twice" can be said.
`LookUpThen` is the SDK's client lookup that precedes a handler; `Verify` reads
through the same queue.

### OperatorApproval

`records` and `ledger` are the approvals in memory and in ledger.json; `Request`,
`RecordRequest` are request(), `Decide` the operator's answer, `Execute`, `Lock`,
`Reserve`, `SpawnWorker`, `RecordSession`, `Uncertain` execute() with its catch, `Finish`
the terminal hook, `CompleteTask` the completion that asks the bridge whether an
execution is unresolved. Workers outlive the server; hooks do not.

### HostExecutor

Three processes that share a directory per job. `CreateJob` is the service;
`StartClient ... KillClient` the relay; `Claim ... SaveState` startJob(), `Poll ... WriteResult` the
companion's timers and events, `StartAgent`, `RecoverJob`, `WriteRecovery`, `RefuseStart`, `Ready` its
start. A claim is removed and answered in two steps, of a rejection (`Reject`, `WriteRejection`) and of a
recovery. An unlink whose failure the code ignores is taken as one that succeeds.
`file[j]` says which files of the job exist, `made`, `written`, `got` count the output from
command to client.

### StorageMigration

`seen` is the directory as a program sees it, `durable` as a power loss leaves it. One action
per durable write of the migration (`WritePending`, `BackUp`, `WriteMarker`, `Replace`,
`EndMigration`) and of the restore (`RestorePending`, `RestoreFile`, `RecordRollback`,
`RemoveMarker`, `EndRestore`); `Edit` is a server of either schema that writes between two runs.

### FilePages, FileMoves, ArtifactService

`FilePages`: a read is `Stat` and then the bytes it found, while `Upload` appends; a text is the
set of the offsets at which its characters end. `FileMoves`: movePath() from the first lstat
to the removal of the backup, each step with its failure; a tree is a set of pieces, so a
copy or a removal may stop half way. `ArtifactService`: publish() one await at a time, prune()
with its late removals, the download route, close().

The definitions named `Mutant...` are plausible bugs. No specification uses
them; each is the smallest change of a definition that a property must notice.

## Runs

| run | question | what it shows |
|---|---|---|
| `tracked_execution` | two clients, and one operationId, two inputs, three boots, two faults, or two operationIds that one batch reconciles, two boots | at most one spawn, honest and durable receipts, a task closed only over settled receipts, resolutions that are never rewritten, also with several execution locks, refinement of `AtMostOnceExecution` |
| `tracked_execution_live` | one operationId, one input, with fairness, one fault, one restart | every request is answered, and a command that ended gets a final receipt |
| `store_journal` | two receipts and the snapshot, three versions, two faults, two crashes | all or nothing, no refused recovery, no stale journal, nothing told is undone, refinement of `AtomicCommit` |
| `task_ledger` | two callers, three requestIds, two tasks, a fault, a crash | once per requestId, answers hold, no lost update, one active task |
| `process_output` | three sessions of which two fit, three data events, a reader | accounting, admission, page selection, wake-ups |
| `process_output_recency` | the same without a reader, four events | a violation: see below |
| `server_lifecycle` | three servers whose starts overlap, or two that serve a command, which may never end; pid reuse, failing calls, fairness | the lock names its holder unless another start removed it for an older one; a shutdown settles its snapshot, up to what outlives its waits or cannot be written; it ends: the process stops, or close() has thrown, or a command that nobody stops keeps it alive |
| `guard_two_starts` | three servers, overlapping starts | a violation: see below |
| `shutdown_late_request` | a request in flight during close() | a violation: see below |
| `services` | seven parts with state of their own, one at a time | OAuth: single use, answers survive, revocation, verdicts; approvals: consumed once, honest outcome, no worker for a completed task; host jobs run once and a marked one is answered; migration loses nothing; pages are exact; what a move sets aside stays whole, and a move that fails gives it back or names it and leaves nothing of its own; snapshots are whole |
| `move_repeated` | two identical calls of move_path | a violation: see below |
| `host_unanswered` | one host job, one death of the companion | a violation: see below |

Where a property has several parts, its type invariant is one of them
(`OneActiveTask`, `StoppedIsSettled`, `SpentStaysSpent`, `ConsumedOnce`, `HostRunsOnce`,
`MigrationIsSafe`, `PagesAreExact`, `BackupIsWhole`, `SnapshotsAreWhole`); that of
`TrackedExecution` is proved (`TypeCorrect`) and not run.

Deadlock is checked in the first four runs: there is always a client that may
call. It is off where the system may really stop: all servers have stopped or
died (`MCServer*.cfg`), or all sessions have ended and been forgotten or have no more to
write (`MCProcessOutput*.cfg`), or every request and job has been answered and the
clock stands (`MCServices.cfg`, `MCFileMoves.cfg`, `MCHostExecutor.cfg`).

In `MCServices` the variable `focus` names the part that takes steps; the others keep one
initial state. The parts share nothing, so exploring them together would only multiply
their states: their properties hold of the product if they hold of each.

## Bounds

| bound | why it is enough |
|---|---|
| two callers | every conflict of the code is between two handlers, or a handler and a hook (which is an actor of its own); queues of length two show the FIFO order with the hook as third member |
| either one operation, or two with one input, no failing call and one restart, before which they are started and after which they are reconciled (`MCTrackedExecution!Bounded`) | receipts share no state but the task and the reconciliation batch: the second part has the batch, which finds unknown receipts only after a restart; the first has what happens to one receipt |
| `MaxBoots` 3 | a receipt of the boot before, and one whose recovery was itself interrupted |
| `MaxFaults` 2 | a failure, and a failure of the step that handles it (degraded, failed recovery) |
| `MaxVersion` 3, `MaxCrashes` 2 | a write, a transaction over it, a later write that a stale journal could undo; a crash and a crash of its recovery |
| `MaxTasks` 2, `MaxRevision` 3 | a second task after the first is closed; two updates from the same revision |
| output: chunk 2, per session 4, total 5, compaction at 2 | in units of 8 KiB and chunks of 16 KiB; the code's thresholds (64 KiB at least, compaction at 4096 chunks or at half of them) differ in scale only: the model's are the smallest where a session exceeds its own budget, two sessions exceed the total, a trim is partial, and a compaction happens with chunks left |
| `EventSizes` {1, 3}, three events | less than a chunk, and more than one; the last unit of an event may be an incomplete UTF-8 sequence that stays pending. That a chunk ends before a sequence it would split, and so may be a few bytes short, is left out |
| OAuth: two calls, one earlier code and grant, one registered client allowed of two, lifetimes 1 and 2 of a clock up to 2 | two calls race for every code and token, the second registration meets the full registry and evicts, and each kind of token expires before and after the other; the earlier grant is what a call can refresh or revoke without spending one on it |
| approvals: two records, one target, two requests, two executions, one clock tick, two mishaps | the second request id and the second execution compete for the target; a mishap, and one of the step that handles it |
| one host job, two chunks, three faults | jobs have a directory each and meet only in the companion's scan, which starts one at a time; a death at one step, one of its recovery, and a failed write |
| migration: a state file and a receipt, three edits, four losses | two files are the least that can be of different schemas; edits before, between and after; a loss in the migration, one in its resumption, one in the restore, and one more |
| `MaxChunk` 4, texts of ten bytes | the smallest limit that the configuration allows; widths in every order |
| two moves, two sources, one destination, two pieces, two faults | the calls meet at the destination, with one source or two, on one device or on two; a failure of a move and one of its rollback; a tree that is there, half there or gone. The repetition of `move_repeated` needs no fault |
| artifacts: capacity 1, two publishers, three tokens | the test before the awaits can be passed by both |
| three servers and no command, or two and one (`MCServerLifecycle!Bounded`) | the one that crashed, and two that compete for its lock; the one that shuts down, and one that takes or holds the guard when a late request reopens the store; commands meet only in the snapshot, which is a set. Held back are only starts and requests, which are not fair, so that liveness is not weakened |

`SYMMETRY` is used over interchangeable model values, and in no run with a
liveness property.

## Fairness

`TrackedExecution!LiveSpec`: weak fairness of each handler's next step, of each hook,
of boot recovery. The code justifies it: these steps are promise continuations
and callbacks, which the Node event loop runs once they are due; a lock is a
promise chain that goes on when its holder settles, whatever the outcome.
Clients, commands that end, evictions, faults and crashes are not fair.

`ServerLifecycle!Fairness`: weak fairness of the continuations and callbacks of a live
process: those of the guard and of close() (`Guard`, `Close`), and of the handler and the hook of each
command (`Handles`). No fairness for the end of a command: shutdown() signals only what it found
running, a command has no timeout by default, and `server.ts` never calls process.exit(), so one that was
spawned late can keep the process alive for good. `ShutdownEnds` names that outcome
(`LeftToCommands`) instead of excluding it. Starts, requests, signals, failures and crashes are not fair.

The other modules state safety only and have no fairness.

## Proofs

### TrackedExecution_proofs

For every set of callers, operations and inputs and every number of boots and
faults, from `ConstantsAssumption` and `NoneAssumption`:
`TypeCorrect`, `AtMostOnceThm`, `SpawnIsRecordedThm`.

`AtMostOnce` is not inductive: a state where two callers are about to spawn the
same operation satisfies it. The inductive invariant `IInv` adds why this cannot
be:

- `LockInv`: whoever is between reading and writing a receipt holds its execution lock;
- `FreshInv`: what it has read is still what the file says;
- `SpawnInv`: a caller that may spawn is the only one for its operation, the
  operation has never been attempted, and its receipt exists and is durable; a
  receipt that a read does not find is not on the disk either;
- `ProcInv`: a process of this boot belongs to an attempt, and a hook runs only
  for one that has ended; while booting there are no handlers.

One lemma per action (`PrepareReadInv`, `PrepareWriteInv`, `SpawnStepInv`, ...), and
`StepInv` for what all of them share: what an actor's step leaves alone keeps the
other actors' facts (`OthersKeep`). `Inductive` collects them.

The second half of the module: `ReceiptIsHonestThm`, `VerifiedIsDurableThm`, `NoGhostReceiptThm`, `ReceiptHistoryThm`,
`ClosedTaskIsSettledThm` and `Refinement` (`Spec => ImplementsLedger`). None of these
properties is inductive, and `IInv` is not enough: it knows who may write, not what. The
one fact they all rest on is that a receipt is only replaced by one that `Follows` it, so
that what was read, told or found closeable long ago still says something of the file.

- `OrderInv`: what is read follows what a power loss would leave (`Revised`, `Created`,
  `LedgerStep` are the steps this allows);
- `SoundInv`: no receipt claims what did not happen (`runs` is the number of times its
  command ran);
- `SeenInv`: what an actor holds in memory was durable when it was read, and the durable
  receipt follows it. This is why an answer may be built from an old read;
- `WorkInv`: what each step has already established about the receipt it works on;
- `TaskInv`: whoever closes the task holds its lock, has found it active, and every
  receipt it has passed still may be closed over (`Closed`).

`HInv` (the first four with `RunsInv`, `NoGhostReceipt` and `VerifiedIsDurable`) is proved to hold
first (`HistoryInvariance`); the refinement and the task follow from it. The refinement
maps a ledger entry to the durable receipt: every step of `TrackedExecution` is a step of
the ledger or leaves it alone.

### ServerLifecycle_proofs

For any number of servers and operations, with crashes, reused pids, failing calls and starts that
overlap in any way, from `LifecycleAssumption` alone: `TypeCorrect`, `LockNamesHolderThm` and
`StoppedIsSettledThm`.

`GuardInv` says who may touch writer.lock: an open store belongs to a living process (`OpenIsAlive`); a
process that writes the lock has created it, or was robbed of it (`WriterCreatedLock`); the owner that a
process has judged is one that had the lock (`JudgedOwner`, `LockerStarted`); and a holder that was not
robbed is named by it (`LockNamesHolder`). The read, the judgement and the removal of a stale
lock are three calls, and `RemovedKeeps` says what the last one can do: whoever it takes the lock
from, other than the owner it has judged, is robbed. So the theorem says that this is the only way to
lose the lock, and `guard_two_starts` that it happens.

`SettleInv` says what each phase of close() has established of the commands it found running
(`SnapshotInv`): a command that did not outlive the waits has a hook that was awaited or is over, and a
hook that is done has settled its receipt, since the store of a working server is open (`StoreIsOpen`), so
that no hook is refused before the store closes (`HookInv`). What is excepted is named by the
property: the commands that outlived shutdown()'s time limit, and a hook whose write failed.

### TaskLedger_proofs

For every set of callers and requestIds and every number of tasks, revisions, faults and
crashes, from `LedgerAssumption` and `NoneAssumption`: `AnswerSurvivesThm`, `OneActiveTaskThm`
(with the types), `RecordedOnceThm`, `NoLostUpdateThm`, `TaskHistoryThm`. The inductive
invariant `LInv` says of both `vis` and `dur` that they are `Good` (one active task, as many
mutations as records, records of distinct revisions none of which is ahead of its task),
that `vis` `Follows` `dur`, and of a caller about to write (`WriteInv`) that it holds the
lock and that what it checked is still in place. `NoLostUpdate` speaks of answers; it
follows because an answer stays in the file (`AnswerSurvives`) and the records of one
file have distinct revisions.

### StoreJournal_proofs

For every set of receipts and every number of versions, failed calls, crashes and power
losses, from `StoreAssumption` and `AbsentAssumption`: `NeverCorruptThm` (with the types),
`CacheIsSoundThm`, `NoStaleJournalThm`, `KnownSurvivesThm` and `StoreImplementsThm`
(`Spec => ImplementsAtomicCommit`). No one of the properties is inductive: a state with two
different journals on the disk, or one that is half applied and whose marker is not durable,
satisfies all four, and the next power loss breaks them. The inductive invariant `StoreInv`
adds

- `FilesInv`: the names in transactions/ stand for at most one journal, now and after any
  power loss, and that journal is `Pending`: its targets are all untouched and it has no
  durable marker yet, or all applied, or in between and then payload and marker are durable
  for good (`ForGood`). This is why a replay never meets a conflict and never goes back;
- `VersionsInv`: no file holds a version that has not been given out;
- `JobInv`: what the operation in progress has established, step by step (`WriteInv`,
  `CommitInv`, `RecoverInv`, `ApplyInv`, `RemoveInv`).

Most steps only turn what a power loss may leave into what is there; `SettledKeeps` and
`SettledImplements` are proved once for all of them. In the refinement a transaction
happens when its payload and its marker both become durable (`DecidingImplements`), which
may be the sync that commitJournal makes, the one that recovery repeats, or a power loss
that leaves both files although neither sync was reached (`PowerLossImplements`).

### FileServices_proofs

Four components that share nothing but the module.

`PagesAreExactThm`: for every text, every chunk limit of at least four bytes, and any
number of uploads and reads, from `PagesAssumption`. `PagesInv` adds `ReadInv` to the property: a read under
way has asked for at least a byte and began within what stat() saw, without which a
page might not advance. That a character is at most four bytes is what makes a
probe of the limit always contain an end.

`SnapshotsAreWholeThm`: for every finite set of publishers and any downloads, versions, tokens, hours
and faults, from `ArtifactAssumption`. `ArtifactInv` adds why a snapshot cannot change under a
token: a publication has its token for itself until it lists it (`TokensOwned`), and a download
that has looked a token up was promised what the snapshot says for as long as it exists
(`SendsPromised`), whatever prune() removes in between. `RoomLeft` is the capacity: the list and
the calls that have passed the test of it, together, exceed it by less than the number of callers.

`BackupIsWholeThm` (with the types) and `FailedMoveKeepsDestinationThm`, an action property: for any number of
calls on any sources and destinations and any faults, from `MovesAssumption`. `CallOK` says at each
step where the old destination is: nothing but the call itself touches its backup, so that what it has set
aside is there (`BackedUp`) whatever the other calls do, up to the step that puts it back. What other
calls may undo is the destination itself, as `move_repeated` shows; `AloneOK` says what is there while no
other call has the same one, and that part of the property is about such a call only (`Alone`).

`MigrationIsSafeThm`: for any number of edits, failed writes, deaths and losses of power, from
`MigrationAssumption`. The property is far from inductive: it says nothing of what a half-done
migration has on which disk. `MigrationInv` has two parts.

- `DiskInv` holds whatever program runs. A marker's backups are on both disks (`Markers`), and
  while the pending file is on one of them the plan is for the files as they are; without a
  marker on both disks every file is of version 1, and a marker on one only has the pending file
  on both; with the marker, and the pending file not on both, every file is of version 2
  (`Schemas`). It says of each object what the two disks have in common, so that a loss of power,
  which picks one of the two states of each, keeps it (`MixKeeps`), and so does any sync (`SyncKeeps`).
- `StepInv` says what the program has done so far; it is trivial once the program gives up, so a
  write that fails has to keep `DiskInv` only.

One lemma says of each kind of write what it needs (`PutBackup`, `PutPending`, `PutMarker`, `PutFile`,
`DropPending`, `DropMarker`, `EditFile`); each action is then checked against one of them (`StepKeeps`). The
proof corrected the model: `Replace` had the sync of the backup and the write of the file in one
step, and so let a write fail after its rename without the sync that precedes it in the code
(storage-migration.ts:119), whereby a marker that was never durable could be lost under a
replaced file. With the order of the code the invariant holds.

### OAuthStore_proofs

`SpentStaysSpentThm` (with the types), `AnswersSurviveThm` and the action property
`VerdictIsDurableThm`, for every set of calls, clients and metadata, every lifetime and any number of failed
writes and restarts, from `OAuthAssumption`. None is inductive: they speak of tokens and
answers, not of the handlers in between. `OAuthInv` adds

- `ShapeInv`: the types, and that the queue of mutations holds each waiting handler once;
- `WriterInv`: only the head of the queue writes, memory is the file while nobody does, and
  what a failed write restores is the file;
- `TokenInv`: a token belongs to the call that issued it, which is done if the token is in the file;
- `ClaimInv`: no two calls hold or have spent the same code or refresh token, and what is
  claimed is no longer there to be claimed;
- `RevokedInv`: a revoked grant has no usable token in memory or in the file, and one that is being
  revoked none in memory;
- `KeptInv`: a pair that was answered is in the file, and in memory up to what the mutation
  under way ends; this is what makes a rollback harmless.

### OperatorServices_proofs

Operator approvals. For every set of approvals, requests, executions and targets, any lifetime and any number of
crashes and failed writes, from `ApprovalAssumption` (there is always a fresh approval id: the
code draws random ones): `ConsumedOnceThm` (with the types), `OutcomeIsHonestThm`,
`CompletedTaskIsQuietThm`. None of the three is inductive: a state in which two executions
have passed the check of the same approval satisfies them all. `ApprovalInv` adds

- `StoreInv`: both the memory and the file are `Good` (distinct requests and operations, a
  worker only for a consumed approval, a running one only for an unresolved approval of an
  active task), and they are equal until a write fails;
- `LockInv`: two executions under the lock work on different workspaces, hence on different
  approvals;
- `ExecutionInv`: a reserved approval is `executing` in memory and on disk, has no worker yet,
  and its task is active. This is why a completion or a hook in between cannot intervene.

Host executor. `HostRunsOnceThm` and `MarkedIsAnsweredThm`, for every set of jobs and any number of chunks,
failed writes and deaths, from `HostAssumption`. `HostInv` says of each job: the request can be claimed only while nothing has
been started for it (`BeforeStart`); a result that says the command ended was written after it did
and after its last output (`Outcome`); and what the client reports is a result it has seen
(`Told`). The companion's memory is lost when it ends (`AgentInv`): recovery goes by the files
alone. A step about one job leaves the others' facts (`Spared`). `MarkedInv` says at which step a marked
job is attended to: before its spawn, while the companion has a record of it, or by its result; a
companion that is not up owes nothing, since its successor does not come up before it has
answered what is marked (`UpWhenAnswered`).

### ProcessOutput_proofs

`OutputAccountingThm`, `SelectionIsExactThm`, `NothingSkippedThm` and `NoLostWakeupThm`: for every set of
sessions, every chunk size, page size, budget and limit and any number of events of any size,
from `OutputAssumption`. None is inductive. `OutputAccounting` speaks of the sessions the manager
has and of sums, and does not say that a buffer's head, base and numbers fit each other, without
which the next trim may leave a base that belongs to no chunk; `SelectionIsExact` says what a page
is, not why. `IInv` (which TLC also checks on the small instance) adds

- `BufferOK`: the live chunks of a buffer are numbered from `base` to `next`, and `retained` is
  their size. Every operation of the buffer keeps it, a compaction included, and it is all that
  `SelectAfterIs` needs to turn the offset arithmetic of selectAfter() into the chunks after the cursor;
- `StoreOK`: only managed sessions retain anything, the total is the sum over them, and
  the recency list has exactly those with output, once each. This is why the loop of
  `#trimTotalRetainedOutput` ends within both budgets (`TrimTotalOK`): each round either empties
  the session it meets, which then leaves the list, or reaches the total with it. It holds
  whatever the order of the list is, which `process_output_recency` shows to be wrong;
- `Accounts` and `Cursors`: the bytes of each session, and what its client was sent, also of sessions
  that do not run. A step that only trims or appends makes the new buffer `Follows` the old
  one, whereby everything a client was told stays true (`BufferFollows`);
- `Counts`: an ended session has had an event, so that it writes no more.

Sums and selections (`SizeOf`, `Kept`, `TrimTotal`) are recursive functions over positions in the model,
not folds: the folds of the library take an operator, about which no fact can be stated
here. The induction they need is derived from the well-foundedness of the naturals, with the
predicate as a set (`NatSetInduction`).

### Only model-checked

Liveness (`EveryRequestReturns`, `EndedIsRecorded`, `ShutdownEnds`), which is out of the provers'
reach. Every other property of a passing run is stated by a theorem, for all values of the
constants and without assumptions other than those the modules name. No module declares a
`RECURSIVE` operator.

## Disagreements found

1. **Eviction order** (`process_output_recency`). A partial trim by the total
   budget calls `#touchOutput` for the session it has trimmed, which makes the least
   recent session the most recent one; the next eviction takes newer output of
   another session. `test/process-manager.test.ts:230` describes least-recent eviction, and
   tests only a trim that empties the session.
2. **Writer guard** (`guard_two_starts`). `#acquireWriterGuard` reads the lock, judges
   its owner dead, and removes whatever file has the name by then. Two processes
   that start together after a crash can both hold the guard. README.md:314 says
   "guarded by a single writer".
3. **Shutdown** (`shutdown_late_request`). close() stops accepting requests last.
   A handler that spawns after shutdown() has taken its snapshot leaves a
   command running, and its hook finds the store closed. README.md:325 says that
   the shutdown terminates processes first and waits for the hooks.
4. **Repeated move** (`move_repeated`). movePath() remembers a backup's name before the
   rename that makes it. When the destination was just set aside by another call, the rename
   finds nothing, and the rollback of this call removes what the other one put there and
   restores nothing. Two identical calls lose the content and the old destination.
   `test/file-service.test.ts:276` says that a move "preserves an existing move destination when the
   source is missing".
5. **Unanswered host job** (`host_unanswered`). The companion removes a request that it rejects, or that
   it recovers, before it writes the failed result. If it dies in between and the job was not
   marked yet, nothing is left by which the next start could know of it, and its client polls on.
   README.md:86 says that a claimed job that is unresolved "is marked failed" at the restart. It is the only
   such window: `MarkedIsAnswered` holds of every marked job.

## Not modelled

- Untracked calls (no operationId), list_processes, write_process and the signals of
  terminate_process: they change no receipt. The command timeout acts like a
  command that ends.
- `ExecutionRecorder.reconcile`: no tool calls it.
- The store's HMAC key, its size limits and quarantine of unreadable files; the
  content of checkpoints, goals and workspace observations.
- Two workspaces: they share the store's queue and writer guard, no data.
- Operator approval: the page and its throttle, the digests of the candidate; the store's
  lock file, which is the protocol of the store's writer guard once more.
- Host executor: the stdin relay, the choice of shell and user, the companion's own lock,
  the POSIX service manager.
- OAuth: the approval page, PKCE and redirect matching (in the SDK), scopes and resources;
  `auth.ts`, which compares one fixed token.
- File tools other than paging and moving: list, stat, write, replace, patch, copy, remove and
  mkdir are each a fixed sequence of file system calls on one path; the batch reads repeat a
  single one.
- Storage migration: how a file's content is validated and transformed.
- Script runner, workspace identity and snapshot, configuration, telemetry: I/O and
  pure functions without state of the server.
- Kernel review: a client of an external service.
