# A verification of the Kimi agent core

TLA+ models of the concurrent heart of `packages/agent-core-v2`, the engine that
runs agent sessions, and of `packages/minidb`, its embedded database: the append
log every session is persisted in, the loop that runs an agent's turns, the
identity of those turns, the scheduler that feeds user prompts to the loop, the
execution of tool calls, the conversation history they are recorded in, background
tasks, the database's write path with compaction and recovery, and its lock file.
TLC checks them on small instances; of every safety and action property that a passing
run checks, TLAPS has a proof for every size (section 4).  All paths below are relative to
`src/packages/agent-core-v2/src` unless they begin with `src/`.

## 1. Inventory

| component | state it keeps | operations | what makes it correct |
|---|---|---|---|
| append-log store (`persistence/backends/node-fs/appendLogStore.ts`) | per key: buffered records, the shared flush promise, sticky storage failure, cutover epoch, reference count, retirement | `append`, scheduled flush, `flush`, `read`, `rewrite`, `acquire`/dispose | one storage operation per key at a time; no record lost, duplicated or reordered; a resolved flush is durable; every record gets written |
| file storage (`.../fileStorageService.ts`) | files | `append`, atomic `write` | an interrupted append leaves a prefix, perhaps a torn line |
| agent loop (`agent/loop/`) | FIFO of turns, a step queue per turn, standalone and held requests, leases, waiters | `enqueue`, `cancel`, `tryAcquireQuiescence`, `settled`, `dispose`, the run of a turn | turns one at a time and in order; leases exclude turns; no promise forgotten; each message enters the context once; every turn ends |
| step retry (`agent/stepRetry/`) | failed attempts of the current driver | error handler with backoff | bounded retries, no duplicate message |
| turn clock (`agent/loop/turnOps.ts`) | persisted next id and cancelled ids; reservations in memory | `turn.prompt`, `turn.cancel`, loop events | the persisted count and the reserved ids agree; ids only grow |
| prompt scheduler (`agent/prompt/promptService.ts`) | active prompt, FIFO of pending prompts, steered prompts | `enqueue`, `steer`, `abort`, `clear`, and the internal `startNext`, `settle` | every handle settles once; prompts run one at a time and in order |
| full compaction (`agent/fullCompaction/`) | the compaction in flight, counts per turn | `begin`, cancel, rounds, overflow recovery | the history is replaced only by a summary of itself |
| context memory and projection (`agent/contextMemory/`, `agent/contextProjector/`) | messages, pending calls, held messages | fold of messages and loop events, compaction, projection into a request | no message lost, doubled or moved; a request answers every call once |
| tool executor and dedupe (`agent/toolExecutor/`, `agent/toolDedupe/`) | calls prepared, queued, running and finalized; results by key | prepare, adjudicate, schedule, run, abort, finalize | conflicting tools run one at a time in order; repeated calls run once; a batch ends |
| task manager (`agent/task/`) | running tasks, tasks of earlier processes, documents, notification keys | register, detach, stop, time out, settle, notify, undo, restore | the end of a task is reported once, and is reported |
| wire service (`wire/wireService.ts`) | models reduced from ops, restore phase, persist queue | `dispatch`, `restore`, `flush`, `seal` | the log replays to the models |
| undo (`agent/undo/`) | – | cut the context under a quiescence lease, reconcile participants | no turn meanwhile; participants agree with the shorter history |
| minidb write path (`src/packages/minidb/src`: `index.ts`, `wal.ts`, `compaction.ts`, `snapshot.ts`, `recovery.ts`) | store, log with its batches, snapshot, value pointers, rotation lock | `set`, `del`, `batch`, `compact`, open | acknowledged writes survive; pointers read back; no writer stuck |
| minidb lock file (`src/packages/minidb/src/lockfile.ts`) | lock and watch files | acquire, take over, renew, release | one holder; the file tells the truth |
| interaction, goal, swarm, cron, lifecycle, lock pool | tables of requests, sessions, leases | – | – |
| kosong, kap-server, klient, transcript, kaos, oauth, ACP, TUI, web and editor apps | – | transport, rendering, I/O | – |

How they interact.  `promptService.startNext` and the other senders (tasks, hooks,
injections) call `loop.enqueue`, and await the `assigned` promise and the turn's
`result`.  The loop dispatches `turn.prompt`, `turn.cancel` and loop events to the
wire, whose records go to the append log; it publishes `turn.started` and
`turn.ended` synchronously, so a subscriber may call the loop back from inside one
of its calls.  `stepRetry`, `loopContinuation` and `fullCompaction` are aspects on
the loop's hooks and error handlers.  Undo takes a quiescence lease.  Compaction
ends with an event on which the prompt scheduler starts the next prompt.  A step
hands its tool calls to the executor and folds what comes back into the history,
which the projector turns into the next request.  The end of a background task
comes back as a request of the loop, or as a message appended by a restore.
minidb serves the session index; processes that share a directory meet only at its
lock file.

What is hard here: everything runs on one JavaScript thread, so the hazards are
not data races but state read before an `await` and used after it; promises shared
by callers that want different things; calls made from inside published events;
cancellation that arrives at any await; storage that fails after it has written;
and crashes, after which memory and log disagree.  `PROJECT.json` lists each hazard
at its line with the properties that look for it.

## 2. Modules

An action is one synchronous segment of the code: what runs between two awaits, or
from a public call to its first await.  Where the code publishes an event in the
middle of a segment, the segment is split there, because subscribers can call back.

- **`AppendLog`** – one (scope, key).  A `LogState` object is a *generation* `g`;
  `pc[g]` is where the owner of its flush promise stands (`ready`, `append`,
  `wait`, `write`, `finish`), `mark[g]` the records its callers wait for,
  `rewrites[g]` the rewrites chained behind it.  The file is a sequence of
  terminated lines and a tail (`NoTail`, `Torn`, or a record that lacks only its
  newline).  `Interrupted` gives everything a failed or crashed append can leave.
  `Crash` clears the memory.  `acked` and `lost` are history.
- **`AgentLoop`** – one agent.  Requests are numbered in order of enqueue, turns in
  order of creation.  A request has its own state (`rstate`), the state of its
  `assigned` promise, and of its step and the step's result.  `pc` is the place of
  the run (`hook`, `llm`, `tools`, `after`, `wrap`, `recover`, ...) or of a
  synchronous call that is not over (`pump`, `begin`, `release`); at `started` and
  `ended` the loop is publishing.  Model answers, tool results and errors are
  nondeterministic choices.
- **`TurnQueue`** – the abstract specification: turns are admitted in order, run one
  at a time in that order, end once, and can be withdrawn while they wait.
  `AgentLoop` implements it (`ImplementsTurnQueue`).
- **`TurnClock`** – turn ids: the persisted `TurnModel` and its reducers, the
  reservations in memory, queued turns cancelled in any order, and a crash.
  `restorable` holds the models a restore may rebuild: as of the last flush of the
  wire log and after each record buffered since; a crash falls back to any of them.
- **`PromptScheduler`** – the scheduler composed with `TurnQueue` (what it needs of
  the loop) and with begin, end and cancellation of a compaction.  `pc` is the place
  of the one `startNext()` past its guard; `lost` records prompts of a `steer()`
  that threw.
- **`LockFile`** – several `LockFile` objects (*users*), each in a process.  `lockFile` is
  the pid in the file, `watches` the watch files, `pc[u]` the next file operation of
  `acquire()` or `release()`: register and reap watches, create, inspect, rename the
  bid, settle, scan the watches, check, leave.  A renewal has written its tmp file
  while `renewing[u]`.  Processes die at any step (`ProcessDies`) and file operations
  fail (`FailureStep`): what the code throws, ignores or leaves behind is modelled for
  each.  `strays` are watches that could not be unlinked, `orphan` records that a
  failure has left in the file a process that no longer holds or wants the lock.
- **`MiniDb`** – files are sequences of frames, numbered by the compaction that wrote
  them; `snapAt`, `walAt`, `reader` say which of them the two names and the value
  reader refer to.  A writer goes through rotation gate, append, group commit, apply
  and acknowledgement (`wpc`); a compaction through snapshot, pre-copy passes, lock,
  seal, last copy, the two renames, reopening and remapping (`cpc`), with a throw, a
  roll-forward or a crash possible at each.  A crash keeps the files and a prefix of
  the batch being written, perhaps with a torn frame, and recovers from them.  A
  rejected batch is rolled back by its writers one after the other: `Restoring` says
  which of them find the key as they left it, `Restored` what they make of it.  A commit
  the sealed or closed log refuses is applied and rolled back around one `await`: alone
  (`CommitRejected`) or overlapping with another of the same key (`CommitsRejected`).
- **`ToolExecutor`** – the calls of one response: prepared in order (schema, dedupe
  check, veto), then scheduled by the conflict relation of their accesses, run,
  abandoned after the grace period, finalized and yielded.  `deferred` is
  toolDedupe's table of results by key.  The plan guard, whose listener was registered
  before toolDedupe's, may allow a write of the plan file for good (`PrepareOutright`):
  toolDedupe is not asked, and keys the call only when its result is finalized.
- **`ContextHistory`** – the reducers of `loopEventFold.ts` and the projection as
  operators over a context (`messages`, `pending`, `held`), driven by the steps of the
  loop, by messages that arrive at any moment and by a compaction that copies the
  history, works, and replaces it if `historySafeToCompact` still holds.
- **`TaskManager`** – per task the running service's entry, the info restored from an
  earlier process (`ghost`), the document on disk and the queue of its writes; the
  notification tables; and `journal`, the sequence of model states a crash could fall
  back to.  `told` in a journal state is what the conversation says about ends of
  tasks, so an undo shortens it and a crash may too.
- **`Filtering`** – `Elems` and `Without`, the one place where sequences are filtered
  (`pending.filter(...)` in the scheduler, the parsed lines of the log, the records a
  rewrite leaves out, the loop's lines of requests and turns), so that the lemmas about
  it serve all.
- **`MC...`** – instances for TLC.  **`...Proofs`** – the theorems about the module of
  that name; `FilteringProofs` holds lemmas only, `WireModelProofs` is about
  `ContextHistory` and `TurnClock`, the two models the wire replays, and `MiniDbProofs`
  about `MiniDb` and `LockFile`, the two halves of minidb.  `HistoryInit`, `LockNext` and
  the like carry the name of their module so that the two can be extended together.

Operators marked "mutant" in a comment are deliberately wrong versions of the
definition after them; a property is only kept if it fails under one of them.

### What is abstracted

- Records, messages, errors and results are numbers or kinds; text, telemetry,
  traces and events without a subscriber in the model are left out.
- `AgentLoop`: the kinds of request stand for the flags their senders give them
  (`notification` is also `inject()`); requests of senders are enqueued at the
  tail; `materialize` does not throw; `Turn.ready` is left out; the overflow handler
  of full compaction recovers in the same shape as step retry (wait, then retry the
  driver at the head), so only step retry is modelled; event subscribers enqueue and
  cancel but do not take leases or dispose the loop.
- `TurnClock`: a flush is one step; the records a part of it has written are covered,
  since a crash may fall back to any record since the last one that finished.
- `PromptScheduler`: the loop is `TurnQueue`, so an admitted turn starts in a step
  of its own; at most one `steer()` awaits its assignment; what `clear()` and a
  blocked prompt write to the context is left out.  A branch for an assignment
  without a turn exists in the code and is unreachable, since every assignment has
  one.
- `AppendLog`: `rewrite()` gets what its contract asks for, the log without the
  records still buffered.  With `LateRewrite = FALSE` it is not called on a
  replacement buffer whose predecessor still has an append in flight.  Both callers
  comply (`wire/wireService.ts:196` after a full read,
  `sessionLifecycleService.ts:577` on a new key); a caller that did not would
  overwrite that record.

- `LockFile`: pid reuse and lock files with unparsable content are the pid `Stale`;
  a bid's rename and its verification are separate steps, and so is every file
  operation.  The sidecar files that carry a bid or a renewal are left out, since
  nobody reads them.  `BidDropped`, `ScanFails` and `LateRenew` switch on the three
  faults the protocol does not survive (see the known deviations): a landed bid that
  is given up, by death or by an `inspect()` that throws, while a rival in another
  process contends (one nobody contends with may always be), a failing `readdir`, and
  a renewal in flight during `release()`.
- `MiniDb`: a frame has length one and holds the values of all keys of its write, so
  that offsets are frame numbers and a torn frame is one that recovery skips; expiry,
  secondary indexes, `close()` and `backup()` are left out.  `DiskFailures`,
  `EarlyAppend`, `Overlapped` and `CompactUnopened` switch on known deviations.  A
  snapshot does not go on over a value that is not where its record says (`Readable`),
  since the positioned read throws.  Refused commits overlap in pairs, and nothing but
  another refused commit runs between such a commit and its rollback, which follows in
  the same run of microtasks: longer chains of writes of one key leave what one of
  their pairs leaves, and those of batches that share different keys pairwise are left
  out.  Rotation is that of POSIX: on Windows `compaction.ts:283` closes the reader
  before the renames, and a rotation that fails between the two leaves it closed.
- `ToolExecutor`: what tools, hooks and approvers answer is a choice; the reminders
  and the forced stop of long streaks of repeats, hooks that throw, a consumer that
  stops reading early, and a tool abandoned in one turn that is still running in the
  next are left out.
- `ContextHistory`: contents are present or absent; undo, `clear()`, the strict
  projection used after a provider rejected a request, the merging of adjacent user
  messages, elision of media and the shapes of remote and legacy compactions are left
  out.  The requests a compaction makes are left out too: one that overflows is
  repeated without the oldest messages (`fullCompaction/fullCompactionService.ts:744`),
  so that the summary that replaces the history may not have seen all of it.  A response announces all its calls before the first result is recorded, as
  the executor does.
- `TaskManager`: a notification key is `<<task, status>>`; adding to
  `scheduledNotificationKeys` and to `pendingNotificationRequests` is one step, as no
  other code can run on the tables in between; `maxRunningTasks`, `stopAllOnExit`,
  `dispose`, output buffers, notifications that a compaction summarises away, a failed
  write while tasks are declared lost, and `TaskStop` on a task that has ended (an
  answer to a question, not a report) are left out.  A `stop()` returns only after the
  settling of its task, whose document write it registered on the same queue later
  (`task/taskService.ts:1050` after `:738`, `:790`).  Of two recorded ends of a task a
  restore takes the one with the later `endedAt` (`:1361`), the model the document's:
  all recorded ends of a task are the same one (`OneEndOf`), so that they differ at
  most in data left out here.  The losses a restore records are
  one journal record instead of one each, which differs only with several tasks; their
  documents are written before it in either case.

## 3. Runs

| run | instance | shows |
|---|---|---|
| `append_log_safety` | 3 records, 2 generations, 1 rewrite, 1 failure, 1 crash, torn writes; 2.4M states | `OneStorageOperation`, `OrderedOnce`, `HandoffOrder`, types |
| `append_log_progress` | 2 records, 2 generations, 2 rewrites, 1 failure; fairness | `NothingDropped`, `FlushReportsDurable`, `EventuallyWritten` |
| `loop_admission` | 3 requests (prompt, steer, stop hook), 1 lease, 1 waiter | `LeaseExcludesTurns`, `WaitersServed`, `AssignmentsKept`, refinement of `TurnQueue`, types |
| `loop_steps` | 2 requests, 2 continuations, ceiling of 2 steps, 2 attempts; fairness | `TurnsLeaveNothing`, `DeliveredOnce`, `RunningIsCurrent`, `TurnsEnd` |
| `clock` | 6 turns, 2 crashes, any unflushed end of the log lost; 38k states | `Alignment`, `IdsAscend`, `CountIsId`, types |
| `prompt_scheduler` | 3 prompts, 1 foreign turn, 1 compaction; fairness | `EachInOnePlace`, `OneTurnAtATime`, `InOrder`, `LaunchAnswered`, `PromptsSettle` |
| `lock_file` | 3 users in 3 processes, 2 acquisitions each, 1 crash, 2 failed file operations; fairness; 249k states | `OneHolder`, `LockTellsTruth`, `TakeoverCompletes` |
| `minidb` | 2 keys, 2 writers, 3 commits, 2 compactions, 1 fault, both value modes; 2.5M states | `AckedSurvive`, `PointersRead`, `MemoryIsDurable`, `NobodyLeftParked` |
| `tool_executor` | 3 calls of 3 keys over 2 steps, one key the plan file's; fairness; 679k states | `ConflictsSerialized`, `DuplicatesShareOneRun`, `BatchEnds` |
| `context_history` | 2 steps of up to 2 calls, 3 messages, 1 compaction; 1.3M states | `RequestsAnswerCalls`, `MessagesKept` |
| `context_leftovers` | the same with 2 messages | finding: `HeldSurvive` fails |
| `task_manager` | 1 task, 2 crashes, 2 undos whose flush may fail, 3 failed document writes, 1 cancel; fairness; 1.1M states | `ToldOnce`, `RecordedEndIsFinal`, `EndIsTold` |

Why the bounds suffice.  Two generations are a handover; a third adds nothing that
the chain of `HandoffOrder`, which is proved for any number, does not cover.  Three
records give a batch in flight, one that arrives during it and one after it.  Two
rewrites overlap with each other and with a drain.  Three requests make a running
turn, a waiting one and a request that is held, refused or merged; two steps with a
ceiling of two reach the landing step, two attempts a retry and giving up.  Three
prompts make an active one, one being steered and one waiting.  Three users race for
a dead lock while a third arrives between their steps.  Three commits put a write
before, during and after a compaction, and a second compaction rotates what the first
one left; four commits and writes of several keys (`Batches = TRUE`) were searched for
five minutes each, breadth first, without an error, but not to the end (10M and 7M
states).  Three calls with a recursive read,
a write below it and a read of the written file are the smallest queue in which one
call could overtake another, or repeat one that is still waiting.  Two steps with two
calls give a pending call under a step that is begun on top of it, and three messages
one before, one during and one after.  Tasks share nothing but the conversation and the
restore queue, so one task with two crashes is where the order of its document, its
journal record and its notification matters.  Deadlock is not
checked: each of these services may simply be left alone for ever.

Fairness.  The event loop runs every continuation whose promise settled, and
storage operations settle: `WF(Continue(g))` in `AppendLog`.  Hooks, model requests
(which have timeouts) and tools settle, and leases are disposed in `finally` blocks:
`WF(Run)`, `WF(ReleaseQuiescence)` in `AgentLoop`.  `PromptScheduler` takes the end
of turns from `TurnsEnd` and assumes the submit hook and compactions end.  In
`LockFile` an `acquire()` or `release()` goes on while its process lives.  In
`ToolExecutor` the event loop runs what is ready and the grace timer fires, and an
approval ends once the signal is aborted; tools and approvers themselves promise
nothing.  It is also assumed that `resolveExecution()` of a tool
(`toolExecutorService.ts:379`) and the promises that `onWillExecuteTool` participants
wait for (`_base/event.ts:142`) settle: neither is raced with the signal, and a batch
would wait for them for ever.  In `TaskManager` continuations run, document writes
end, the loop gets to the requests it holds, the flush of an undo settles one way or
the other and a restore that began goes on; tasks may run for ever.
Nobody is ever obliged to call anything.

### Findings

*A compaction drops held messages* (`context_leftovers`).  A message that arrives after
a step was interrupted with a call pending is held until the next `step.begin` closes
the call.  If a compaction is applied first, `context.apply_compaction` resets the fold
(`agent/contextMemory/contextOps.ts:201`) and the message is gone, against
`agent/contextMemory/loopEventFold.ts:36`.  `MessagesKept` excepts exactly these.

### Known deviations

What the models also show, each reproduced by the configuration or constant named; it
is not a listed run, and the passing runs leave the case out or name it as an exception.

| deviation | reproduce |
|---|---|
| A line torn by a crash is tolerated by `read()` until the next append continues it; then the log is corrupt for good (`appendLogStore.ts:250`). | `AppendLog_torn.cfg`, `MCAppendLog`: `LogReadable` |
| A flush overtaken by a rewrite resolves before its records are durable, against the header of the store (`appendLogStore.ts:11`, `:246`). | `AppendLog_flushrewrite.cfg`: `FlushedIsDurable` |
| A steer queued when its turn ends is aborted with the turn; `agent/loop/stepRequestQueue.ts:11` says steers "carry into the next turn". | `AgentLoop_carryover.cfg`, `MCAgentLoop`: `SteersCarryOver` |
| Cancelling a step during its retry backoff fails the turn (`agent/stepRetry/stepRetryService.ts:157`). | `AgentLoop_stepcancel.cfg`: `StepCancelKeepsTurn` |
| `startNext()` under a compaction calls itself without an await (`agent/prompt/promptService.ts:205`); the model recurses for ever (`Recurse`), JavaScript ends in a stack overflow, whose `RangeError` may be caught at `:198` and fail the prompt. | `PromptScheduler_compaction.cfg`, `MCPromptScheduler`: `LaunchesAfterCompaction` |
| A bidder that dies, or whose `inspect()` throws (`src/packages/minidb/src/lockfile.ts:153`), right after its bid landed: another, which had verified its own bid before and now sees no live watch, claims although the file names the process that gave up, and once that is dead a third takes over. `src/packages/minidb/src/lockfile.ts:157` calls exactly-one "a construction, not a timing bet". | `LockFile_dead.cfg`, `MCLockFile`: `OneHolder` |
| A `readdir` that fails counts as a directory without watches (`src/packages/minidb/src/lockfile.ts:186`), so that the bidder claims over a contender. | `LockFile_scan.cfg`, `MCLockFile`: `OneHolder` |
| A lock file that names a live process nobody holds it in, so that no other process can take it while that one lives: after an `unlink` that fails in `release()` (`src/packages/minidb/src/lockfile.ts:276`) or in the exit hook (`:286`), and after an `inspect()` that throws on a landed bid (`:153`). A watch that cannot be unlinked (`:165`) makes every bidder of another process wait as long. | set `orphan`, exception of `LockTellsTruth`; `strays`, exception of `TakeoverCompletes` |
| Two `LockFile` objects of one process that race for a dead process's lock both claim it: `hasLiveForeignWatch()` skips the watch files of the own pid (`src/packages/minidb/src/lockfile.ts:189`), although `:33` speaks of two lock users in one process. | `LockFile_shared.cfg`, `MCLockFile`: `OneHolder` |
| A `renew()` in flight during `release()` renames its file in place afterwards (`src/packages/minidb/src/cluster/shard.ts:60`). | `LateRenew = TRUE`: `LockTellsTruth`, then `OneHolder` |
| A rollback undoes an acknowledged delete: two deletes of one key by `batch()` look alike to the rollback of a rejected write (`src/packages/minidb/src/index.ts:934`), so that of the first brings back a key whose second delete then lands, and the next compaction makes that durable. `:929` says a later operation of the key is not rolled back over. | `MiniDb_overlap.cfg`, `MCMiniDb`: `AckedSurvive` |
| Two writes of one key that pass the rotation gate before it closes and are refused by the sealed log one after the other: the rollback of the first is skipped, since the second has applied, and that of the second puts back the first's record (`src/packages/minidb/src/index.ts:744`, `:934`). Until their retries land memory holds what no file does, and it still does if the rotation fails and no log can be opened. `:742` says memory never diverges from what is durable, `:569` that the rollback makes the retry safe. | `MiniDb_sealed.cfg`, `MCMiniDb`: `NeverDiverges`; history `rejected`, exception of `MemoryIsDurable` |
| Two identical writes of the plan file in one step both run: the plan guard, registered before toolDedupe (`index.ts:245`, `:270`), calls `event.allow()` (`agent/plan/planService.ts:133`), which ends the adjudication (`agent/toolExecutor/beforeToolExecuteEvent.ts:132`). `agent/toolDedupe/toolDedupeService.ts:5` says same-step duplicates are vetoed. They run one after the other, and one of them is answered with the result of the other. | `ToolExecutor_plan.cfg`, `MCToolExecutor`: `DuplicatesVetoed`; history `outright`, exception of `DuplicatesShareOneRun` |
| A rotation fails past its renames and the fresh log cannot be opened either: pointers are not remapped and `db.wal` is a closed object of size 0. `compact()` does not look (`src/packages/minidb/src/index.ts:1642`), takes that size for its fence, remaps by 0 and makes the database writable again; the compaction after it snapshots what the pointers then read. `src/packages/minidb/src/compaction.ts:241` says it stays unwritable and the next open recovers. | `MiniDb_unopened.cfg`, `MCMiniDb`: `AckedSurvive` |
| A rejected `writev` leaves `nextOffset` ahead of the file: later pointers miss their values (`src/packages/minidb/src/wal.ts:157`). | `DiskFailures = TRUE`: `PointersRead` |
| `db.wal` is the new log before it is open (`src/packages/minidb/src/compaction.ts:292`). | `EarlyAppend = TRUE`: `PointersRead` |
| An undo may report the end of a task that is settling; after a crash before the record the next process reports it lost as well. | set `early`, exception of `ToldOnce` |
| An undo whose records cannot be flushed rejects after the cut (`agent/undo/undoService.ts:112`, `:206`) and reconciles nobody (`:113`): `deliveredNotificationKeys` still has the notifications that were cut off, and nothing reports those ends again before the next undo or restart. `test/agent/undo/undo.test.ts:327` expects the rejection and that no participant is reconciled. | set `cutOff`, exception of `EndIsTold` |
| A notification whose queued turn the user cancels is not delivered until an undo or a restart. | set `cancelled`, exception of `EndIsTold` |

`tlc -config X.cfg MCModule` reproduces a row with a configuration.

Observed and not run separately: a turn id recorded as cancelled can be used again
after a crash with turns queued, since reservations live in memory only, and so can
the id of a turn whose records were still buffered when the process died
(`appendLogStore.ts:165`; `CountIsId` is therefore stated up to the first crash, and
`IdsAscend` and `Alignment` count the turns whose records the log has kept); a `steer()` made between the end of a
turn and `settle()` loses its prompts (the `lost` set of `PromptScheduler`, which
`EachInOnePlace` and `PromptsSettle` name as an exception); `clear()` does not reach
a prompt whose submit hook is running.

## 4. Theorems

For every value of the constants, with the inductive invariant each argument needs.
The assumptions are those of the modules (bounds are natural numbers, marker values
are not records or processes, at least one attempt per step) and the hypotheses named
here, each of which TLC shows to be needed.

- **`AppendLogProofs`**: `TypeCorrect`, `HandoffOrdered`, `StorageExclusive`,
  `FileOrderKept`, `NothingLost`, `FlushDurable`.
  - `OneStorageOperation` alone is not inductive: that two generations are never in
    storage together follows from each having passed `ready` (`Gate`), which means all
    earlier generations settled (`Chain`), and from a settled generation having nothing
    left to write (`Spent`), which needs that a buffer with records and no owner has a
    flush to come (`Served`).
  - `OrderedOnce` needs `Order`: every buffer ascends, a generation's records come
    before the next one's, what the file holds comes before what is only buffered, a
    batch is the head of its buffer, a rewrite that waits would replace the file by
    something in order, and a buffer that may hold records the file has already
    belongs to a generation that failed or gives way to a rewrite, so that nothing
    appends it again (`CleanAt`, `StuckAt`: the reason the failure is sticky).
  - `NothingDropped` needs `Coverage`: the file, and what each waiting rewrite would
    put in its place, holds every accepted record that no buffer holds.  It is proved
    for `TornWrites = LateRewrite = FALSE`.  A torn line swallows the first record of
    a later append, and a rewrite computed before an older generation has drained
    drops that generation's records; the model has both, and the theorem says so.
  - `FlushReportsDurable` needs `Marks`: the records a flush waits for stay in the
    buffer until they are in the file, and in the buffer before any rewrite.  Proved
    for `TornWrites = FALSE`.
- **`AgentLoopProofs`**: `TypeCorrect`, `LeaseExclusive`, `NoLostWakeup`,
  `PromisesKept`, `NothingLeft`, `EntersOnce`, `OneStepRuns`, and `QueueImplemented`,
  the refinement of `TurnQueue`.
  - Leases and wake-ups rest on `Inv`: `PlaceOfTurn` (the run is at one of its own places
    exactly while a turn is active) and `Exclusion` (while a synchronous call is under way
    nobody holds a lease and the loop is not disposed); without it a pump could find
    itself forbidden and leave waiters asleep.
  - The others rest on `LoopInv`, which says of every request where it is.  It is unborn,
    waits in exactly one line with its promise open (`WaitsAt`, `LinesApart`), or has a
    turn; then it is in that turn's queue, is the running driver, or is settled
    (`QueuedAt`, `StepAt`), and what it delivered follows from that.
    `TurnsLeaveNothing` is not inductive without it: that a turn may end by any of a
    dozen paths matters less than that every open step belongs to the active turn, whose
    release settles them all.  `CurrentAt` ties the place of the run to the driver and
    the number of steps; `RunningIsCurrent` is what it says of a running step.
  - `TurnsInOrder` (the queue ascends and holds exactly the turns that are queued) is
    what the refinement needs; the proof goes action by action, and each admits, starts,
    ends or withdraws turns as `TurnQueue` allows, or stutters.
  - `Counted` and `Room` show that the bounds of the model are not reached by accident:
    every turn has a sender's request of its own, and where a step will ask for a
    continuation there is a number left for it.
- **`WireModelProofs`**, `TurnClock`: `TypeCorrect`, `Aligned`, and two action properties,
  `IdsOnlyAscend` over any number of crashes that lose any unflushed end of the log, and
  `CountKept` until the first.  `Alignment` is inductive with the types once the current
  model is known to be among those a crash may restore; `CountIsId` needs `Unpassed` as well: before a
  crash the count has not passed an id that is queued, and only ids reserved before are
  recorded as cancelled, so that a new reservation is never one of them.
- **`PromptSchedulerProofs`**: `OneTurn`, `Fifo`, `Answers`, `OnePlace`.  The invariant
  says that one prompt holds the slot (`OneSlot`), that only its turn is not over
  (`TurnOfSlot`), that whoever is active or was steered into it has had its launch
  answered, that steered prompts hang on the active one only, and that the six places
  of a prompt exclude each other (`Apart`); it is about all of them at once because
  `steer()` and `abort()` move prompts between any two.
- **`MiniDbProofs`**, `LockFile`: `Exclusive`, `Truthful`, for any number of processes, under
  `LockOrderly`: each process has one `LockFile` on the path, no landed bid is given up while
  a rival contends, `readdir` does not fail, and `release()` waits for a `renew()`.  The
  four are the known deviations above; every other file operation may fail.  The core is `ListingComplete`: who is about to claim has
  seen the watch file of everybody it contends with, since a watch is registered before
  the lock is looked at (`Registered`) and nobody joins the bidders while a bid is in
  the file (`BidsAreForDead`).
- **`MiniDbProofs`**, `MiniDb`: `Survival`, `Durability`, `Pointers` under `Orderly`, which
  excludes what four deviations of minidb need and nothing else
  (TLC refutes a property with each of the four constants on); and `Unparked` with no
  assumption: its invariant `Released` ties the rotation lock to the place of the
  compaction, and a log that takes no frames to the lock.
  - The first three share the invariant `Inv`, since none is inductive without the
    others: a snapshot is right only if the pointers it reads are, a pointer only if the
    log was copied as far as it was written, and that only if nobody writes once the copy
    is complete.
  - For each key, `KeyValue` relates four values: the last acknowledged commit that touched
    it, memory, what replaying the files yields, and what every commit on its way would
    roll back to.  Each of them is the effect of some commit that is recent enough
    (`Recent`); memory and disk may differ only while a commit waits, after one was
    rejected, or after two of a key were refused together.
  - `KeySnap` says the same of the snapshot a compaction is writing, together with the tail
    of the log past the fence: a key the iteration has passed is right once the tail is
    replayed on top of it, a key it has still to reach has a value that will be written.
    This is the fuzzy snapshot, and why the first rename alone changes nothing.
  - `FileSound` and `CopySound` follow the files: which compaction wrote those that are
    named, and that the new log is the old one from the fence to where the copy has come;
    `WalSound` and `ControlSound` say when somebody may write.  `LocSound` says where
    pointers read now, and where the remap will send them; `QueueSound` that what waits is
    in order and lies at the offsets `appendLoc()` predicted.
  - `KeyValue` and `KeySnap` are operators over sequences of commits and frames, and the
    lemmas about them mention no variable; each says what one operation (commit, landing,
    rollback, copy, snapshot entry) does to any key.  An action then only has to show which
    operation it is.
- **`WireModelProofs`**, `ContextHistory`: `Kept` (`MessagesKept`) and `Answered`
  (`RequestsAnswerCalls`).  Both rest on `HistorySound`.
  - `Sound` is about the context alone and is what every reducer preserves: steps ascend
    and one of them is open at most (`StepsSound`); a result stands behind the assistant
    that called, once, and is the recorded one if there is one (`ResultsSound`); a call is
    pending or answered, and only the open step's calls are pending (`PendingSound`); a
    recorded result is in the history or summarised (`YieldedSound`); the messages from
    outside are in order, those held behind the others, none missing but what a
    compaction dropped (`UsersSound`).
  - `Core` is `Sound` without the demand that nothing is held unless a call is pending,
    which is false while a reducer works.  It is what the lemmas about single reducers
    (append, result, closing a step, release of held messages, compaction) state.
  - `PhaseSound` ties the loop to its open step; `OriginalSound` says that the copy a
    compaction took knows nothing of a step begun since, so that `HistorySafeToCompact`
    compares histories of the same steps.
  - `RequestsAnswerCalls` needs no more of the state, but the projection has to be
    followed: each message of the history contributes a piece to the request, the pieces
    stand in it one after the other, and nothing else does (`ShownPlaces`).
- **`ToolExecutorProofs`**: `TypeCorrect`, `Serialized`, `SharedRun`.  The scheduler
  forgets a tool it abandoned although the tool may still run; `ConflictsSerialized`
  therefore needs `Tasks`: a result that is not the tool's own stands only for a turn
  that was aborted, after which nothing is started.  `SharedRun` adds that a call which
  runs, or may yet, has taken its key for the whole step (`KeysTaken`), unless the plan
  guard let it through.
- **`TaskManagerProofs`**: `ReportedOnce`, and `EndIsFinal`, an action property.  All
  places that know a task (entry, document, info of an earlier process, every state of
  the journal a crash may return to) agree on its one end (`OneEndOf`), an undecided
  entry has no end anywhere (`YoungOf`, `LiveOf`), and whatever the conversation says
  in any of those states has its ground in the state now (`Grounds`): a `result` in a
  foreground call that returned, a notification in a document that was not suppressed.
  `ToldOnce` follows for all snapshots, which is what makes it survive a crash.

`FilteringProofs` proves what `Without` returns (elements, order, length), by the
least counterexample of a set of lengths: induction over data that states its
predicate as a set needs no operator as a parameter.

Every safety invariant and every action property that a passing run checks is stated by
one of these theorems.  What is only model-checked is liveness (`EventuallyWritten`, `TurnsEnd`, `PromptsSettle`, `TakeoverCompletes`,
`BatchEnds`, `EndIsTold`): fairness and `ENABLED` are out of the prover's reach.

## 5. Plan

No proof is pending.  What a next round of modelling would take up, in this order:

1. `WireService` on top of `AppendLog`: the order of records while blobs are offloaded
   (`wire/wireService.ts:281`), restore and migration, nested dispatch.
2. The request rounds of full compaction, of which `ContextHistory` has the beginning,
   the check and the application.
3. The lock pool and the shards of minidb (`cluster/`), on top of `LockFile`.

Three hazards have no property that a run checks: the step cancelled while `recover()`
sleeps and the rollback that takes one delete for another, which the code gets wrong
(deviations above), and the record that overtakes one
whose blobs are being offloaded, which waits for the first item.

## 6. Not modelled

The repository has some 440,000 lines; the models cover the services in which several
activities share state and order matters, a few thousand of them.  Outside: transport
and user interfaces (kap-server, klient, ACP, sdk, TUI, web, editor apps), which are
most of the code; model providers, process and file access, sign-in and telemetry,
I/O around the core; the generated shell grammar; data structures, encodings and
queries of minidb, which are sequential; the first-generation `agent-core`, superseded;
cron and deadlines, which are about wall-clock time; interaction, goal, swarm and
lifecycle services, which keep sequential tables and enter the models as callers.
