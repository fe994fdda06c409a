# TLA+ models of task-board-tools

This directory models the concurrent core of the repository in TLA+: the command
line tool `tb` that owns the board on disk, the daemon of the GUI that runs agents
on tasks, the life of a run from its request to its record, the automation that
moves tasks by itself, and the way a change on disk reaches all of them. The
modules are checked with TLC on small instances. Every safety property that a passing run
checks is also proved with TLAPS: for every value of the constants that the code allows, and two properties of a
task's runs for every GUI that does not die and does not scan, the case in which they hold. Liveness is checked only; it is stated as `[]<>`: nothing that is owed stays owed for ever.

## The system

Two programs share a board. A board is a directory with one subdirectory per
status (`backlog`, `ready`, `in-progress`, `code-review`, `done`, `archive`);
a task is a markdown file `<status>/<ID>.md` or a directory
`<status>/<ID>/TASK.md`, so the status of a task *is* its place on disk.

* `tb` (`src/cli/`) is a short-lived process per command. It serialises
  structured changes with an exclusive `flock` on `.board.lock` and rewrites
  `BOARD.md` after each.
* `tb-gui` (`src/gui/`) is one long-lived process: a Go backend with many
  goroutines, and a Svelte frontend. It changes tasks by running `tb`, appends the
  history of agent runs to JSONL files itself, watches the directory, and runs
  agents (`claude`, `codex`) as child processes.

### Inventory

| Component | State | Operations | What makes it hard | What makes it correct |
|---|---|---|---|---|
| Daemon queue (`gui/internal/daemon/daemon.go`) | activation (generation, context, channel), `active`, `automationActive`, slot counter, startup timer | Activate, Deactivate, Enqueue, dispatch, TryReserve/Release, SetMaxWorkers, Close | three mutexes, a dispatcher and any number of callers, a bounded wait at Deactivate, late threads after a switch | at most one run per task, at most the limit of runs, no slot lost, queued tasks run, nothing starts in the startup grace |
| Run lifecycle (`gui/app/agent_run.go`, `agent_cancel.go`, `agent_finish.go`, `agent_service.go`) | `s.active`, per run: cancelled, pid, done, finishOnce; on disk: JSONL events, `AgentStatus` | start, resume, run queued, OnStarted, exit, cancel, record terminal | cancel against start and exit, two files that must agree, CLI calls that fail half way | one terminal record per run, JSONL and `AgentStatus` agree at rest, cancel returns |
| Recovery (`gui/app/agent_recovery.go`) | stubs of adopted processes, one monitor each | recover stale, poll, reconcile an exit | crash between any two writes, pid reuse, races with cancel | no live process is declared lost, every stale run gets a terminal record |
| Board on disk (`cli/*.go`) | task files, `.next-id`, `BOARD.md`, the lock | create, mv, start, done, close, ready, pull, review, edit, assign, attach | check before the lock and act after it, several locked sections per command, crash between two file operations | a task is in one place, never lost, gates (WIP, ReviewRef, source status) hold |
| Files of a task (`cli/attach.go`, `cli/edit.go`, `gui/app/edit_body.go`) | markdown in one or two forms, attachments, history | attach, attach --rm, edit, save from the editor | several file operations per command, an editor that keeps an old text | what is listed is there, nothing written is lost |
| Run history (`gui/internal/agent/state.go`) | JSONL file per task | AppendEvent, reads | resolves the path without the board lock while `tb` moves the directory | no event is lost by a move |
| Automation coordinators (`gui/app/auto_groom.go`, `auto_implement.go`, `auto_review.go`) | board, timers, resume attempts, per task memory | scan, start, promote, resume, handoff | snapshot used after it is stale, budget computed from three sources | one start per trigger, no more runs than the budget, no endless retry |
| Stage reconciler (`gui/app/stage_reconciler.go`) | skip file | reconcile a task after a run or event | repairs compete with the agent's own `tb` commands | repairs converge, a refused repair is not repeated on the same facts |
| Watcher and sink (`gui/internal/watcher/watcher.go`, `gui/internal/daemon/watcher_sink.go`) | watches, debouncers, buffer of 256 | attach, handle, flush, emit | events dropped, directory created before its watch | every change leads to a reload |
| Settings and board switch (`gui/app/settings_service.go`, `preferences.go`, `gui/adapters.go`) | open board, preferences file | OpenBoard, setters | the order of watcher, deactivation, client, activation | one board active at a time |
| Board service and CLI client (`gui/app/board_service.go`, `gui/internal/cli/*.go`) | client, cached directory | snapshot, mutations | snapshot of one client used with the directory of another | reads and writes go to the same board |
| Agent process (`gui/internal/agent/exec.go`, `runner.go`, `*_stream.go`) | child process, timeout | run, stream, kill | context, timeout and exit race | outcome precedence |
| Frontend (`gui/frontend/src/lib`) | stores | events, optimistic drop, board switch | answers out of order | the shown board is the last one requested |
| Pure algorithms (`gui/internal/automation/epicorder`, `gui/app/automation_capacity.go`) | none | ordering, gating, capacity | evaluated on a snapshot that others change | an epic's tasks start in order, the budget is never passed |
| Parsing, templates, redaction, usage meters, shell setup, mobile build | – | text and I/O | – | not modelled |

## Modules and plan

| Module | Part | State of it |
|---|---|---|
| `Daemon`, `RunPool`, `DaemonProofs` | queue, dispatcher, slots, activation; abstract: one run per task within the limit | checked and proved |
| `Board`, `TaskStore`, `BoardProofs`, `BoardGuardProofs` | commands of `tb` on the shared directory with crashes; abstract: a store of tasks | checked and proved |
| `TaskFolder`, `TaskFolderProofs` | the files of one task: attachments, markdown, history | checked and proved |
| `AgentRun`, `RunHistory`, `AgentRunProofs`, `AgentStatusProofs` | the life of a task's runs with cancel, crash and recovery; abstract: what the history promises | checked; safety proved |
| `Automation`, `AutomationProofs` | the three coordinators, the stage reconciler, epic order, worker budget | checked; safety proved |
| `Watcher`, `WatcherProofs` | watcher, sink, triage cache, timers, and the switch of the board over all of them | checked and proved |

Each has an `MC` module and configurations for TLC. The modules meet in these places. `Daemon` and
`AgentRun` share `AgentService.active` and the daemon's active set: `Daemon` has many tasks and treats a run
as one thread, `AgentRun` has one task and every step of a run. `Automation` takes the commands of `Board` and the
starts of `AgentRun` in one step each. `Watcher` carries what `Board`'s commands do to the files to the scans of
`Automation` and to the events that `Daemon` receives at any time. `TaskFolder` cuts the sections of `Board` at
each file operation inside the task's directory. The parts are not composed in one module: the product is
beyond what can be enumerated.

What is left, in order:

1. the periodic recovery ticker of the daemon and the end of the monitors at a switch of the board;
2. the frontend's stores against late answers after a switch;
3. `singleBoardLoad` and the settle timers.

## Module by module

### Daemon, RunPool

`Daemon.tla` models one `daemon.Daemon` together with the part of `AgentService`
that it shares state with (`s.active`, the insert and the removal of a run).

| Variable | Code |
|---|---|
| `lifecycle`, `activated`, `generation`, `cancelledGen`, `graceTimer`, `closing`, `rootDone` | where the OpenBoard or shutdown thread is, `Daemon.activated` and `Daemon.generation`, which activation contexts are done, whether the startup timer is armed, `Close`, `rootCtx` |
| `queue` | the buffered channel, items with the generation they were sent under |
| `active`, `automationActive` | the sets under `activeMu` |
| `runningWorkers`, `maxWorkers` | the counters under `workerLimitMu` |
| `agentActive`, `recovered`, `orphans` | the keys of `AgentService.active`, those of them that are stubs of adopted processes, and the processes an earlier GUI left behind |
| `enq`, `disp`, `worker`, `starter` | where the enqueuing goroutines, the dispatcher, the run goroutines and the goroutines that start runs directly are between two critical sections |

An action is one critical section, or one step between two of them that another
goroutine can observe. Four pairs of adjacent sections are merged; the header of
the module names each and says why nothing observable lies between them. Inputs:
which task is enqueued or reserved, which limit is set, whether a timer is armed.

`RunPool.tla` is what the daemon promises: a task has at most one run and
the daemon's own runs never exceed the machine's limit, whichever path starts
them. `Daemon` defines the mapping (`Pool == INSTANCE RunPool WITH ...`) and
`ImplementsPool` is checked as a PROPERTY and proved.

Bounds, all CONSTANTS of the module: `MaxGeneration` (activations), `MaxOrphans` (adopted
processes), `QueueBuffer` (the channel's capacity, 256 in the code), `Limits` and `MaxLimit`
(what `SetMaxWorkers` may be given, and `runtime.NumCPU()`, where it clamps), and the sets
of tasks, enqueuers, starters and workers. Two tasks with one enqueuer and one starter, or
one task with two workers and two activations, already give the situations the hazards
name: a thread that crosses a switch, a slot two paths want, a drain that times
out over a live run, a full channel. A worker is one goroutine of `dispatchOne`; every
configuration has at least `MaxLimit` of them, so the model never lacks one that the
code would spawn.

Fairness (`Fairness` in `Daemon.tla`) is weak and only for threads that are already on
their way: the deactivation once begun, the dispatcher, an enqueuer in the middle of
Enqueue, a run goroutine, a direct start in progress, and the exit of an adopted process.
Runs end because `exec.go` puts a timeout on every process. Nothing obliges the
environment: nobody must open a board, change the limit, start or queue anything.

| Run | Question | Result |
|---|---|---|
| `daemon_safety` | one task, a starter, two workers, limits 1 and 2, an orphan, two activations: is there ever a second run of a task or more runs than the limit, does the daemon refine `RunPool`; on the first board, is a slot ever lost, does an active entry have one owner, does the drain wait for the runs that have an entry | holds |
| `daemon_live` | two tasks, a limit of one, an orphan, one activation: is a queued task always started when direct starts or orphans give their place back | holds with one direct starter |

What holds only on the first board is named so (`FirstBoard...`), because three windows around a switch
are real and the model has them:

* Deactivate drains `active` in one section and replaces the maps in another (`daemon.go:460`). A reservation
  in between is erased with its slot still counted, and the slot is gone until the program ends.
* `release(taskID)` removes by id (`daemon.go:607`, `:644`): a late thread of the old board can remove the entry of
  the new board's item, which then sits in the queue without one, against the comment at `daemon.go:172`.
* `activated` is set before the recovery and the grace timer after it (`daemon.go:361`): an event of the
  recovery itself can be picked up before the grace that `docs/ARCHITECTURE.md:397` describes.

`QueueDrains` is checked for one direct starter: two starters and a limit of two can hand a
slot to each other for ever while the dispatcher sleeps, which the code permits. With a second board it
fails too, because of the lost slot.

### What is proved about the daemon

`DaemonProofs.tla` holds seven theorems, for every value of the constants that the module's assumption allows:

* `TypeCorrect`: `Spec => []TypeOK`.
* `NoSecondRun`: `Spec => []OneRunPerTask`.
* `SlotsCovered`: `Spec => []SlotsCoverHolders`.
* `DaemonImplementsPool`: `Spec => ImplementsPool`.
* `FirstBoardSlots`: `Spec => []FirstBoardConservesSlots`.
* `FirstBoardEntries`: `Spec => []FirstBoardOwnsEntries`.
* `FirstDrainWaits`: `Spec => FirstDrainWaitsForRuns` (an action property).

The inductive invariant is `TypeOK /\ OneRunPerTask` for the second and
`TypeOK /\ SlotsCoverHolders` for the third. They are inductive because they speak of
program counters: `OneRunPerTask` names, for each entry of `s.active`, the goroutine that runs
it, and `SlotsCoverHolders` counts every thread between "slot taken" and "slot
returned", not only those whose run executes. `TypeOK` in turn says that a
thread that is not at rest holds a task, without which the insert could not be related to
an entry. Each group of actions is a lemma (`SlotsDispatch`, `SlotsRun`, `SlotsStart`,
`SlotsOther`); the counting is confined to `SlotTaken` and `SlotReturned`. The refinement
proof adds `RoomForRun`: a thread about to register holds a slot and is not yet in
the pool, so the pool is below `MaxLimit`; then the steps that register and finish map to
the pool's `Start` and `Finish`, adoption and exit to `Adopt` and `Depart`, all others stutter.
The assumptions are those of `DaemonAssumption`: finite sets of tasks, starters and workers, a
positive buffer, limits between one and `MaxLimit`.

The three theorems about the first board share one inductive invariant, `SwitchInv`. It reaches from the start to the end of the
first drain (`FirstLife`), further than the properties do, because the drain itself relies on the entries. `EntriesOwned`
says for each task in whose hand its entry is: an enqueuer about to send, the queue, the dispatcher, a worker, a starter, or nobody's;
each path of the code hands the entry on or takes it out, and the counts of `FirstBoardOwnsEntries` follow. `SlotsHeld` is the equality
of the counter and its holders, where `SlotsCoverHolders` has an inequality for every board. `Drained` follows at the step that
finds `active` empty: no entry, hence no hand, hence no dispatched or direct run at that step. Until the maps are replaced the
dispatcher starts nothing, for what it takes is stale; a direct start may reserve in between (the first window above), and an adopted run
never has an entry, so `FirstDrainWaitsForRuns` says nothing of either. `RestHolds` says that a thread at rest
holds no task, and `LifeShape` places activation and generation within the switch.

Only the liveness property `QueueDrains` is left to the model checker: liveness under fairness is out of the prover's reach.
### Board, TaskStore

`Board.tla` models the directory of the board and the commands of `tb` that change it.
Each process runs one command at a time; the GUI's mutations and the agents' commands are
such processes too.

| Variable | Code |
|---|---|
| `disk` | the entries of the status directories: `<<status, task, form>>`, where form is `file` (`<ID>.md`), `folder` (a directory with `TASK.md`) or `ghost` (a directory without) |
| `doc` | what the commands decide on in a task's markdown: has a ReviewRef, is tagged `review-failed`, its `AgentStatus` |
| `nextId`, `listing`, `lock` | `.next-id`, the tasks `BOARD.md` lists, the holder of the flock on `.board.lock` |
| `proc` | where each process is in its command, and what it remembers from before: the source it resolved, its form |
| `writer` | the directory that an `AppendEvent` of the GUI has resolved and not yet written to |
| `interrupted`, `issued`, `crashes`, `appends` | a command has died under the lock, or could not write, and no later one has made good; counters for the bounds |

Structure of a command, as program counters:

| Part | Code | Actions |
|---|---|---|
| checks before the lock | `promoteToReadyWithOptions`, `pullReadyTask`, `reviewSubmit`, `cmdMove`, `cmdStart` | `CheckPass`, `CheckFail` |
| first section of a review command | `reviewWriteFailMetadata`, `reviewWritePassMetadata`, `reviewClearFailedMarker` | `Mark`, `MarkRefuse` |
| the move | `moveTaskOnBoardWithGuard` | `MoveAdmit`, `MoveRefuse`, `MoveClean`, `MoveRename`, `MoveRenameFail`, `MoveLog` |
| second section of `tb ready` | `clearReadyAgentStatus` | `Settle` |
| edit, assign | `cmdEdit`, `assignTask` | `Edit`, `EditRefuse`, `Tidy` |
| attach | `attachTask`, `promoteFileTaskWithAttachments` | `AttachBegin`, `AttachPublish`, `AttachUnlink`, `Tidy` |
| create | `cmdCreate`, `allocateID` | `CreateBegin`, `CreateMkdir`, `CreateWrite`, `CreateOutOfIds`, `Tidy` |
| the kernel | `lockBoard` | `Crash` |
| events of the GUI | `AppendEvent`, `resolveArtifactPaths` | `AppendResolve`, `AppendWrite`, `AppendFail` |

A section under the lock is cut at each change of the directory, because a crash or a
reader without the lock (`AppendEvent`, the checks) sees what lies between. A section that
changes one file only is one action.

Abstractions. Checks before the lock scan several directories; a scan that overlaps a rename
may fail, which is `CheckFail` whenever somebody holds the lock. The grooming check of `tb ready`
may refuse at will. WIP limits are given to `ready` and `in-progress`; `tb start` and `tb mv`
differ from `tb pull` in the source they accept only. A promotion that finds a directory in
its way refuses in the code; `PromotionPathFree` says there never is one. Writes may fail after a change of
the directory: the log entry of a move, and then the command ends with `BOARD.md` as it was (`move.go:245`), and `BOARD.md` itself, which is a warning
(`move.go:248`); `Regenerated` has both. I/O errors other than these and a blocked rename are left out, and so are log text, parents and epics; attachments, and what becomes of
the history of the file form, here no more than `"root"`, are in `TaskFolder`.

`TaskStore.tla` is the promise: a task is nowhere or in one status, one task appears or changes
status per step, and none is lost. `Place` maps the directory to it.

Bounds: `MaxId` task numbers, `MaxCommands` commands, `MaxCrashes` deaths of commands and failing writes together, `MaxAppends`, two processes, and the
set `Commands` of each run (`MCBoard.tla`). `.next-id` starts at a value of `StartNextIds`, a stale one included where the run creates. Two processes and three commands let a command lose a
race in each of its windows and a third one meet what the loser left; one crash between any two
file operations and one late event give every half-done state the code can leave behind.
Runs may stop when the commands are used up, hence `CHECK_DEADLOCK FALSE`.

Fairness (`Fairness` in `Board.tla`): weak, on each process. A command that runs is scheduled, and
`flock` wakes a waiter once the lock stays free. Nothing obliges anybody to start a command or the GUI to write.

| Run | Question | Result |
|---|---|---|
| `board_moves` | do the WIP limit, the ReviewRef gate and the source guard hold at the rename, whatever ran since the check; does every command end, beside a death, a failing write or a rename that a late event blocks | holds |
| `board_store` | is a task ever lost or doubled; is `BOARD.md` put right after a crash or a failing write, and the way of a promotion free; does the directory refine `TaskStore` | holds |
| `board_review_start` | do `tb review --fail` and `--submit` move only from the sources they accept (`review.go:397`, `:174`) | violated: no source guard on their moves |

Three more things the model shows and no run is spent on: an event of the GUI that resolved its directory before a move
is written where its task no longer is, although `docs/ARCHITECTURE.md:225` says that the history rides along (`state.go:271`); `tb create --status code-review` puts a task
there without the ReviewRef that `move.go:188` asks of every entry (`ReviewMovesCarryRef` speaks of moves),
and `Settle` erases an agent status that a `tb assign` has written since the move of `tb ready` (`ready.go:110`).

### What is proved about the board

`BoardProofs.tla` and `BoardGuardProofs.tla` hold eight theorems, for every value of the constants that `BoardAssumption` allows
(any number of processes, tasks, commands, crashes and late events):

* `BoardTypes`: `Spec => []TypeOK`, with the lock discipline.
* `BoardOneHome`: `Spec => []OneHome`.
* `BoardImplementsStore`: `Spec => ImplementsStore`.
* `BoardFileIsFresh`: `Spec => []BoardFileFresh`.
* `BoardPromotionPath`: `Spec => []PromotionPathFree`.
* `BoardKeepsWip`, `BoardReviewRef`, `BoardMoveSources`: `Spec => GuardedMovesKeepWip`, `Spec => ReviewMovesCarryRef`,
  `Spec => MovesStartWhereExpected`.

`OneHome` alone is not inductive: a rename out of a status that still has an orphan file would make two
homes. `HomeInv` adds `Stage(p)`, what the locked section of `p` knows at each point: in `clean` that the source
is there in its canonical form, in `rename` that it is the only markdown of the task in its status, in
`unlink` that the folder is published, in `mkdir` and `write` that the id is nowhere. These facts are about
`disk`, which other processes change; they survive because only the holder of the lock changes
markdown (`OwnStep`: a step leaves the markdown alone or is the holder's), events add ghosts only, and `TypeOK`
says that no second process is in a locked section. `Effect` then sums up what a step does to the
homes, nothing or one task landing in one status, and gives both `OneHome` and the step of `TaskStore`.

The other five rest on `HomeInv` and on one more invariant each. `FreshInv` extends the equality of `BOARD.md` and the directory
to the points of a locked section where nothing listed has changed yet (`Settled`), because a rename that fails leaves from there; it is conditional on
`interrupted`, since a death under the lock or a failing write leaves the file stale until the next command. `PathInv` keeps, for each task, the shape of its tree (`Tree`: folders are never taken away, so an event resolved to a folder finds one, and
a task with a stray directory has no file but one beside its folder) and, for a section about to create something, that its place is free (`Clear`).
`GateInv` says that the conditions a move was admitted under (`Granted`: one home among the expected sources, the ReviewRef, the column
below its limit) still hold while it holds the lock, because nobody else changes the directory or the
markdown meanwhile (`OthersWait`); each action property is then read off at the rename, the only step that enters a column by a move.

`CommandsEnd` is liveness and stays with the model checker; `ReviewMovesStartWhereAccepted` does not hold (see Findings).


### TaskFolder

`TaskFolder.tla` models the files of one task, which `Board` sees as one entry of the directory.

| Variable | Code |
|---|---|
| `forms`, `text` | which of `<ID>.md` and `<ID>/TASK.md` exist, and their markdown: header fields (`meta`), goal, attachment list, log |
| `held` | the attachments in the folder, at its root or in `attachments/` |
| `history` | the events in the JSONL next to the file, and in the folder |
| `cmd` | the command that holds the lock, where it is and what it has read |
| `editor` | the buffer of the GUI's body editor |
| `writer` | the JSONL an `AppendEvent` has resolved and not yet written |
| `kept`, `stale`, `late` | history variables: log entries no save has overwritten, whether a save has put an old attachment list back, events that arrived after a promotion copied the JSONL |

| Code | Actions |
|---|---|
| `attachToFolderTask` | `AttachBegin`, `AttachPublish`, `AttachList`, `AttachFails`, `Undo`, `UndoFails` |
| `promoteFileTaskWithAttachments` | `PromoteStage`, `PromotePublish`, `PromoteUnlink`, `PromoteClear` |
| `removeTaskAttachments` | `RemoveBegin`, `RemoveUnlist`, `RemoveFile` |
| `cmdEdit`, `cleanupOrphanFileFormSibling` | `Edit`, `Tidy` |
| an error or a death in any of them | `Stops` |
| `EditTaskBody`, the editor of `TaskDrawer` | `OpenEditor`, `CloseEditor`, `Save` |
| `AppendEvent` | `EventResolves`, `EventWritten` |

Only one command is under way, because all of them hold `.board.lock`; what is concurrent is the editor, which
keeps what it has read, and the GUI's events, which take no lock. The text is kept as sections that carry the number
of the command that wrote them. A section other than the header is represented by the goal.

`task_folder` checks both forms at the start, two names, one of them in `attachments/`, four commands, two
failures or deaths and two events. Four commands let a promotion stop half way, a second command meet both forms, an
edit fall between the editor's reading and its save, and an attach list again what was left; a fifth adds nothing
that relates to more than these. It stops when the commands are used up, hence `CHECK_DEADLOCK FALSE`.

The run checks that an attachment that is listed is there (`ListedExist`), that an attach which ends well lists exactly
what the folder holds (`AttachRelists`), and that log entries and events survive promotions that stop anywhere
(`EntriesStay`, `EventsStay`).

What the code does beyond these, visible in the history variables: a save of the editor overwrites every log entry,
goal and attachment list written since the editor read the task, although it holds the lock
(`edit_body.go:77`; `docs/ARCHITECTURE.md:312` calls it safe); an event that is written while a promotion runs is lost or
stays at the root of the board, where nobody reads it (`attach.go:471`); an attach that died after publishing is refused when it is
tried again; and a removal that died after the rewrite leaves files that the next attach lists again (`attach.go:198`).

### What is proved about a task's files

`TaskFolderProofs.tla` proves all five properties of the run as theorems of `Spec`, for any names, commands, failures and
events (`FolderAssumption`).

`FolderInv` carries the rest: `TypeOK`, that a command under way has a number (`Numbered`), and what the lock
guarantees about the forms at each of its steps (`FormsKnown`: a promotion sees the file alone until it publishes, an attach
to a folder never loses it). On top of it come three short invariants, each proved with one lemma per operation.

* `ListInv` adds `RefsKnown`. An attach holds what it read before publishing, and the folder holds no more than that and the
  new names; a removal has taken out of the list what it has yet to delete. With it `ListedThere` and `RelistsAll`
  follow. Without it `ListedExist` is not inductive, because an attach writes a list it computed earlier.
* `EntriesStay` is inductive beside `FolderInv`: every rewrite starts from the form that is read, and the one that starts
  from the file and writes the folder is a promotion, where the file is the form that is read (`LogKept`).
* `StagedKnown` says that a promotion has copied all events but the late ones, from which `HistoryMoves` follows.

Neither liveness nor what a section of text contains is part of these proofs.

### AgentRun, RunHistory

`AgentRun.tla` models the runs of one task in one GUI after another. `s.active` keeps at most one run of a task, so that tasks
share nothing here.

| Variable | Code |
|---|---|
| `log`, `status` | the task's JSONL history and its `AgentStatus`: the two records that must agree |
| `active`, `obj` | `AgentService.active`, and the `activeRun` objects: where their goroutines are, pid, cancelled, context, `Done`, and in `fin` where the writing of the terminal record is |
| `entry` | the task's entry in the daemon's active set |
| `proc` | the agents' processes, which outlive the GUI |
| `canc`, `rec`, `mon` | goroutines in `CancelRun` or `cancelRunsForBoard`, the recovery scan, the monitors of adopted processes |
| `up`, `closing`, `nextRun`, `budget` | whether a GUI is there or about to go; run ids; what is left of the bounds |

| Code | Actions |
|---|---|
| `startAgentRun`, `resumeAgent`, the daemon's claim | `StartRun`, `Setup` and their steps |
| `runGoroutine`, `OnStarted`, `postRun` | `Goroutine` and its steps, `ProcessExit` |
| `recordTerminal` | `RecordTerminal`: read, append, edit, delete |
| `CancelRun`, `killActiveRun`, `cancelRunsForBoard`, the context's watcher | `CancelRun` and its steps |
| `recoverStale`, `recoverOne` | `Recover` and its steps |
| `monitorRecoveredRun`, `reconcileOrphanExit` | `Monitor` and its steps |
| the user and the agent | `HandQueue`, `HandClear`, `NeedsUser` |
| the machine | `Crash`, `Close`, `Restart` |

One action is one access to shared state. `RunHistory.tla` is what the history promises to its readers: a run is queued, may
start, gets one outcome, and keeps it. `AgentRun` maps its log to it the way `ListRuns` reads it (`HistoryKept`).

Fairness is weak on each goroutine that is on its way, and on the exit of a process while the goroutine of this GUI that has
spawned it waits for it (`Timed`; `exec.go` gives it a timeout). The timeout dies with the GUI, and the monitor of an adopted process only asks whether it
lives, so nothing ends a process that an earlier GUI has left. Nobody has to start, cancel or restart anything.

`RunningResolves` therefore excuses a task while such a process lives (`Orphaned`); once it is gone, a monitor or the scan of the next start has to take the
task out of `running`. `NeedsUserKept` speaks of the time before a re-read in `recordTerminal` fails (`budget.misread`): then the
code writes the exit status whatever the task says, a question included (`agent_run.go:1046`), and so does `TerminalRead`.

| Run | Bounds | Question | Result |
|---|---|---|---|
| `agent_runs` | two runs, reviews (whose steps include those of work runs), a canceller, resumes, one failing write or re-read, one question of the agent | two processes at once, a question overwritten, a run with two outcomes | none |
| `agent_crash` | one review, two objects (the run and its stub), a crash at any step, one periodic scan, one status set by hand | does the status agree with the history when all is quiet, do cancels return, does `running` end once no process of the dead GUI is left, is the entry given back | holds |
| `agent_cancel_kept` | as before, without the scan | does a recorded cancellation stay (`agent_recovery.go:539`) | violated |

A crash, one scan and one cancel on one run give every pair of writers of the terminal record; the bounds keep more than one
of each from multiplying the states without a new pair.

`AgentRunProofs.tla` proves `AgentRunTypes`, `Spec => []TypeOK`, for any number of objects, runs, cancellers, crashes, scans and
failures. `TypeOK` is not inductive: what the steps write comes from other places. `RangeInv` adds that whoever cancels, scans or monitors
works on a run that exists (`CancOK`, `RecOK`, `MonOK`), that an object at work has its run and a terminal status by the time it writes one, and its run a
queued event before it starts a process (`Named`, `QueuedFirst`); the latter is what gives an adopted process the mode of its run. The lemmas about the log
(`LatestIn`, `EarliestIn`, `PidType`, `FinishType`) say that the readers' choices are defined.

The same module proves the properties of `agent_runs` for the first GUI, over three more inductive invariants, each relative to the one before:

| Theorem | Says | Invariant | Why it is needed |
|---|---|---|---|
| `FirstGuiOneProcess` | until the first GUI dies there is at most one process (`OneProcess`), scans included | `FirstInv`: `Owner`, `CancelWaited`, `PidNamed`, `NoneAdopted` | "one process" says nothing of a start that has not spawned yet. `Owner` says what each goroutine holds where it is: the daemon's entry before it registers, `s.active` until its terminal record is complete, and that only one of goroutine and canceller writes this record. `CancelWaited` is the wait on `Done` in `CancelRun` |
| `UnscannedNeedsUser`, `NeedsUserStays` | a question of the agent is overwritten neither by the exit status nor by a start (`NeedsUserKept`), before a re-read of the task fails | `AskedInv`: while the agent asks every object is `Polite` | a step that read the status before the question would write over it: none is between its read and its write |
| `HistoryStays` | `AgentRun` implements `RunHistory` (`HistoryKept`) | `StoryInv`: `Story` of each object, `RunsCounted` | a second record looks like any other step: what the log holds of a run must be known from where its goroutine is, and a new run must have an id that no line has |

`FirstGui` (a GUI is up and no crash has been used) and `Unscanned` (nor a scan) are hypotheses of the invariants and not of the model:
`FirstGuiOneProcess` and `UnscannedNeedsUser` hold for every value of the constants. `NeedsUserStays` and `HistoryStays` assume
`MaxCrashes = 0` and `MaxTicks = 0`, the case the run checks. The second is the user's preference `DisablePeriodicRecovery`: with
the periodic scan on, both statements are false, for the reason below. The refinement is proved step by step: `StageStep` maps
what an action appends to the log to the step of `RunHistory` that `ListRuns` sees, `StoryStep` collects the actions.

`AgentStatusProofs.tla` follows the status through everything that can happen to the GUI: deaths, adoption, monitors, periodic scans. It
proves `StatusStays`, `Spec => []StatusAgrees`, for any number of objects, runs, cancellers, deaths and scans. Its hypothesis is not on the
constants but in the property: no append and no edit has failed so far (`NoFaults`), since the code drops the second of two writes whose
first has failed. Four invariants carry it, the first of every GUI and also with failing writes:

| Invariant | Says | Why it is needed |
|---|---|---|
| `KeepInv` (`KeepAlways`) | `Duty` of each object: a start keeps its entry and the task does not run before `OnStarted`; a cancelled run without a record has a canceller or its own worker to write it (theorem `CancelledIsMinded`); while the scan of `Activate` is under way nothing but adopted runs is there. `MonKeep`, `RecKeep`: what monitors and scans work on has started, or is in the log; `DownKeep`: nothing is in memory between two GUIs | the two below name the writers of a status, and must know which of them can be there together |
| `Written` (theorem `OutcomesRecorded`) | whoever is about to write an outcome into the task (`recordTerminal` at `edit`, a monitor at `sync`, the scan at `edit`) has it in the log, and so has the task | the status is written one step after the record, and from a value read earlier |
| `Minded` (theorem `RunningIsMinded`) | a running task in an open GUI has somebody who will end it: a goroutine before its record (`Minding`), the scan of `Activate` that has not passed the last run (`ScanWill`), a monitor that will claim or release (`MonWill`) | `AtRest` says that all of them are gone, so the task is not running. `ScanWill` and `MonWill` are about the last run only, as `recoverOne` writes the status for no other |
| `LastInv` (`LastAlways`) | in the first GUI before a periodic scan: the holder of the entry works on the last run, only its run may wait in the queue, and the outcome on the task is that of the last run that does not wait | this is the part of `StatusAgrees` that names the run |

The effect of each group of actions on an object is stated once (`Moved`, `RecordMoved`, `Cancelled`, `MonitorMoved`) and used by all four. The lemmas
about the log (`NewestAppended`, `RestStays`, `FinishedStays`, `LatestStays`) say what an appended event does to the first appearance of a run, hence to "the last run".

In that property the outcome is that of the last run only before the first periodic scan of the first GUI, later that of some recorded run. The code
promises more (`agent_recovery.go:47`: "Only the latest run writes task-level AgentStatus") and does not keep it, in two schedules that
a model of two runs and three objects shows. A periodic scan reads the log when the first run has its record and the task is
`running` for a moment longer; while it is on its way a second run starts, fails and is recorded; then the scan writes the first run's outcome
(`agent_recovery.go:187`, `latestRunID` is that of its snapshot). And the monitor of an adopted run that finds it cancelled releases
it, a second run passes, and the monitor then writes the first run's status (`agent_recovery.go:580`). `MCAgentCrash.cfg` has one run, where "the last"
and "some" are the same.

Three more theorems of this module say what the first GUI guarantees until a periodic scan begins, whatever the constants.
`FirstRecordStays`: a run gets one terminal record, also when writes fail, so the overwritten cancellation of `agent_cancel_kept` needs an adopted
run or a scan. `FirstHistorySteps`: each step is one of `RunHistory` or none to its readers, which is `HistoryStays` without its assumptions on the constants.
`FirstQueueHeld`: without failing writes the only run that waits in the history is that of the start in possession of the entry.

What stays with the model checker is the liveness (`CancelReturns`, `RunningResolves`, `EntryReturned`): `Minded` says that
somebody is there, not that he gets to run.

Four behaviours of the code are in the model and limit what is stated. `OneProcess` is checked without crashes: a GUI that
dies between the edit to `running` and the `started` event (`agent_run.go:898`) leaves a process nobody knows of, and the next one
may start a second. `HistoryKept` is checked without periodic scans: one that has read the log before `recordTerminal` wrote to it adds a
second record (`agent_recovery.go:192`). `CancelReturns` is checked without failing writes: the rollback of a failed start
does not close `Done`, and a cancel that waits on it waits for ever (`agent_run.go:481`). And an adopted process that asks for the user
is not adopted a second time.

### Automation

`Automation.tla` models the three coordinators and the stage reconciler over one board.

| Variable | Code |
|---|---|
| `file` | column, `AgentStatus`, triage findings, ReviewRef, entries into code-review, tag and findings of a failed review |
| `run`, `groomed`, `reviewed` | what the coordinators read from the history of a task: its latest run, `LastGroomTriageHash`, the epochs already reviewed |
| `scan` | where the scan of each coordinator is, with the snapshot it works on, the tasks left and the workers left |
| `due`, `cool`, `promote` | armed debounce timers, resume attempts that have not cooled down, `tryPromote` goroutines |
| `look`, `job`, `skip` | tasks to be reconciled, the repair decided on, `reconcile-skips.json` |
| `silent`, `judged`, `closed` | history variables: a change without an event since the last one, the verdicts of automatic reviews with the entry each is about, tasks that were ever done |

| Code | Actions |
|---|---|
| the `scan` of each coordinator | `ScanBegins`, `Resumes`, `GroomTries`, `ImplementPulls`, `ImplementStarts`, `ImplementPutsBack`, `ReviewTries` |
| `tryPromote` | `Promotes` |
| `ReconcileTask`, the five repairs, `attemptRepair` | `Reconciles`, `Repairs` |
| a run | `RunBegins`, `AgentActs`, `RunEnds`, `UserCancels` |
| users, the machine | `UserEdits`, `UserRuns`, `Crash` |

A scan reads the board once and then acts on one task per step, while everything else changes. Commands of `tb` and starts of
runs are one step, because `Board` and `AgentRun` have their steps. `EligibleForEpicOrder`, the worker capacity and the gates are
operators. A scan or a reconciliation that would find nothing to do is left out, which keeps the state small and
removes no command. `recordTerminal` is one step, a command that leaves a file as it was raises no event, reconciliations of one
task run one after another, all stages are on, and the settle window and the startup grace are zero.

Fairness: goroutines run, timers fire and processes end. Users and agents do not have to do anything; an agent may end
without having moved its task.

| Run | Bounds | Question | Result |
|---|---|---|---|
| `automation` | two tasks of one epic, one in code-review and one in the backlog with findings; one worker, one place in `ready` and `in-progress`; two runs; one act of a user or one crash | an entry into code-review reviewed again after its verdict, an epic out of order, a task the automation forgets | none |
| `automation_rework` | one task that fails its review | does the repair of a failed review complete only the review the findings come from | violated |

With one worker and one place per column, each of the two tasks can be what the other waits for. `OwedIsDone` says that what
the automation owes a task (`RunOwed`, `MoveOwed`, translated from the gates) is done or ceases to be owed although nothing polls. It
excuses what made no event (`silent`): the end of a run that asks for the user changes no file, and the coordinators that
skipped a task for lack of a worker do not hear of it (`agent_run.go:1026`).

`ReviewedOnce` has an exception that the proof brought to light: a review that a crash interrupts is resumed under the mode `resume`, its
line in the history has no target (`agent_run.go:342`), and `autoReviewAlreadyQueued` (`auto_review.go:519`) does not look at it. If the
task leaves code-review and enters it again before the resume, the resumed run judges the new entry and a scan
starts a fresh review of it. It takes three runs and more than one act of users and crashes, which the run does not have; the statement is therefore that
nothing follows the verdict of a run *started for* the entry.

`AutomationProofs.tla` proves the three safety properties for every board, forest of epics, set of limits and number of workers, runs,
edits and crashes:

| Theorem | Says | Invariant | Why it is needed |
|---|---|---|---|
| `AutomationTypes` | `Spec => []TypeOK` | `RangeInv`: `FilesOK`, `RunsOK`, `ScansOK`, `JobsOK`, `AlertOK`, `HooksOK` | what a step writes comes from the snapshot of a scan or the job of a reconciliation. `Proper` in `ScansOK` says that a scan under way has a worker left and a head of its list, so that the budget never goes below zero |
| `EpicOrderStays` | `Spec => EpicOrderKept` | `EpicInv`: `DoneClosed`, `TodoAllowed` | the scan judged the epic order of a board that is gone. `TodoAllowed` says of every task still on its list that its earlier siblings have all been done once |
| `ReviewedOnceAlways` | `Spec => []ReviewedOnce` | `ReviewInv`: `SweepOrdered` and, for each task, `ReviewStory`, `SweptStory` | no second verdict comes unless a second run was queued. `ReviewStory` says that a run still to give its verdict is about an entry without one, and that every entry judged by a run started for it is in what `autoReviewAlreadyQueued` finds; `SweptStory` keeps the same for a crashed run that a sweep has noted and not yet taken up |

The orders of the scans need `SortExists`: a finite set with a total order can be listed in it (by the smallest set that could not).
For `ReviewedOnceAlways` every step is first reduced to what it does to each task (`Effect`: nothing to its run, a run queued, going on, ending),
and `EffectKeepsStory` is proved once of these four; a crash and the begin of a review scan are done by themselves. `OwedIsDone` is a
liveness property under fairness and stays with TLC.

### Watcher

`Watcher.tla` models how a change of a file reaches those who look at it, and how `OpenBoard` retargets all of them.

| Variable | Code |
|---|---|
| `file` | column and form of each task of each board |
| `watch`, `fresh` | `boardDir`, `watchDirs`, `taskFiles` of the `Watcher`, what the library still listens on, and what an `attach` under way has built |
| `out`, `reload`, `sink` | events on their way to `handle`, the debouncer's timer, the buffer of the daemon's `EventSink` |
| `daemon`, `on`, `timer` | the board the daemon and each coordinator are activated for, armed debounce timers |
| `work` | scans and promotions under way: whose, for which board, and whether a `Deactivate` has come meanwhile (`left`) |
| `client`, `info`, `open`, `setPath` | the board of `BoardService`'s client, the board the settings name, a call of `OpenBoard` and of `SetCLIPath` |
| `cache`, `call` | `triageCache` and a call of `Triage` |
| `owed`, `unseen`, `deaf`, `strayed` | history variables: scans and looks that a change asks for, folders whose arrival was missed, a client moved by `SetCLIPath` |

| Code | Actions |
|---|---|
| `writeFileAtomic`, `moveTaskOnBoardWithGuard`, `promoteFileTaskWithAttachments`, as events | `Edit`, `Move`, `Promote` |
| `Run`, `handle`, `flushBoard` | `Handle`, `Flush` |
| `EventSink.Emit`, `loop`; `TeeEmitter` in the order of `main.go` | `Emit`, `SinkHandles` |
| `Triage`, `clearTriageCache` | `TriageAsks`, `TriageReads`, `TriageStores` |
| the timer of `scheduleScan`, `runScan`, `OnAgentRunFinished`; the end of a scan or of `tryPromote` | `Fires`, `Promotes`, `WorkEnds` |
| `OpenBoard` in its order | `OpenBoard`, `OpenFails`, `AttachSwaps`, `Deactivate`, `ClientSet`, `Activate`, `InfoSet` |
| `SetCLIPath` | `PathReads`, `PathSets` |

The channel of the library and the pump are one queue (`out`). The coordinators share one lifecycle, so one of them stands
for each. Changes of boards nobody works on are left out, and so are `Stop` and errors of the library.

A scan and a promotion look once whether their coordinator is activated (`auto_groom.go:410`, `:277`) and then issue their commands with
a context of their own, each through the client that `BoardService` has at that moment. `Deactivate` clears the flag and stops the
timers; it neither stops nor awaits what has begun, so the model only marks it (`left`). What the commands do is in `Automation`.

Fairness is one weak fairness on `Background`: the watcher's loop, the debouncer, the sink's loop, the timers, and an
`OpenBoard` that has begun. While one of them can go on, one of them does. Nobody has to change, open or promote anything, and a scan
may go on for ever.

`watcher` checks two boards, one with a task in file form and one in folder form, one task, a sink of one (256 in the code),
two changes or `SetCLIPath` calls, and one switch. A buffer of one is full as soon as anything waits in it; two changes and a
switch let an event overtake each of the steps of `OpenBoard`. It shows that a change leads to a scan and a look of the daemon
(`ChangeIsScanned`, `DaemonLooks`), that the cache is neither of another board nor older than what cleared it and is cleared after
a change (`CacheFresh`, `StaleCacheGoes`), and that everybody active works on the client's board (`OneBoard`).
One scan or promotion is followed at a time (`MaxWork`), beside any number that are not: `OneBoard` speaks of each by itself, and none waits for
another.

The history variables excuse what the code does not promise: a folder that appears between `attach`'s listing and its first event, or that
moves away and back before the removal is handled, is not watched (`watcher.go:189`, `:388`); what only a dropped event
told of is not looked at; a `SetCLIPath` that overlaps a switch leaves the client on the old board
(`settings_service.go:466`). And what a `Deactivate` has let go (`left`) goes on through the client that `OpenBoard` sets next
(`settings_service.go:297`), with candidates of the old board: the model has this in every switch that meets a scan, and `OneBoard` says nothing of it.
`settings_service.go:286` speaks of a drain of the previous board before the client is replaced; the coordinators have none.

`WatcherProofs.tla` proves the three invariants for any boards, tasks, coordinators, buffer and number of switches:
`WatcherTypes`, `CacheStaysFresh` and `OneBoardForAll`. The types need the shape of the records and of the events under way
(`Shapes`), because `TypeOK` says nothing of a folder that an event has still to report. `CacheFresh` becomes inductive with
`CallFresh`: a call whose answer will be stored has asked the client's board and nothing has cleared the cache since; every
clearing takes that right away from the call under way, so comparing the generation at the end is enough. `OneBoard` needs
`OnTarget`: the client is the board last given to the service, whoever is active works on it, and nobody is active when the client
is about to change; that is the order of `OpenBoard`'s steps.
A scan begins for the board its coordinator is active for and the next `Deactivate` lets it go, so one that is not let go keeps the client's board. The three liveness properties are only model-checked.

## Findings

| Run | What it shows |
|---|---|
| `board_review_start` | `tb review --fail` and `--submit` check the source status before they move and not when they move |
| `agent_cancel_kept` | the monitor of an adopted run writes `lost` over a cancellation that was recorded after it looked |
| `automation_rework` | a reworked task that was pulled by the automation is sent back to `ready` before its rework is reviewed |

`PROJECT.json` quotes the line each of them contradicts.

## Not modelled, and why

Text handling (`cli/task.go` parsing, templates, redaction, grep, list and show output, JSON
output), the agents' stream parsers and usage meters, the shell integration and the mobile
builds have no concurrent state; they are input and output. The Svelte components render
what the stores hold; only the body editor is modelled, in `TaskFolder`, because it keeps an old text.
Preferences are replaced as a whole under one mutex.

Of the commands of `tb`, `Board` leaves out the review sections written without a move,
`tb regenerate`, `tb scan --apply` and the edits of a parent by `tb create --parent`. Of the GUI, the modules
leave out the periodic ticker's own channels, the end of monitors at a switch, the settle timers,
`singleBoardLoad`, `InitBoard`, the list of recent boards, and the logs of single runs.

## Running

    tlc -workers 2 -config MCDaemonSafety.cfg MCDaemon
    tlc -workers 2 -config MCTaskFolder.cfg MCTaskFolder
    tlapm DaemonProofs.tla
    tlapm BoardProofs.tla
    tlapm BoardGuardProofs.tla
    tlapm AgentRunProofs.tla
    tlapm AgentStatusProofs.tla
    tlapm AutomationProofs.tla
    tlapm TaskFolderProofs.tla
    tlapm WatcherProofs.tla

Each `.cfg` names its module in `PROJECT.json`, which also maps every definition to the lines
it models and lists, for each property, a fault of the code that breaks it.
