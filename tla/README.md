# A verification development for far2m

far2m is a text-mode file manager (a fork of far2l). This directory holds TLA+
models of the parts of it in which order, nesting, lifetime and lost or repeated
messages matter, the TLC configurations that check them on small instances, and
TLAPS proofs. Paths below are relative to the repository's root and leave `src/` out.

## 1. The system

| Part | State it keeps | Operations | Hard behaviour | What makes it correct | Status |
|---|---|---|---|---|---|
| Inter-thread calls, `far/src/base/InterThreadCall.*` | one global queue of delegates, the dispatcher's thread id; delegates on callers' stacks or on the heap | call, asynchronous call, dispatch, lock and wake, the waiting macro | several workers, nested loops of the main thread, exceptions, shutdown, lost wakeups | no use after destruction, at most one run, truthful answers, nobody forgotten, calls in order | modelled, proved |
| Frame manager, `far/src/manager.*` | frame list, modal stack, current frame, six request slots | `InsertFrame` ... `ExecuteFrame`, `Commit`, the loops, `ExitAll`, `CloseAll` | requests are carried out later, by whichever nested loop commits next | no dangling frame, keys to the top modal frame, loops end with their own frames, `Commit` ends, no change dropped unasked | modelled but for menu chains |
| Frames: editor, viewer, dialog, menu, panels | their contents; `FrameToBack`, `CanLoseFocus`, `DynamicallyBorn` | `ProcessKey`, F6, Escape, plugin controls | a handler may loop, close or replace its own frame | no frame destroyed under its handler | requests only |
| Editor's undo list, `far/src/editor.cpp` | records, position, saved position | edit, undo, redo, save, blocks | merging, trimming, cutting | undo restores, "not modified" is true | modelled |
| Histories, `far/src/hist/history.cpp` | list in memory and in a file shared by instances | add, menu, lock, delete | the file is written as a whole | what is kept stays | modelled |
| Plugin synchro and background tasks, `far/src/synchro.cpp`, `plug/plugins.cpp` | queue of events, list of tasks | post, process, load, unload, start, finish | nested input, unloading | order, nothing forgotten, the list as shown is refreshed | modelled, proved |
| Virtual terminal, `far/src/vt/` | two reader threads, control mutex, child process | start and stop readers, log, background, end | readers call the main thread with a mutex held | the terminal has one user, every command returns | modelled but for emulation, proved |
| Work queue, `utils/src/ThreadedWorkQueue.cpp` | backlog, finished items, workers | `Queue`, `Finalize`, destructor | one condition variable for producer and workers | items destroyed once and in order, nobody waits for ever | modelled, proved |
| Console input, `WinPort/src/ConsoleInput.cpp`, `APIConsole.cpp`, password prompts | pending records, priorities | write, read, wait, check, prompt | readers of different priorities, callbacks in records | a record is lost only by those who may, sleepers wake | modelled, proved |
| Terminal backend, `WinPort/src/Backend/TTY/` | reader and writer, events, questions sent | paint, ask, detach, attach, clipboard transfer | a terminal lost in the middle of anything | an answer is to its own question, the screen gets painted, waits end | modelled but for escape sequences |
| Sudo client and dispatcher, `WinPort/src/sudo/` | connection, regions, consent | enter, leave, open, transact | connection shared by threads, a dispatcher that dies | connection kept while in use, nothing modified without consent, operations return | modelled but for arguments, proved |
| NetRocks pool, `ConnectionsPool.cpp`, on `utils/src/Threaded.cpp` | pooled hosts, purging thread | put, get, purge, destructor | a thread on its way out, timed waits | a host stays watched, nothing outlives the pool | modelled, proved |
| NetRocks transfer of a file, `Op/OpXfer.cpp` | sizes, position, hosts in error | copy, resume, retry, move | either host breaks at any call, acknowledged writes fail later | nothing lost, retry completes | modelled for one regular file, proved |
| NetRocks remote host and broker, `Host/HostRemote*.cpp` | pipes, login, outstanding call | every call, enumerations, abort | a broker that dies or hangs, abort from another thread | replies match requests, completion is true | modelled, proved |
| NetRocks operations as tasks, `Op/OpBase.cpp`, `BackgroundTasks.cpp`, `UI/Activities/` | progress state, main thread's dialogs | pause, abort, background, exit | threads that wait for each other | a confirmed abort ends, the user's pause is kept | modelled for one transfer, proved |
| NetRocks site commands, `Host/InitDeinitCmd.cpp`, on `utils/src/SharedResource.cpp` | lock files of several processes | open, close, cleanup | crash with locks, removal of lock files | `$SINGULAR` is true, locks are seen | modelled, proved |
| Find file, macro engine, viewer, panels, clipboard, plugin manager, copy and delete, cached files, settings files, file notification | mostly sequential state | | user questions, file errors | | not modelled |
| Network protocols, window backend, code page tables, colorer, Lua, Python, archives | | | I/O, vendored or generated code | | not modelled |

How they interact. Worker threads (search, terminal readers, NetRocks operations,
plugins) reach the user interface through `InterThreadCall`. The main thread
dispatches in `Manager::ProcessMainLoop`, `Modal::Process` and the waiting macro. A
dispatched function or a key handler makes requests of the frame manager, and may run
`ExecuteModal`, which commits, dispatches and reads keys in a loop of its own: the main
thread's stack holds handler, loop, handler, loop. `InterThreadCall` abstracts a frame's
loop to a *level*, `FrameLoops` abstracts a call to a handler of no frame (feature
`background`), and `VTShell` and `NetRocksTask` use calls as what `InterThreadCall` proves
of them: a call waits until the main thread dispatches, runs there, and is answered.

## 2. Modules

| Module | Models |
|---|---|
| `CallService` | abstract: the promise of `InterThreadCall.hpp` to callers, one variable per call |
| `InterThreadCall` | the queue, delegates, workers and the main thread's levels |
| `CallOrder` | the same, with the order in which delegates were enqueued in a history variable |
| `FrameManager`, `FrameLoops`, `FrameExit` | class `Manager` as a record and operators; the event loops and handlers; leaving far2l |
| `WorkQueue`, `EditorUndo`, `History`, `PluginSynchro`, `VTShell` | parts of far2l proper |
| `ConsoleInput`, `TTYBackend`, `SudoClient` | between far2l and the terminal, and sudo |
| `Threaded`, `SharedResource` | operators on the state of a thread's flags and of lock files, for those that use them |
| `RemoteCalls` | abstract: what a remote host promises to the one thread that uses it |
| `ConnectionsPool`, `XferFile`, `RemoteHost`, `NetRocksTask`, `InitDeinitCmd` | NetRocks |
| `MCInterThreadCall`, `MCFrames`, `MCFar`, `MCTerminal`, `MCNetRocks` | instances |
| `*Proof` | inductive invariants and theorems, section 5 |

Components side by side. `MCFar`, `MCTerminal` and `MCNetRocks` put components that share
no state into one specification: `part`, chosen in the initial state, names the one that
runs, and the others stay as they are. So the state space is the sum of the components',
not their product, each property is checked of every component it speaks of, and no
interleaving is left out, since there is none to leave out. Fairness is stated for each
component; an action that is enabled in the initial state of its component is fair only
`IF part = ...`, because a frozen component could not obey. `MCFrames` does the same for
`FrameLoops` and `FrameExit`, which share the manager's state.

### InterThreadCall

`queue` is `s_interlocked_delegates`, `tid` is `s_interlocked_delegates_tid`, `input` is the
console input (`"noop"` for NOOP_EVENT). The main thread is a stack of `depth` levels;
`pc[n]` is where level *n* is, `batch[n]` the local vector of its dispatch from the current
iteration on. Each critical section of the mutex is one action. `ProcessBegin` and
`ProcessEnd` are two steps: between them the function runs and may post, or open a loop
(`OpenLoop`) that dispatches again. `live` and `obj` are the delegate objects; a destroyed
one goes back to a fixed form, so its storage can be reused at once. `outcome` is a history
field. Abstracted: the functions themselves (any may post, loop, return or throw), the
10 ms polling, keys other than that there is one. `CallsAreServed` leaves out calls in a
batch whose dispatch is suspended under a nested loop: they wait for the user.

### FrameManager, FrameLoops, FrameExit

A `Manager` record has the members of the class plus the frames' `kind` (what
`GetCanLoseFocus` and `GetDynamicallyBorn` say), `back` (`FrameToBack`) and `live`. Each
operator is the method of the same name. `FrameLoops` keeps the stack of loops in progress
with `base` (`ModalStartLevel`), `target` (`NonModal`), `owner` (the automatic frame that its
function destroys when the loop ends), `handler` (the frame in whose `ProcessKey` the loop
is) and `ev` (whether `ExecuteModalEV` runs it, so that `InModalEV` is `ModalEVCount > 0`). A
round of `Commit` is an action, as its order is what matters. A handler ends with at most one
request, after any number of modal loops. Optional clients are in `Features`:
`nested` (`FarViewer`, `FarEditor` run `ExecuteNonModal`), `reopen` (an editor is opened on a
file already edited), `background` (functions called from other threads), `quit` (ECTL_QUIT,
VCTL_QUIT), `overmodal` (a plugin that is called in a dialog opens a viewer or editor that is
not modal, which the code refuses in modal viewers and editors only), `switch`
(ACTL_SETCURRENTWINDOW without ACTL_COMMIT), `dmclose` (DM_CLOSE for a dialog that is not the
top one). The last three break properties as section 4 says: `switch` and `dmclose` are in no
run, and from the first use of `overmodal` on, which the history `over` tells, `FramesAreKept`,
`LoopsNest` and `HandlersLive` claim nothing; `frames_overmodal` shows why. `nested`, `reopen` and
`quit` (`ClientsOwn`) destroy frames under their handlers: the part `"handlers"` of `MCFrames` does
without them. `FrameExit` adds which editors have unsaved changes and the program counter of
`ExitAll` and `CloseAll`, which run in whatever loop sees `CloseFAR`; a plugin of the panels may refuse
FE_CLOSE, and far2l then goes on with the frames it has left. `FrameExit.Act` lets only code
of frames that are alive go on (section 4, `manager.cpp:120`). Not modelled: menus linked with
`NextModal`, painting and focus callbacks.

### The parts of MCFar

`WorkQueue`: what a thread does under `_mtx` is one action; item *k* is the *k*-th queued;
the condition variable is modelled as such (`WakeOne` may wake any waiter, `SpuriousWake`).
`Queue` may fail to create a worker. Not modelled: lack of memory in `_done.emplace`.

`EditorUndo`: `text` is the list of lines, a string is a number; `undo` holds `UndoData`,
`UndoPos` (0 is `end()` going back), `UndoSavePos` and its flags. A record's `was` is history:
the text when it was appended. Commands that change several lines are one action per line
between `BeginBlock` and `EndBlock`. `MayEdit` with `CursorMoves` lets the user edit the text
that was saved only after the cursor has moved, which starts a new record; without it the
run `undo_merge` shows the defect of section 4. `SavesFail` and `PluginsExpand` stand for two
more ways to the same wrong end and are off in the passing runs.

`History`: `list[i]` is `mHistoryList` of an instance, `file` the saved one, `synced` whether
the remembered stat is the file's. `kept` is history: what was added and neither deleted nor
pushed out. The passing run has one instance; section 4 tells what two do.

`PluginSynchro`: `data` is the queue of events, `stack` the handlers that run, `begun` their
order; `tasks`, `refreshes` and `shown` are the background tasks' list, the refreshes that are
queued or that a thread, having changed the list, is about to queue, and what was last drawn.

`VTShell`: `main` is where the main thread is between commands, readers and dispatching;
`outPc` and `inPc` are the reader threads; `inout` and `readState` the owners of their mutexes;
`call[r]` and `serving` an `InterThreadCall` and the functions that run for it; `shell` and
`unread` the process behind the pseudo terminal.

### The parts of MCTerminal

`ConsoleInput`: `pending` is the queue, `prio` the priority of each prompt, `pc` what each
reader does; a record has a kind (key, kick, title, sync) and may carry a callback, which
whoever takes it runs. `backlog` is what `CheckForKeyPress` has put aside.

`TTYBackend`: `reader`, `writer`, `app` and `clip` are threads; `ae` the flags of `_ae`,
`queued` and `sent` the questions, `wire` and `replies` what is on the way; `image` is what was
painted last. What may happen is a *scenario*, a record of bounds.

`SudoClient`: `conn` is `s_uds` by number, `disp` the dispatchers, `path` whose socket is at the
one path; `region`, `cancelled`, `modify` are per thread. The check that there is a connection
and its use are two critical sections, hence two actions.

### The parts of MCNetRocks

`ConnectionsPool`: `pooled` and `age`, the `Threaded` flags `trd`, where the purging thread is,
and a timer: `Tick` passes a second and never jumps over a wait that has timed out.

`XferFile`: `dst` is a sequence of units that come from the source or are its own; `writer`
has what was written and not reported; `broken` are the hosts whose connection is lost.

`RemoteHost`: the two pipes as sequences of tokens that carry the number of their request
modulo two; `broker` is what the broker expects, `aborter` the next step of `Abort`. It is
shown to implement `RemoteCalls` (`KeepsPromise`).

`NetRocksTask`: `op` is where the transfer's thread is, `main` the stack of dialogs and waits of
the main thread; a call of the thread to the main thread is a place in `op` that only a
dispatch leaves. `Pause` waits until the thread has started: `ResetProgressState` (`OpBase.cpp:31`)
would undo an earlier one, in the half second before the progress dialog is shown.

`InitDeinitCmd`: `resources` is the directory of lock files with the open descriptions and
flocks on them (`SharedResource`), `group` the write locks, `heirs` the processes that a command
has left behind with inherited descriptors.

## 3. Runs

| Run | Shows | Instance |
|---|---|---|
| `itc_safety` | what callers are promised (`CallsAreKept`), the refinement of `CallService`, order of starts | 2 workers, 3 delegates, 3 levels, rescans; symmetric |
| `frames_safety` | no dangling frame, each in its place, keys to the top, loops nest, no frame destroyed under its own handler, nothing unsaved is dropped; no standstill (deadlock is checked) | panels and 2 frames, 3 loops, all handlers but `switch` and `dmclose`; leaving at any moment |
| `frames_live` | `Commit` ends; leaving ends every loop | panels and 2 frames, 2 loops |
| `far_safety` | the queues keep their order and items, undo, histories, the terminal's one user | 2 workers, 6 items; 3 edits, 3 lines; 3 names; 3 events; all features of the shell |
| `far_live` | calls served, items processed, callers return, events arrive | 2 workers, 4 items; shell with `ask` |
| `term_safety` | nothing vanishes, `Sync` is true, answers match, the connection is kept, consent | app and 2 prompts; a terminal lost in a transfer, questions given up; 2 threads, 2 dispatchers |
| `term_live` | kicks wake, the screen is shown, waits end, operations return | 1 prompt; two scenarios; a dispatcher that may die |
| `net_safety` | copies, connections, locks, the pool's watch, the refinement of `RemoteCalls`, `$SINGULAR` | 2 ids; sizes 0 to 4 with a buffer of 2; 2 brokers, 2 aborts; 3 connections to 2 sites |
| `net_live` | aborts and destructor end, a retry succeeds, commands end | smaller, with failures |
| `frames_overmodal` | finding | panels and 2 frames, 3 loops |
| `undo_merge` | finding | 2 lines, 2 edits |
| `xfer_overwrite` | finding | sizes 0, 2, 3, one broken connection |

Bounds. Two workers give every interleaving of two callers and a dispatcher; three
delegates let one be running, one in a batch and one in the queue; three levels give a
nested loop inside a nested loop. Two frames besides the panels let a frame be replaced
while another lies under it, and three loops a modal loop inside a modal or non-modal one.
Six items let the backlog exceed a limit of four with an item at each worker. An undo list
of three records is trimmed by the fourth, three lines let a block change more than one.
Two prompts nest. Two terminals' numbers of questions come around again. Two brokers let
one start while an abort of the one before is under way, two aborts let one be lost. A
buffer of two units with sizes to four gives a short read, an exact end and one unit more.
Three connections are two to one site and one to another of the same group. The bounds are
in the guards, never in a constraint. `CHECK_DEADLOCK FALSE` stands where a program ends or
a bound is used up.

Fairness. A thread that is inside a call of the modelled code goes on (it runs, and what it
calls returns); the user, new calls, failures, spurious wakeups and time have none. What is
asked for again and again is granted once (strong fairness) where the code takes a lock or
dispatches in turn: `Dispatch`, `LockGroup`, `Begin`, `StartRead`. Two assumptions are about
others: the user answers a dialog (`Answer`, `Confirm`), and a server that is connected to again
and again answers some time (`Reconnect`), without which no number of retries helps. Actions
of `WaitForWake`'s timeout are ordinary steps, and needed: they alone serve a call enqueued
between the dispatch and the lock of the waiting macro.

Wrong versions. A definition right before another one and named after it is what a slip in
that code would look like; no specification uses it. Substituted for the right one it breaks
the property named here:

| Definition | Replaced by | In | Breaks |
|---|---|---|---|
| `CloseLoop` | `CloseLoopAlways` | `InterThreadCall` | `TypeOK` |
| `CanReturn` | `CanReturnEarly` | `InterThreadCall` | `CallsAreKept` |
| `Failed` | `FailedNever` | `InterThreadCall` | `ImplementsService` |
| `Enqueue` | `EnqueueFirst` | `InterThreadCall` | `StartsInOrder` |
| `NewLoop` | `NewLoopTooLow` | `FrameLoops` | `FramesTypeOK` |
| `ForgetBack` | `ForgetBackNever` | `FrameManager` | `FramesAreKept` |
| `LoopEnds` | `LoopEndsLate` | `FrameLoops` | `LoopsNest` |
| `ExitCommitted` | `ExitCommittedHeedless` | `FrameExit` | `NothingUnsaved` |
| `Request` | `RequestAtOnce` | `FrameLoops` | `HandlersLive` |
| `ActivateCommit` | `ActivateCommitAgain` | `FrameManager` | `CommitAndExitEnd` |
| `CutRedo` | `CutRedoKeepingSave` | `EditorUndo` | `FarTypeOK` |
| `Take` | `TakeUncounted` | `WorkQueue` | `QueuesAreKept` |
| `Merges` | `MergesAnyLine` | `EditorUndo` | `UndoIsSound` |
| `Trim` | `TrimKeepingSave` | `EditorUndo` | `NotModifiedIsSaved` |
| `Add` | `AddUnsaved` | `History` | `KeptStay` |
| `JoinIn` | `JoinInEarly` | `VTShell` | `TerminalIsOnesOwn` |
| `WaitTimeout` | `WaitTimeoutOnlyChecks` | `InterThreadCall` | `CallsAreServed` |
| `Notify` | `NotifyNever` | `WorkQueue` | `ItemsAreProcessed` |
| `Deactivate` | `DeactivateNever` | `VTShell` | `CallsReturn` |
| `Process` | `ProcessIfLoaded` | `PluginSynchro` | `EventsArrive` |
| `Leave` | `LeaveTwice` | `SudoClient` | `TerminalTypeOK` |
| `CheckTake` | `CheckTakeGivesUp` | `ConsoleInput` | `NothingVanishes` |
| `Inspect` | `InspectOnly` | `ConsoleInput` | `SyncIsTrue` |
| `Send` | `SendAfter` | `TTYBackend` | `AnswersMatch` |
| `CheckForClose` | `CloseHeedless` | `SudoClient` | `ConnectionIsKept` |
| `Touch` | `TouchWithoutConfirm` | `SudoClient` | `ModifiesAreConfirmed` |
| `UpdateScreen` | `UpdateScreenNot` | `ConsoleInput` | `KicksWake` |
| `WriterStart` | `WriterStartBare` | `TTYBackend` | `ScreenIsShown` |
| `Reply` | `ReplyUnsaid` | `TTYBackend` | `WaitsEnd` |
| `NotOpened` | `NotOpenedUnleashed` | `SudoClient` | `OperationsEnd` |
| `EstimateTimeToSleep` | `EstimateUnchecked` | `ConnectionsPool` | `NetTypeOK` |
| `GetSize` | `GetSizeForgotten` | `XferFile` | `TransfersAreSound` |
| `ReportFailedWrite` | `ReportFailedWriteOnly` | `RemoteHost` | `ConnectionsAreSound` |
| `Stop` | `StopUnlocking` | `InitDeinitCmd` | `LocksAreKept` |
| `Check` | `CheckOnce` | `ConnectionsPool` | `HostsStayWatched` |
| `OnFilePut` | `OnFilePutUnreported` | `RemoteHost` | `KeepsPromise` |
| `Cleanup` | `CleanupLockless` | `InitDeinitCmd` | `SingularIsTrue` |
| `ForcefullyAbort` | `ForcefullyAbortOnce` | `NetRocksTask` | `EndsCome` |
| `XferReInitialize` | `ReInitializeBase` | `XferFile` | `RetrySucceeds` |
| `LeaveGroup` | `LeaveLocked` | `InitDeinitCmd` | `CommandsEnd` |

## 4. Findings

- `undo_merge` (`editor.cpp:4206`): after a save the next edit at the same place is merged into
  the record the saved position points to; undo and redo come back to that record, and the
  editor closes without the question "File has been modified. Save?" (`farlang.templ.m4:5071`)
  although the file lacks the edit.
- `xfer_overwrite` (`OpXfer.cpp:499`): if a connection breaks before `FilePut` has truncated a
  destination that the user chose to overwrite (`eng.lng:78`), Retry takes the old file's size
  for what has been copied: old contents stay, and a move then deletes the source.

- `frames_overmodal` (`plugapi.cpp:1796`, `:1877`): line 500 forbids to switch frames in a dialog
  and asks the top frame whether it can lose focus; `FarViewer` and `FarEditor` ask `InModalEV()`
  only, which counts modal viewers and editors. What a plugin opens from a dialog becomes the
  current frame and gets the keys that the dialog's loop reads, while the dialog is still on the
  modal stack. With three frames no promise about frames outlasts it: `NoDanglingFrame`,
  `EachInItsPlace` and `NoLostFrame` fail too.

Other disagreements met while modelling. The models have a constant or an action for each,
which the passing runs leave out, or the property is not claimed:

- `InterThreadCall.cpp:145` promises a kick; a rescan from the polling loop (`keyboard.cpp:718`,
  constant `Scans`) reads it without dispatching. The call then waits for the next input.
- `manager.hpp:95` calls the requests safe almost anywhere and `manager.cpp:1212` removes a
  deleted frame from all queues; `DeactivatedFrame` and `ActivatedFrame` stay (`switch`).
- `manager.cpp:1219` removes the frame it is told to, but `ExecuteModal` tells its end by the
  size of the stack: after `dmclose` of a lower dialog the upper one's loop ends.
- `manager.cpp:120` says far2l can be used on when the user continues to edit: a dialog's loop may
  then return into `ProcessKey` of an editor that `ExitAll` has destroyed.
- `ThreadedWorkQueue.h:64`: beyond the limit an item is not processed synchronously.
- `farlang.templ.m4:5630`, `:5654`: the console log and the switch to the background can hang the
  program, the main thread joining a reader that waits for it (`VTShell`, features `log`, `switch`).
- `helpe.hlf:73`: a host put while the purging thread is on its way out stays until the next call
  on the pool (`HostsStayWatched` says how far the promise goes).
- `eng.lng:7`: a retry of a transfer whose destination was never made fails for ever
  (`FreshBreaks`).
- `Host.h:24`: an abort between two pipes is lost (`EarlyAbort`); `Host.h:26`: after an abort at the
  wrong moment `Alive` is true of a dead connection (`AbortAtPeer`).
- `Host.h:18`: `SiteName` blocks while the user is asked about a changed identity (`Identities`), and
  `helpe.hlf:53`: F11 in a background task's dialog locks a mutex twice (`PluginsMenus`); with
  lost aborts leaving far2l may not end (`LostAborts`, `Exits`).
- `helpe.hlf:240`: a process that a site's command leaves behind keeps the instance's lock when that
  dies (`heirs` with `crash`), and an aborted connection cleans nothing up (`abort`).
- `history.cpp:79`: a line added with `SaveForbid` is saved by the next save (`Forbids`).
- `FarEng.hlf.m4:704`, `:1735`: with two instances, commands and marks of one are lost when the
  other's menu writes its list (`Instances` of two).
- `wxMain.cpp:1136`: `Flush` drops the callback record of a title; `SudoAskpassImpl.cpp:243`: a key
  typed right after Enter goes into the password.
- `sudo_client.cpp:385`: a dispatcher that ends unlinks the path of the next one's socket
  (`sudo_dispatcher.cpp:560`), and a right password counts as a refusal.
- `TTYFar2lClipboardBackend.cpp:267`: a question sent after those before it were released is
  released by nobody; `WinPortMain.cpp:243`: the writer may sleep through `_deadio`.
- `synchro.cpp:68`: a plugin loaded at the address of one that is gone gets its events.
- `farlang.templ.m4:5071`, as `undo_merge`: after a failed save (`SavesFail`), and after plugins have
  expanded tabs (`PluginsExpand`); `FarEng.hlf.m4:2734`: undo of Enter in the last line leaves the
  line end it was given (`UndoRestoresLines` compares the strings only).

`HandlersFrameLives` does not hold with the features `nested`, `reopen` or `quit`: the code then
destroys a frame under its own `ProcessKey`. No text in the repository promises otherwise.

## 5. Proofs

Theorems hold for every value of the constants that the modules' named assumptions allow;
`THEOREM X == ASSUME A PROVE ...` says where one holds for fewer. Each proof module has an
inductive invariant, a lemma for every action, and lemmas about the operators on sequences,
sets and records that the actions use. What is proved of the runs' properties TLC has checked first.

| Module | Theorems | Invariant |
|---|---|---|
| `InterThreadCallProof` | `TypeCorrect`, `KeptCalls`, `ProcessedOnce`, `Implements`, `KicksPend`, `OrderKept` | `IInv`, `OrderInv` |
| `FrameManagerProof` | lemmas: `Round...` for each branch of `Commit` | `Sound` |
| `FramesProof` | `FramesTypes`, `FramesKept`, `LoopsAreNested`, `NothingIsLost`, `HandlersFramesLive` | `LoopsInv`, `ExitInv` |
| `TerminalProof` | sudo: `SudoTypeCorrect`, `ConnectionKept`, `Confirmed`, `NobodyCrashes`; input: `ConsoleTypeCorrect`, `NothingLost`, `SyncTrue`; terminal: `AnswersMatchUntilRound`, `AnswersMatched`; of the run: `TerminalTypeCorrect` | `SudoIInv`, `ConsoleIInv`, `TTYIInv` |
| `NetRocksProof` | pool: `PoolTypeCorrect`, `QuietEnd`, `StayWatched`, `NeverOversleeps`; `CopySound`, `TaskSound`; host: `HostTypeCorrect`, `InStepAlways`, `Implements`; commands: `CmdTypeCorrect`, `LocksKept`, `SingularTrue`; of the run: `NetTypeCorrect`, `TransfersSound`, `ConnectionsSound` | `PoolInv`, `Basics`, `Copied`, `TaskIInv`, `HostInv`, `CmdInv`, `PartsInv` |
| `EditorUndoProof` | `EditorTypeCorrect`, `RestoresLines`, `StayWhole`, `UnmodifiedIsSaved` | `EditorIInv` |
| `FarProof` | `QueueKept`, `SynchroKept`, `SynchroTypeCorrect`, `ShellKept`, `HistoryTypeCorrect`; of the run: `FarTypeCorrect`, `QueuesKept`, `TerminalsOwn`, `UndoSound`, `NotModifiedSaved`, `KeptStays` | `QueueInv`, `SynchroTyped`, `ShellInv`, `KeptSafe` |
| `RecursionProof` | lemmas: `LeastOf`, `UpTo`, `LoopOf` | |

**Inter-thread calls.** `CallsAreKept` is not inductive: that a batch holds live delegates says
nothing when two batches may hold the same one. `IInv` adds that only the top level is
outside code of its own and a level has a batch exactly inside an iteration (`LevelsOK`); that a
delegate is at one place of the queue and all batches (`PlacesOK`); that callers own distinct
live delegates (`CallersOK`); that what the dispatcher can reach is live, unanswered and has the
outcome its place implies (`PendingOK`); and that a waiting caller is answered truthfully or in
place (`AnswersOK`). `Implements` is the refinement of `CallService`: each step is one of the
service's, or changes no call's progress. `KicksPend` assumes `~Scans`, as with a rescan it is
false (section 4). For `OrderKept` the batches of the levels and the queue are rows of delegates:
a step leaves the rows, enqueues behind them, moves the queue to the top level's empty batch, or takes
the first of that batch (`RowSteps`), so that of two delegates that wait the earlier one stays in an
earlier row or before the other (`OrderInv`).

**Frames.** Between two rounds of `Commit` a manager is in one of three states: `Settled`, with
nothing pending but a repaint, which is when code is called; `Requesting`, with at most one change
of the list or the stack, of the kind that code makes (`MayInsert`, `MayExecute`, `MayDelete`); or
`Focusing`, when the frame to be activated is the uppermost one or was chosen by who asked. Each
round leads from one to another, and `Effect` says what it does to the places of the frames.

The loops add three things. `Owned`: automatic frames belong to one loop each and are on the stack,
if at all, above the height that loop began at, so that `Destroy` after the loop leaves no pointer;
any other frame is in a list or requested. `Heights`: each loop begins at the height at which the
one below takes keys, so `Len(ModalStack)` tells a modal loop that its own frame has gone.
`HandlersKept`: what a round deletes is the top of the stack, above the height of every loop whose
code still runs. `ExitInv` says for each place in `ExitAll` how its index, `PrevFrameCount` and the
requests relate to the list, and that editors already passed have no changes left (`AtScreens`,
`AtScreenClosing`).

All theorems assume that `Features` has neither `switch` nor `dmclose`: with these the manager
fails its promises (section 4). With `overmodal` the invariant is kept by every other step
(`~OpensOverModal`), so it holds as long as `over` does not; that is what `FramesKept`,
`LoopsAreNested` and `HandlersFramesLive` say. `FramesTypes` and `NothingIsLost` are for `Features`
without `overmodal`, where `over` stays false (`NothingOver`); in the run they hold with it, too.

**The pool.** The flags of `Threaded` tell where the purging thread is (`FlagsTellOfThread`), and
from the destructor on there is nothing to start one for (`NothingLeft`). `StayWatched` assumes
that threads can be created. `NeverOversleeps` rests on `EstimateTimeToSleep` returning the least
of the times left, of which the existence is by well-founded induction on numbers.

**Sudo.** Who is between two critical sections is in a region, so the last region has not ended
(`Shared`); what was seen when the connection was looked for is still so, unless the
dispatcher has failed (`Served`); the user's answer is remembered as long as the region lasts
(`Asked`).

**Site commands.** Whoever has opened the site's file has the one with the name, whoever holds
a lock is past its own test or has died and left it to an heir, and what has been set up is
there for all who hold one. `SingularTrue` assumes that no instance dies with heirs.

**Remote host.** `TalkOK` says for each thing the host may be waiting for what the broker is
doing and what is in the two pipes: it is the protocol of `HostRemote.cpp` and
`HostRemoteBroker.cpp` as a relation, with a write that has been acknowledged and then fails,
an enumeration that is dropped, and a broker that has died at any of these places. Nothing is
claimed once the pipes have been cut. `Implements` is the refinement of `RemoteCalls`.

**Console input.** A prompt's priority is at most the number of prompts that are open
(`PrioritiesCounted`); who sleeps has nothing to read (`SleepersHaveNothing`); for a kick that was
taken there is another record or a prompt that will put one (`KickLeavesOther`). For `Sync`: its
record is in the queue once and behind the keys that were written before (`SyncFollows`), these
are gone when it has been taken (`TakenInOrder`), and the event has as many references as there
are who will use it (`ReferencesCounted`).

**The terminal.** A question that is still waited for is in one place (`OnePlace`): queued, in the
writer's hands, or sent. The numbers given out are those of the
questions in the order in which they were sent, `InTurn`, for as long as fewer than `MaxSent` have been
asked (255 in the code). After that numbers come round, a question that was given up may still be
answered, and its number be another's: `AnswersMatched` is for scenarios that ask less. That the
writer sends all it has taken, in order, is the loop `AllSent`.

**The undo list.** What the code keeps is records, what it promises is texts. `UndoState` says that
there are texts `ts`, one before the first record and one after each, and numbers of open blocks
`lv`, that the list stands for: each record below `UndoPos` undoes the step from a text to
the next, each behind it redoes that step (`Chained`), the text at `UndoPos` is the editor's, blocks are
never closed more often than opened (`Above`, `Balanced`), and a record outside of a block
recalls the text before it (`Recalls`). Adding, cutting, merging, trimming and playing a record
each take such a list to another one (`PlayedIs` for one record; that a whole block is played is a loop).
With an `UndoSize` so small that the BEGIN of an open block is trimmed, the list is empty and
`UndoSkip` counts what is open. `SaveFound`: the text at `UndoSavePos` is the file's and outside of
blocks, unless the position has been lost. `UnmodifiedIsSaved` is for `CursorMoves`, `~SavesFail`,
`~PluginsExpand`: without the first, `undo_merge` shows it wrong, and without the others section 4
does not claim it.

**The history.** `KeptSafe` says that what is kept is in the file, except between a change and the
save that follows it, and in the list of an instance that is changing it or has read the file. `Where` picks records from
a list: what it leaves, and in which order, is by induction up to the length of the list.

**Loops.** A loop over a list is a function on `0 .. n`, the state after each pass. `LoopOf` says that
there is such a function and `UpTo` that induction on the passes is sound; both follow from
`LeastOf`, and that from the well-foundedness of `<`.

**The copy of a file.** `Basics` relates position, writer and destination. `Copied` says that what
is in the destination comes from the source (`AllFromSource`), that the position to resume from
is its length (`ResumesAtLength`), how the end is told (`EndIsSeen`) and that no later step is
reached before it (`CompleteBefore`). It holds for `~FreshBreaks` only: `xfer_overwrite` shows a copy
that is wrong when a connection breaks before the destination has been opened. Sizes are any
set of numbers with a greatest.

**The task and its dialogs.** `Stacked` says how the main thread's frames lie on each other,
`FramesTell` which of them there are in which state of the transfer, and `PauseIsKept` what the
pause will be when the question about the abort is answered.

**The work queue.** Sequence numbers start when there is a first worker, so they differ from
the items by `Offset`, the number of items the producer did by itself. `QueueInv` says that the
backlog is the last items in order (`BacklogIsNext`), that numbers handed out and not fetched
are finished or in one worker's hand each and tell their items (`NumbersTellItems`), and what is
destroyed ends where they begin. That `Fetch` destroys all that is due follows from the first
unfinished number, the least of a set. `ItemsInOnePlace` counts items: cardinalities of
intervals and of disjoint unions.

**Synchronous events and background tasks.** Events handed out have lower numbers than those
that wait, which have growing ones, whatever handlers run inside others (`EventsFollow`). For the
types, `TasksRun` says which started tasks run: a name's count is that of a set of pairs of a task and
its name, and each task has caused a refresh when it was started and at most one more.

**The shell.** `CallsFollow` says who waits for the main thread and that it serves one at a time,
`LocksTell` who holds `_inout_control_mutex`, `StoppedReaders` whom its holder has stopped. With this
no reader is started twice, and what the main thread changes nobody else uses.

**Side by side.** `MCFar` and `MCNetRocks` take one step of one part, so each part by itself behaves
as its module says (`PartSteps`, `PartsStep`), and the theorems about the runs' properties follow
from those about the parts.

Only model-checked: liveness under fairness, which cannot be stated to the provers, and what the
three runs that expect a violation show. For every
safety property of the passing runs, invariant or action property, there is a theorem, under the
conditions named above.

## 6. Plan

Modelled so far: the parts of section 1 whose status says so. Next, in this order: menu
chains in `FrameLoops`; `FindFile` as a client of `InterThreadCall` and `WorkQueue`; the nesting of
macro areas; `SharedResource`'s modification ids between two processes. Of the proofs, the refinement
of what a client sees of the pool.

## 7. Not modelled

Find file, the macro engine, panels, plugin manager, copy and delete: sequential code with
many questions to the user, whose threads meet only in `InterThreadCall`. Cached file access
and settings files: sequential. The network protocols, window backend, file notification:
I/O with libraries and servers; `RemoteHost` takes their outcomes as choices. Code pages,
Colorer, Lua, Python, archive formats: generated or vendored. Of the modelled parts: escape
sequences, painting, arguments and results of file operations, statistics, translation.
