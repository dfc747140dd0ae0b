# Verification of rinlang

TLA+ models, TLC runs and TLAPS proofs for rinlang: the Rin language engine
(C++), the RinStudio IDE for Android (Kotlin), the command line with its
package manager (C++), and the tools around them. Source paths are relative to
the repository; `cpp/` stands for `app/src/main/cpp/`.

## 1. The system and its parts

| Part | Where | State it keeps | Operations | Hard behaviour |
|---|---|---|---|---|
| Run scheduler | `app/.../RinJobScheduler.kt`, `RinJob.kt` | list of jobs, their status, callbacks, the executor's queue | `submit`, `cancel`, `stopAll`, `togglePin`, `clear`, `runJob` | three kinds of thread, abandoned native calls, a clock that stops, trimming |
| Terminal transcript | `RinTerminal.kt` | lines, the unfinished line, what the run streamed | `startJob`, `onChunk`, `prompt`, `answer`, `finishJob`, `clear` | written from every worker, abandoned ones included |
| Input bridge | `RinInputBridge.kt`, its places in `MainActivity.kt` and `RinTerminalView.kt` | pending questions, the presenter | `request`, `setPresenter`, `clearPresenter`, `present` | a blocked worker, the main thread's queue, Activities that come and go, a bounded wait, interrupts |
| Flow engine | `cpp/rin_interpreter.{h,cpp}` (`namespace flow`), `cpp/jni_bridge.cpp` | sessions, nodes, the histories of the interpreter and of the bridge | run as flow, cancel, replay, prune | cancel from another thread, errors in any stage, chains inside chains, pruning |
| Living variables | `cpp/rin_interpreter.cpp` (`live*`, `val*`, `execTrial`) | per variable: range, history, reads left, rule, bells, subscriptions; the journals of open trials | declare, write, read, `undo`, `redo`, `rebase`, `rewind`, `touch`, `unval`, `trial` | writes that cause writes, recomputation in order, rollback of all of it |
| Tree-walking interpreter | `cpp/rin_interpreter.cpp` (`exec`, `evaluateTree`) | environments, the depth of calls, the budget | statements, calls, exits | the two ways an exit travels: a `Flow` and a C++ exception |
| Bytecode compiler and machine | `cpp/rin_bcvm_{compiler,exec}.cpp` | five stacks, nested runs | compile, `vmExecute` | every exit cuts five stacks, and may cross into C++ and back |
| Lexer, parser, natives, standard library | `cpp/rin_*.cpp`, `cpp/rin_stdlib_libs.h` | - | parse, compute | sequential, over unbounded data |
| Editor engine | `cpp/editor/rin_editor_engine.cpp` | lines, cursor, selection, undo and redo records | type, delete, replace, undo, redo, line commands | records are differences and positions, merged as one types; positions count bytes |
| Package manager: resolution | `cli/linux/src/pkg/semver.cpp`, `resolver.cpp` | requirements, edges, choices, a queue of names | parse, match, `resolve` | no backtracking; requirements of versions given up stay |
| Package manager: store | `cli_pkg.cpp`, `package_ops.cpp`, `cache.cpp`, `registry.cpp`, `lockfile.cpp` | registry, cache, installed packages, `rin.lock` | install, publish, clean, purge | files written in place, kills, shells that share directories |
| Indsin live server and its page | `tools/indsin-live/rin_indsin_live.cpp`, `client/index.html` | documents, clients with a queue, event streams, the watcher's stamps | open, events, tick, reload, navigate, push | a thread per connection, a watcher without the lock, broken streams |
| CLC containers | `cpp/clc/` | container files | create, append, verify, extract | file format |
| Indsin UI | `cpp/indsin/` | object tree, renderer | build, draw, dispatch | rendering |
| Loader UI | `cpp/loader_ui/` | ticker threads, the progress shown | start, tick, stop, suspend | condition variables |
| Language packs | `packs/` (Kotlin) | tasks, staging directories, installed packs | start, cancel, resume, install | partial downloads, crashes, shared tasks |
| Go interpreter and gateway | `gorin/` | a semaphore, counters | run with a deadline | abandoned goroutines |
| Store, accounts, publishing | `store/`, `auth/` (Kotlin) | remote documents | HTTP calls | the network |
| APK export and signing | `apk/` (Kotlin) | files | repack, sign | file formats |
| Binary formats, toolchain, `rinc` | `cpp/binfmt/`, `cpp/toolchain/`, `cpp/rinc.cpp` | files | link, emit | file formats |
| VS extension, web, bindings, examples | `src/`, `web/`, `bindings/`, `examples/` | - | - | glue and samples |

How they interact: the IDE's screens submit source to the scheduler; its queue
thread hands each run to a worker that calls the engine through JNI; the engine
calls back with chunks of output (to the transcript and the live view) and with
questions (to the transcript, then the input bridge, which blocks the worker
until the main thread delivers an answer). The flow screen calls the flow
engine through JNI, from threads of its own. The interpreter runs a program
through the bytecode machine, and the statements the compiler does not know
through the tree-walker, which may enter the machine again; living variables
and flows live in the interpreter, whichever of the two executes. The code view
sends its keys to the editor engine through JNI. The command line and its
package manager share only the file system with the engine: the interpreter
reads what the package manager installed. The live server is a program of its
own with the engine inside; browsers and editors reach it through HTTP.

What makes each part correct, and is therefore what its model is for:

| Part | Properties |
|---|---|
| Run scheduler | runs in order, one at a time; a status that is final; caps that hold; every run ends; a stop takes effect; a callback told once; pinned and pending runs never dropped |
| Terminal transcript | a run's output is shown in its section, in full, and stray text comes only from abandoned runs |
| Input bridge | no question lost, no answer replaced, no thread blocked for ever; the screen in front is the one that asks |
| Flow engine | a cancel or a timeout stops the remaining stages; nodes and session agree at the end; records only grow; pruning keeps what runs and bounds the rest |
| Living variables | a computed variable holds what its expression yields; each is computed once per change; rules are never broken; undo and redo are inverses; a failed trial leaves no trace |
| Bytecode machine | it does what the tree-walker does and leaves nothing behind; every program ends |
| Editor engine | undo after any edits gives the earlier texts, redo is its inverse; the cursor is in the text; characters stay whole |
| Package manager | the choice satisfies the constraints of all that is installed; an interrupted install is repaired by the next; what passes for installed is whole |
| Live server | a browser comes to show the last version of the page it is on; threads of streams that are gone end |
| Run history (not modelled) | the UI ends up with the newest list; an old screen's `detach` leaves the new one attached |
| Language packs (not modelled) | a crash at any step leaves the old or the new version installed; concurrent starts share one download |

## 2. The modules

    RunQueue     <-- implements --  JobScheduler  (extends TerminalBuffer)   JobSchedulerProofs (extends WellOrder)
    AskUser      <-- implements --  InputBridge                              InputBridgeProofs
    FlowRecord   <-- implements --  FlowEngine     MCFlowEngine              FlowEngineProofs, FlowRecordProofs
    EditHistory  <-- implements --  EditorEngine   MCEditorEngine            EditorEngineProofs (extends WellOrder)
    TreeWalker   <-- agrees with -  BytecodeVm     MCBytecodeVm
    LiveVars                                       MCLiveVars
    Semver       <-- extended by -  Resolver       MCResolver                ResolverProofs (extends WellOrder)
    PackageStore                                   MCPackageStore            PackageStoreProofs
    LiveServer                                     MCLiveServer

An MC module gives a model its data: programs, hosts, registries, scripts of
users. The scheduler and the bridge need none, their constants are numbers and
model values. An operator whose name ends in an underscore and a word
(`Superseded_Never`) is a wrong form of the operator before the underscore:
properties are tested against it.

### RunQueue (abstract)

What callers of the scheduler rely on, without its threads: a counter and a
status per run; `Submit`, `Cancel` (only while it waits), `Start` (only when
every earlier run has ended), `Finish`; a started run finishes.

### JobScheduler

A job is its number. `submit` is called on the main thread only, so the list
`jobs` is ordered by number and is a set; the executor's queue is the numbers
`taken+1 .. counter`. What the model calls one action is one critical section
of the code, or one stretch between two of them that touches shared state:

| Code (`RinJobScheduler.kt`) | Actions | Why so many steps |
|---|---|---|
| `submit` | `SubmitCheck`, `SubmitAdd` (with `Trim`) | the pending count and the insertion are two critical sections |
| `cancel` | `Cancel` | the check and the change are under the job's lock |
| `stopAll` | `StopScanRunning`, `StopScanQueued`, `StopMark`, `StopCancel(n)`, `StopReturn` | two scans, then one lock per job |
| `togglePin`, `clear` | `TogglePin`, `ClearHistory` | |
| `runJob` (queue thread) | `SkipCancelled`, `Take`, `Launch`, `GetResult`, `Abandon`, `MarkAbandoned`, `Seal`, `Report`, `CallBack` | every lock it takes and every call that another thread can interleave with |
| `awaitActive` | `Tick`, then `StopTick`, `ClockTick` or `TimeoutTick` | the status of the wait, the stop request and the clock are read after the wait |
| stream listener (worker) | `Chunk`, `ChunkToTerminal` | the lock is released before the transcript is written |
| input handler (worker) | `Ask`, `RequestReturns`, `WriteAnswer` | it blocks in between |
| the native engine | `EngineReturns`, or nothing | a program may loop for ever; it may go on after its Future was cancelled |

A text is reduced to who wrote it (`TerminalBuffer`: the open section, what the
run streamed, the unfinished line). A chunk is not its characters: `liveLines`
is the number of lines, `TIMEOUT_MS` a number of ticks. Each worker's interrupt
is the `"cancelled"` outcome of its Future.

### AskUser (abstract) and InputBridge

`AskUser`: a question is asked, at most one answer is offered for it, none after it
returned, and it returns with the answer accepted or with null. An answer offered before
may be accepted after, and is lost: `deliver` finds `done` false, the request gives up
and returns null, and `deliver` then sets `answer` (`RinInputBridge.kt:63-66` and `85`).

`InputBridge` has the threads that run programs, the main thread's message
queue and the screens:

| Code | Actions |
|---|---|
| `RinInputBridge.request` | `Ask` (list), `PostPresent` (message), `WakeAnswered` / `WakeExpired` / `WakeInterrupted` (the three ways out of `await`), `LeaveDone`, `LeaveRemoved` (the `finally`) |
| `present`, posted by `request` and `setPresenter` | `RunMessage` with `Present` |
| `MainActivity.onCreate` / `finish` / `onDestroy` | `Create` (`setPresenter`), `Finish`, `Destroy` (`clearPresenter`, then the view is detached and the dialog dismissed) |
| the input line and the dialog | `Answer`, up to the test of `deliver`; `slot` holds the question that each of the two places of a screen would deliver to |
| the rest of `deliver` | `Deliver`; `call` is what the main thread has in hand between the two, and it does nothing else meanwhile (`MainIsFree`) |
| `future.cancel(true)` in the scheduler | `Interrupt` |

An Activity can be created while another one still exists: `FilesActivity` and `LibrariesActivity` open an editor above the
one already there, and `onDestroy` after a `finish` comes late. A rotation
destroys the old one first. Whether the console is visible, which decides
between the input line and the dialog, is free. The thread of
`RinNativeTerminal` asks too and is never interrupted (`Interruptible`).

`JobScheduler` and `InputBridge` meet in `request`: the scheduler's
`RequestReturns` is the abstraction of a whole call, and the fairness
`JobScheduler` assumes of it is what `RequestReturns` of `InputBridge` (the
property) establishes.

### FlowRecord (abstract) and FlowEngine

`FlowRecord`: the record of a flow only grows; a node that has ended and a flow
that has ended stay as they are.

In `FlowEngine` a thread runs a program (`runFlowNative`) or replays the last
chain of an earlier session. Chains nest, since a stage or its arguments may
evaluate another chain, so a thread has a stack of frames; a frame holds the
session its nodes go to, as the local variable of the code does.

| Code | Actions |
|---|---|
| `runFlow`, `createSession` with its pruning | `Run`, `Replay` |
| `registerFlow` in `jni_bridge.cpp`, with its pruning | `Register` |
| `evaluatePipelineFlow` | `EnterChain`, `EnterInner`, `StartInput`, `FinishInput`, `CheckStage` (the test of the flag and of the deadline, and the nodes that a stop leaves), `StartStage`, `Arguments`, `FinishStage`, `EndChain` |
| an exception in the input, an argument or the call | `Raise`, `Unwind` frame by frame, `Catch` (a `try` of the program, which lets an `ExitSignal` pass) |
| the ends of `runFlow` and of the replay, in two steps | `Judge` (`isCancelled`), `End` (the deadline, the error, and the status that they give, without a lock; `exit(0)` is no error), `Leak` (an exception that is not a `RinError` leaves the session RUNNING and active), `Crash` |
| `cancelFlowNative`, in two steps | `CancelLook` (the status, without a lock), `CancelSet` (the flag) |
| the clock | `Deadline` |

What a node shows of its values, the text of events and the exporters of a
graph are data and are left out.

### LiveVars

One action is one statement of a program; a statement calls deep into the
interpreter (a write fires bells, a bell writes, a write recomputes every `val`
that reads it), so each function of the code is an operator from one working
state to the next, and an exception is a field of it. `Assign` is `liveAssign`
with the gauge's range, `accept` and its fallback, `gate`, the tape, the
journal, the bells and `valPropagate`; `Show` is a read, which burns a fuse and
computes a lens or a lazy `val`; `Undo`, `Redo`, `Bump`, `Rebase`, `Rewind`,
`Rearm`, `Touch`, `Unval`, `Ban`, `AddBell`, `Unbell` are the live actions;
`BeginTrial`, `CommitTrial`, `Abort` and `TrialFails` are `execTrial`, whose
rollback is `RolledBack`; `Catch` is a `try` around what failed. Values are small
numbers and nil. Three variables are histories: how often the statement computed
each val, what a trial found, and whether an exception cut a statement short.

### TreeWalker and BytecodeVm

`TreeWalker` is `exec` and `evaluateTree` over the control constructs, as a
recursive operator from a state to an outcome. `BytecodeVm` compiles the same
trees as `rin_bcvm_compiler.cpp` does and executes the code one instruction a
step, with the stacks of values, environments, frames, handlers and loop marks
of `vmLoop`. What leaves the machine (a `try` with `finally`, the `else` of a
`let`, a call made by a helper) is an activation of its own that starts another
run; an exit that crosses from one to the other is the variable `res`, and the
actions `Caught`, `LoopSignalArrives`, `ReturnSignalArrives`,
`ReturnFlowArrives`, `ValueArrives`, `CallEnds`, `ElseEnds`, `TryCatches`,
`TryRunsFinally` and `TryEnds` are what meets it. Living variables, text, maps,
classes and imports are left out of both.

### EditHistory (abstract) and EditorEngine

`EditHistory` has texts only: the present one, those that undo goes back to and
those that redo goes on to. `EditorEngine` has the lines, the cursor, the
selection and the records of the code: what was taken from where, what was put
in its place, and the cursor before and after. Its actions are the methods:
`setText`, `setCursor`, `setSelection`, `collapseSelection`, `insertText` with
its pairs, steps over a closing character, indentation after Enter and smart
dedent, `deleteBackward`, `deleteForward`, `replaceRange`, `undo`, `redo`, and
the line commands (duplicate, delete, move, comment, indent, unindent).
`pushUndo` merges a record into the one before when the clock says it is recent:
that is a free choice, together with the conditions the code adds. A text is a
sequence of bytes. The refinement mapping undoes and redoes the records one
after another; `MCEditorEngine` keeps its value in a variable beside the state.

### Semver, Resolver

`Semver` has the order of versions and every form of a constraint as
intervals, as `tryParseConstraint` builds them. `Resolver` has `Begin` (the
project's requests), `AddRequirement` (one request to the three places that
remember it), `Look` (take a name from the queue, intersect what was ever asked
of it, choose), `Finish` (the search for cycles) and the order of installation,
where `stack` holds the calls of the recursive `emit` with the edges each has yet
to follow: `EmitNext` follows one, `EmitReturn` leaves the innermost call. The
intersection folded end by end is the set of constraints with, at each end, one that
no other tightens; that it accepts what each of them does is proved, not assumed.

### PackageStore

One package in a few versions; what several get is `Resolver`'s matter. Every
file is opened, which truncates it, in one step and written in another (each file
of an unpacking too), and `Kill` may come between any two. `Begin`, `Resolve`, `Check`, `Download`,
`Store`, `Verify`, `Open`, `OpenFile`, `WriteFile`, `OpenSum`, `WriteSum`, `OpenLock`
and `WriteLock` are an install; `OpenArchive`, `WriteArchive`, `OpenMeta` and
`WriteMeta` a publication; `CleanOne` and `PurgeOne` remove one file or
directory. The content of an archive is the number of the tree that was packed, and so
is its checksum: packing is deterministic (`archive.cpp:71-93`), so a tree that is
published again brings its checksum back. `published` remembers which trees each
version was published with, in their order.

### LiveServer

| Code | Actions |
|---|---|
| the author and the editor | `Save` (a file), `PushBuffer` (`/api/push`) |
| `watcherLoop` | `Scan` without the lock, `Feed` with it |
| `handleApi`, one step each under `g_mu` | `Open`, `Render`, `Reload`, `Navigate`, `Back`, `NoHistory`, `Gone` |
| `serveEvents`, one thread for each stream | `Connect`, `Ends`, `Drain`, `Ping` |
| the network, the collection of idle clients | `Drop`, `Collect` |
| `client/index.html` | `Tick` and `Command` send what the server then handles, `SendOpen` asks for a session; `Deliver` (an answer, a frame, an error), with the timer of its ticks |

A queue holds the newest frame only (`pushQ`). Three deliberate limits. What the
server sends to one browser arrives in the order it was sent (`Ordered`;
`LiveServerOvertaken.cfg` shows what happens otherwise). No file is saved before the
watcher's first look, which is only a base line (`EarlySaves`). And a frame that
goes into a broken connection is lost for good until the browser asks for
something: the variable `lost` marks those browsers, and the properties leave
them out. They also leave out (`OutOfStep`) a page one of whose commands was answered 410:
the page puts each command behind the one before (`chain`), the request to open a
session too, and the command that was refused is over only when that session is open.
`LiveServerGone.cfg` shows it: section 4.

## 3. The runs

Every run sets `CHECK_DEADLOCK FALSE`: once the bounded submissions, questions,
edits or commands are used up an idle system really stops.

| Run | Instance | What it shows |
|---|---|---|
| `scheduler` | 3 submissions, 2 pending at most, history of 2, job 1 can be pinned, jobs 1 and 3 have callbacks | a stop leaves nothing queued, outcomes are final and told once; the scheduler implements `RunQueue`, fairness included |
| `scheduler_live` | 2 runs, 1 pending, 1 chunk and 1 question each, bounded waits | stray text comes only from abandoned runs; every run ends, programs that loop included |
| `bridge` | 3 overlapping screens, one thread, 2 questions, nobody has to answer | the newest screen keeps the presenter, an answer is never replaced, an interrupted thread leaves this question and all later ones; in the behaviours whose screens come one after another (`OneScreen`, rotations) a pending question comes in front of the user whenever there is a screen, after each rotation too |
| `live_vars` | six programs, any order of their statements | values fresh, subscriptions two-ended, one computation per change, rules kept, undo and redo inverse, rollback complete |
| `editor` | 3 operations on 2 documents, 5 keys, history of 2, any undo and redo in between | the cursor stays in the text; the editor implements `EditHistory` |
| `flow` | 1 thread, 2 interpreters with 1 session each, registry of 1, up to 5 flows, chains of 2 stages, four kinds of host | cancels take effect, at most one more node starts, records and verdicts agree, a running flow can be found; the engine implements `FlowRecord` |
| `resolver` | all graphs of 3 packages with 2 versions and a requirement each; all pairs of 37 constraints on 11 versions | a result satisfies everyone and can be installed in order; it is the newest accepted; the loop ends |
| `packages` | 2 shells, 2 versions, 2 trees, 3 publications, a kill at any step | what passes for installed is whole, a broken store heals, the import file of what is locked is there |
| `vm` | every way to leave code from inside every pair of 15 constructs; calls at their limit; budget of 60 | the machine does what the tree-walker does, leaves nothing behind, counts calls right, ends |
| `live_server` | 1 browser, 2 pages, 1 save, 1 push, 1 broken stream, two scripts of the user | a browser that is not out of step comes to show what is saved and the page its taps go to; threads of old streams end |
| `live_glitch`, `editor_bytes` | small | the first two disagreements of section 4 |

### Further configurations

These are kept beside the runs and checked with `tlc -config X.cfg M`; they look
closer at one component.

| Configuration | Properties |
|---|---|
| `JobSchedulerList` | `PendingCap`, `InOrder`, `PendingIsListed`, `CallbacksNotLeaked`, `SchedulerInv` (the inductive invariant), `TrimDropsOldest`, `PinnedKept` |
| `JobSchedulerSilentUser` | `StopTakesEffect` when no question need be answered |
| `InputBridgeWait` | `RequestReturns`, `IsAskUser`: 2 threads, the bounded wait |
| `JobSchedulerStopAll`, `JobSchedulerOutput`, `InputBridgeOverlap`, `LiveVarsRolled`, `BytecodeVmHeader`, `BytecodeVmReturn`, `FlowEngineReplay`, `LiveServerGone`, `LiveServerOvertaken`, `PackageStoreLock`, `LiveServerImports` | one property each, which is violated: section 4 |

### Why the bounds are enough

Scheduler: the races involve a running job, the one behind it and a third whose
submission trims the list or meets the cap: three submissions with two pending
and a history of two reach each of them. Workers overlap two at a time at the
transcript (the abandoned one and the one that executes). `TimeoutTicks` of 1
puts the clock at its limit at once, 2 lets it move before. Bridge: three
screens have one older and one newer than the one destroyed; two questions show
what an earlier one leaves behind.

Living variables: the programs are the shapes that matter (a diamond; trials in
trials; a fuse; bells on a source, on a val and on what a bell writes; the three
guards; lazy values under a lens), values are wide enough to leave each range on
both sides (the contract refuses before and after, the fallback of `accept` is
taken and refused, a bell on the gauge writes into the other two), and `BellLimit` 2 and
`ValLimit` 3 are reached. The vals of these six read the same variables every time and no trial
reads a stale lazy val; the programs that do otherwise fail, and stand apart. Flow engine: one host looks into a single flow with
a chain inside a stage, others into two and five small flows and replays: three are
what two histories of one place need to drop, keep and move an entry, five let
two flows that an exception left running stay in the registry while others pass.
Resolver: with one requirement per version every conflict needs three packages;
the pairs of constraints meet at each end of each interval, with pre-releases and
zero majors. Package store: a second tree of the same version with fewer files is
what a mixture needs, and the third publication can bring the first tree back; what `Orderly`
leaves out of `InstalledIsWhole` is what makes it fail (section 4). Machine: a pair of constructs is what an exit crosses
when something is left on a stack; the third level is the function around them.
Live server: one browser, since clients share nothing but the documents; a save
and a push are the two writers of a document. Editor: three
operations with two records let the history drop one, and merging needs two in a
row and a third after it; undo and redo are free and not counted.

Every counter that the code leaves unbounded is bounded by a constant in the
guard of one action (`MaxSubmits`, `MaxChunks`, `MaxAsks`, `MaxQuestions`,
`MaxScreens`, `MaxId`, `MaxStages`, `MaxJournal`, `MaxBells`, `MaxValue`,
`Contents`, `MaxSaves`, `MaxPushes`, `MaxDrops`, `MaxMoves`). One of them carries a property:
`EveryRunEnds` needs programs that ask finitely often, here `MaxAsks` times. `awaitActive`
adds nothing to `activeMs` while a question is open (`RinJobScheduler.kt:301`), so
for a program that asks again for ever only the ticks between two questions count, and it may
keep the queue thread until the user stops it.

### Fairness

- Scheduler: `WF(Queue)`, since the executor's only thread is never killed and its
  waits, `future.get(tickMs)`, are bounded. `WF(RequestReturns(j))`, in `FairSpec`
  only: the bridge's wait ends after `MAX_WAIT_MS`. A program may compute for
  ever, so nothing is assumed of `EngineReturns` or `Chunk`; nor of the user.
- Bridge: the main thread's looper executes what is posted, and a thread that is
  not blocked goes on, in the middle of `deliver` too (`PatientSpec`); the clock only in
  `FairSpec`.
  `StopTakesEffect`, `QuestionIsShown` and `StoppedRunLeaves` are checked
  without the clock on purpose: with it they would hold even if every question
  took ten minutes.
- Flow engine: `WF(Step(t))` for each thread; stages are taken to return. Nothing
  is assumed of the deadline or of whoever cancels.
- Resolver, machine: one thread that goes on, `WF(Next)`. The budget and the
  shape of the code then have to make it end.
- Live server: the watcher, the threads of streams and the handlers go on, what
  is sent over a connection that stands arrives, and a browser follows its own
  protocol (open, connect, tick while its timer runs). Nothing is assumed of
  saves, pushes, commands, broken connections or keep-alive pings.
- Living variables, the editor and the package store have safety properties only.

## 4. Where the code and its words disagree

Two have a run:

1. `live_glitch`. `valPropagate` orders the vals by the subscriptions of before
   the change. A val that starts to read another val in this very propagation can
   be computed before it, and is not computed again. `docs/val.md:33-34` promises a
   topological order without glitches. The compiled interpreter does the same.
2. `editor_bytes`. `rin_editor_engine.h:172,174` say that Backspace and Delete take one
   character; both take one byte, and `RinNativeEditor.kt` passes them on. An
   Arabic letter (two bytes) loses half of itself. The engine itself, compiled
   and driven by hand, does the same.

The others have a configuration:

3. `LiveServerGone`. In `client/index.html` a command that is answered 410, because the server has
   freed an idle session, is over when `openSession()` is (line 193). The request to open
   goes behind the commands under way (line 198), and so waits for the one that waits for it:
   the page never sends anything again and keeps the text it shows, while
   `docs/indsin_live_preview.md:27` says that a save updates the preview at once. It takes a tick
   or a tap between the freeing of the session and the refusal of the stream's own
   reconnection, which opens a new session as it should. `SavedIsShown` and `PageIsShown` leave
   such pages out.
4. `LiveVarsRolled`: a read of a stale lazy `val` clears `stale` first (`rin_interpreter.cpp:13919`)
   and journals the val when it stores the value (`14279`), so a trial that rolls back
   leaves the old value marked fresh. `docs/val.md:53` says that source and stored value come back
   together and that the `val` stays reactive. Of `let x = 1; val z = x + 1 lazy; trial { $ z; abort; }
   else {}` the interpreter, compiled from these sources, keeps `z` nil until `x` changes.
5. `PackageStoreLock`: `lockfile.h:3-4` says that `rin.lock` gives the same versions to
   everyone who installs the project. An install resolves anew and overwrites the
   lock without reading it (`cli_pkg.cpp:112`; its `forceFresh` is not used).
6. `LiveServerImports`: the comment at `rin_indsin_live.cpp:453-454` and
   `docs/indsin_live_preview.md:27` say that saving an imported file updates the
   preview. `hotApply` parses the page and compares trees but executes no
   `@import`; the page keeps the old text until it is reloaded.
7. `RolledReads`, in the place of `Rolled` in `LiveVarsRolled.cfg`: `valApply` journals a val after
   `valCompute` has rebuilt its subscriptions, so a rollback restores the value with the newer
   subscriptions, and a later write to what it reads again goes unnoticed. The compiled
   interpreter does the same.
8. `BytecodeVmHeader`: a `break` or `continue` that starts in a loop's condition or
   increment meets the mark of that loop, in the tree-walker the loop around
   it. `rin_bcvm.h:13` says the two agree.
9. `BytecodeVmReturn`: the declared type of a value returned by a signal is checked in
   the catch clause of the machine (`rin_bcvm_exec.cpp:402`), so its error leaves
   the whole run, past the handlers of the program.
10. `EdgesAreActual`, in the place of the invariants of `Resolver.cfg`: the comment at `resolver.cpp:87` calls `edges` the structure of
   dependencies after the resolution. The edges of a version that was given up stay,
   and may close a cycle that no version chosen has.
11. `LiveServerOvertaken`: an answer computed before a save and delivered after the
   frame of that save leaves the old text on the screen. The page has no number
   to tell them apart.
12. `FlowEngineReplay`: a replay on a second thread takes over the interpreter, and
    its `activeFlowSession_`, of a flow that still runs, whose later nodes go to the
    replay's session. The properties that fail then are checked and proved for one
    thread.
    Checked in place of the properties of `FlowEngine.cfg`, `CancelIsKept` and
    `NodesHaveEnded` fail with one thread too. `rin_interpreter.h:650-651` says that
    `requestCancel` is true only for a flow that still runs and raises the flag at once;
    one that comes between `isCancelled` and the status (`rin_interpreter.cpp:13595`,
    `13599`) raises it on a flow that reports SUCCESS. And `docs/rinflow.md:44` says that an error of
    any stage is recorded on its node: an error in an argument or in the input is
    not, and `exit(0)` in a stage leaves its node RUNNING in a flow that ends
    SUCCESS (`rin_interpreter.cpp:9391-9393`); both were seen in the compiled interpreter too.
13. `JobSchedulerStopAll`: `stopAll` is said to stop what runs and to pull everything
    that waits. A job that the queue thread starts between the two scans of the snapshot, or
    between the snapshot and its `cancel`, is neither cancelled nor asked to stop. What does hold is
    `StopLeavesNoneQueued`, and it is proved.
14. `JobSchedulerOutput`: the listener checks RUNNING under the job's lock and writes
    after it. The chunk of an abandoned run can arrive after the next run's
    `startJob`; `finishJob` of that run then finds streamed text that is no prefix
    of its output, and omits what was not streamed.
15. `InputBridgeOverlap`: a question shown on the old screen keeps its mark when the new
    one calls `setPresenter` first, is skipped by the new one, and is on no screen
    once the old one is gone; its program blocks until `MAX_WAIT_MS`. The comment at
    `RinInputBridge.kt:20-21` says that no waiting question is lost. While
    screens come one after another none is (`QuestionIsShown`, `NoneLost`). `shown` is only a
    mark; both properties look at the places of the screens instead.
16. `ActiveScreenPresents`, checked in place of the invariant of `InputBridgeOverlap`: the presenter is set in `onCreate` only: when a second editor is
    closed, the first one is in front again without being the presenter.
17. `LineIsFreed`, checked in place of the properties of `InputBridgeWait`: the input line goes on waiting for a question whose request
    has returned by itself; the next command typed is swallowed.

18. What passes for installed need not be whole, though `package_ops.h:27-28` and `cache.h:38`
    rely on the checksum for that. `InstalledIsWhole` holds when one shell installs, one
    publishes and no version goes back to a tree that another had replaced (`Orderly`); each of
    these is needed. Checked in place of the invariants of `PackageStore.cfg`, `ManyWhole`
    and `ReturnedWhole` fail. Two shells that install one publication: the second empties a file
    (`archive.cpp:140`) when the first has just written `.checksum`, and until it has written the file,
    or for good when it is killed there, the checksum vouches for an empty file. One shell:
    a kill leaves half of a new tree under the checksum of the old one (`package_ops.cpp:86`
    comes before `88`), and publishing the old tree again makes that checksum the right one.
    When two shells publish the same version, the one that was slow may announce an archive
    that the other has replaced meanwhile, with the same result (35 steps).
    For the same reason `LockedCanBeImported` says that the file is there, not that it
    is whole: an import between `140` and `141`, or after a kill there, reads an empty module.

Seen in the models without a configuration of their own: two programs that ask
at once share one input line, so the second question takes the place of the
first; an abandoned worker that asks again writes its question into the section
of the run that executes then; after a `}` that the editor moves to the left the
cursor is before the brace and not behind it. In the live server, a `Feed`
decided before an editor's push overwrites what the push showed; and since
`onFrame` of `client/index.html` takes whatever comes (frames carry no number),
what is on the screen meanwhile may go back to an older text before it settles.

## 5. The proofs

For every value of the constants, under the named assumptions of the modules
(`ConstantsAssumption`, `BridgeAssumption`, `FlowAssumption`, `StoreAssumption`,
`RegistryAssumption`, `RootIsNoPackage`, `EditorAssumption`), which
say only that bounds are numbers, that a cap or a deadline is at least one, that some
sets are finite or subsets of others, that an archive has files, the one an import
reads among them, that the project is not one of its own packages, and that documents
and keys are made of bytes, those that the editor tells apart among them.

`WellOrder` has the two facts about numbers that the proofs share: a set of them has a
least element, and induction, with a set of numbers in the place of the operator that
the library's theorem takes (the provers cannot instantiate an operator, a set they can).

`JobSchedulerProofs`. The central invariant is `StatusByPlace`: jobs up to
`taken - 1` have ended, those after `taken` are queued or cancelled, and the
status of `taken` follows from where `runJob` stands. Types alone are not
inductive (nothing would tell the index in `Take` from a job that has ended),
and `InOrder` is not either. From it, and from `StatusStep` (the lemma that
lists the ways in which one step can change statuses):

| Theorem | Statement | Besides `StatusByPlace` it needs |
|---|---|---|
| `TypeCorrect` | `[](TypeOK /\ StatusByPlace)` | the verdict is set where the catch block uses it; a number is left while `submit` is between its critical sections |
| `FinalStatus` | `TerminalIsFinal` | `StatusStep` |
| `Ordered` | `[]InOrder` | - |
| `Capped` | `[](PendingCap /\ PendingIsListed)` | `RoomToAdd`: the place found free by the check is still free at the insertion, since only the main thread adds |
| `StopEmptiesQueue` | `[]StopLeavesNoneQueued` | `SnapshotCoversQueue`: while `stopAll` works, whatever is still queued is in its snapshot |
| `LiveViewClosed` | `[]LiveViewEnds` | `SealedIsOver`: a sealed job has ended, so the listener's test fails |
| `CallersTold` | `[](CallbackTellsOutcome /\ CallbacksNotLeaked)` | `SealedIsOver` and `CallbackInv`: a callback stays registered until `runJob` posts it, and a run is sealed once |
| `StrangersAbandoned` | `[]OnlyAbandonedStray` | `TranscriptInv`: while the queue thread has a run in hand the open section is that run's, and a program still at work belongs to that run or to one that was abandoned |
| `AskingIsNoTimeout` | `NoTimeoutWhileAsking` | `ClockRuns`: between two ticks the clock is below its limit, so the tick that passes it is one that counted, and none counts while the run asks |
| `PinnedStay` | `PinnedKept` | - |
| `OldestGoFirst` | `TrimDropsOldest` | that `Trim` takes numbers from below until the cap is met or nothing can go: `LeastNatural` |
| `Implements` | `Spec => RQ!Safety` | what the theorems above it establish; a step that changes no status is a stutter |

`InputBridgeProofs`. `BridgeInv` says that a thread has a question of its own
exactly while it is in `request`, that nothing refers to a question not asked
yet, and how answers, `done` and results go together; `CreatedInOrder` that
screens come in the order of their numbers. From them:

| Theorem | Statement |
|---|---|
| `BridgeTypeCorrect` | `[]TypeOK` |
| `NewestPresents` | `[]PresenterIsNewest`, by induction with `CreatedInOrder` |
| `AnswersStand` | `FirstAnswerStands`: the answer on its way is for a question that has none (`AnswersAndResults`) |
| `BridgeImplements` | `Spec => AU!Safety`; an answer is offered at the test of `deliver` and accepted when it is set; the mapping counts a request as returned when it sets `done`, since an answer may still come between the end of `await` and that assignment |
| `NoneLost` | `Spec /\ []OneScreen => []NoQuestionLost`, when one thread asks (`OneThread`) |

`NoneLost` needs `Listed`, that every question not done is in the list of `pending` and
each one there belongs to a thread, and `Alone`, that no screen is created after one that
exists: then the screen destroyed is the presenter, and what it showed is taken out of
`shown`. Without the two premises the property is false: a newer screen makes `clearPresenter`
of the older one do nothing (`InputBridgeOverlap`, section 4), and a second question takes
the place of the first on the screen.

`FlowEngineProofs`, for any number of threads. `FlowInv` is `Types` (the shapes
of sessions, engines and threads), `Links` (what a thread, a frame or a history
names exists) and `OneOwner` (the flow of a thread is nobody else's, and its id
enters the registry once, by its thread). `RunningReachable` is inductive beside
it. The lemmas about `Trimmed`, `MovedBack` and `Kept` say what the two prunings
keep: every entry that runs, and no entry twice.

| Theorem | Statement |
|---|---|
| `FlowTypes` | `Spec => []TypeOK` |
| `RunningFlowsReachable` | `Spec => []RunningReachable` |
| `RegistryBounded` | `Spec => []RegistryBound` |
| `ChainsKeepShape` | `Spec => []ChainShape` |

`RegistryBound` is about lengths, and a length says nothing of where in the list the
running flows are. `LooseRegistry` does: an entry that runs, `d` places before the end
and with `g` running flows up to it, has `d + 2g` at most the bound. A flow that enters
adds one to every `d`; if the list is then trimmed to the cap, `d` and `g` are small
enough by themselves; if not, the oldest entry runs and moves to the back, which adds one more
to every other `d` and takes one from every other `g`. The first form of the bound,
the cap and the flows that run, was found false when the proof was tried: flows that an
exception left running are still in the list after others have come and gone, and a run
with five flows shows a registry of four entries with a cap of one. `MostRunning`
counts the threads and the flows that no thread has any more.

`ChainShape` compares any two neighbours of a chain. `ChainInv` gives it the other half: a
frame that is past its input knows the last node of its chain, RUNNING while the frame is in
it and SUCCESS otherwise, a frame at its input has no node yet, no two frames of any two
threads are in the same chain, and a new chain gets a number no node has. What a step adds
then comes after a success, and what follows a cut is skipped; this needs no assumption
about the number of threads, though a replay on a second one mixes chains in one session.

`FlowRecordProofs`, for one thread (`OneThread`, the condition under which the
properties hold at all, see section 4). `SoloInv` adds to `FlowInv` that an idle
thread has no frames, that the session of a busy one is RUNNING and active, that all its
frames write to that session, and that the nodes of its open frames are RUNNING
and distinct: without the last part the end of an inner chain could change a node
that an outer one still has to end. Every step is then `Quiet`, `Began`, `Finished` or `Grew`, and those are a
stutter, `Begin`, `End` and `Write` of `FlowRecord`.

| Theorem | Statement |
|---|---|
| `ChainsWriteToOwnSession` | `OneThread`: `Spec => []OwnSession` |
| `FlowsKeepRecord` | `OneThread`: `Spec => IsRecord`, the refinement of `FlowRecord` |

Its second part is about the flag and the verdict. `OneMoreNode` speaks of one flow and says
nothing of the chains that wait outside the innermost, each of which might start its
next stage when the inner one returns. `StopInv` adds what rules that out: every chain
but the innermost waits inside a node (`StackOK`), so a chain that is due to start one
belongs to a flow that has started none since its cancel, and a flow counts at most one
(`Lean`). `WholeInv` adds that a flow not stopped, or ended SUCCESS, has a node for
each chain it came to, but for a chain still at its input, and no node cut short
(`Accounts`), and that an exception is only in chains that have their node
(`UnwindsOpen`). The flag may go up between the look at it and the status, so a run that
has found it down needs a promise of its own that no later cancel takes back
(`Settled`): SUCCESS then says that nothing was stopped, not that the flag is down.

| Theorem | Statement |
|---|---|
| `CancelStopsSoon` | `OneThread`: `Spec => []OneMoreNode` |
| `SuccessMeansComplete` | `OneThread`: `Spec => []SuccessIsComplete` |

`PackageStoreProofs`, for any number of shells, versions and publications, any files in
each archive, every scene of commands, and a kill before any file operation. `StoreInv` has
five parts beside types:

- `AtWork`: a shell stands only where a command it was given has steps. This is what turns
  the conditions of the properties, which speak of scenes (`NobodyPurges`,
  `OneInstaller`, `OnePublisher`), into facts about who can be where.
- `OnlyPublished`: what is in the registry, the cache, the store or the hands of a command
  is absent, just emptied, or of a tree that this version was published with.
- `EntryStays`: where there is a checksum or a lock, the import file is there. An
  unpacking empties files and takes none away; only a purge removes one.
- `WholeInv`: for `InstalledIsWhole`. Three facts together: the publisher is about to
  announce the newest tree of the version (`AsPublished`); until it has, that tree is in no
  checksum and in no plan (`Unheard`, from `OnlyPublished` and that no tree returns); and an
  install never works over what passes for installed (`AsAnnounced`), where "passes" counts the
  newest tree as announced already (`Passes`). A file that is emptied, for a moment or for
  good, is then never beside the checksum that the registry announces, nor beside the one
  that it will announce next.
- `SteadyInv`: an install that nobody disturbs, on a whole registry entry, finds in the
  cache what it looks for at each of its steps, or brings it there.

| Theorem | Statement |
|---|---|
| `StoreTypes` | `Spec => [](TypeOK /\ AtWork /\ OnlyPublished)` |
| `LockedImports` | `Spec => []LockedCanBeImported` |
| `InstalledWhole` | `Spec => []InstalledIsWhole` |
| `StoreHeals` | `Spec => []HealsItself` |

`ResolverProofs`, for any packages, any registry that lists finitely many versions of
each (`RegistryAssumption`) and constraints of every form. Beside types:

- `Queued`: a name is asked for exactly when it waits or has a version. At the end, when
  nothing waits, whatever is asked for has one.
- `NewestOfAccepted` is inductive once two things are known: a new request sends its name
  back to the queue, and the interval a turn keeps accepts what every constraint on the name
  accepts (`IntersectionMatches`). That in turn is because to tighten an end is a strict order,
  and a finite set of constraints has one that no other tightens.
- `Heard`: every request of the project and of each version chosen is recorded, or is
  among those still to be added.
- `Walk`: the calls of `emit` in progress are a path from the project on, and what a call
  has left behind is listed or further along that path. `emit` skips a name that has been
  entered, not only one that is listed; since there is no cycle (`NoWayBack`), a name
  skipped is never on the path, so it is listed.

| Theorem | Statement |
|---|---|
| `ResolverTypes` | `Spec => []TypeOK` |
| `ChosenIsNewest` | `Spec => []NewestOfAccepted` |
| `CaretsHold` | `Spec => []CaretKeepsLeading` |
| `ResolutionIsSound` | `Spec => []Sound` |

`EdgesAreActual` is not proved: it is false (section 4), and what `Sound` needs is only that
the edges of a version chosen are there, whatever else is.

`EditorEngineProofs`, for every alphabet with the bytes the engine tells apart, all
documents, keys and texts to paste (any length, any number of lines), and every
`kMaxHistory`. The argument is about texts, and the engine knows only lines and positions;
three groups of lemmas lead from one to the other:

- `JoinedSplit` (`getText` gives back what `setText` was given) and `SplitGlues`: the
  lines of two texts in a row are those of the one glued to those of the other at the line
  between them.
- A position is the end of a first part of the text (`PosAfter`): each one in the text is
  (`PositionCuts`), of one first part only (`PosInjective`), and in the same order
  (`PosOrder`). A range therefore cuts the text in three.
- `RawIsReplace`, `RangeIsText`, `EndIsPos`: what `applyRawReplace`, `textOfRange` and
  `endPositionForInsertedText` compute from three lines at most is what is meant, the
  middle part replaced.

`Remembered` is the invariant: there is a list of texts before the present one and one of
those undone, and each record on either stack is `Valid` between two neighbours, that is,
it has the middle parts of both, where they begin and end, and two cursors that are in
their text. `CursorInText` is not inductive without it, since `undo` takes the cursor from
a record. `Merged` keeps it because of `PosInjective`: typing is merged when the new
record starts at the position where the last one ended, and only then is it known that
nothing lies between the two. `TextsAre` says that the texts of the invariant are those
the refinement mapping computes, by undoing and redoing the records one after another;
no witness has to be carried along.

| Theorem | Statement |
|---|---|
| `AlwaysRemembered` | `Spec => []Remembered` |
| `CursorStays` | `Spec => []CursorInText` |
| `UndoIsExact` | `MCSpec => IsHistory`, the refinement of `EditHistory` |
| `HistoryBounded` | `Spec => []RecordsBounded`: both stacks together hold at most `kMaxHistory` records |

`HistoryBounded` is checked by no run: `redo` pushes a record without the test that
`pushUndo` makes, and what bounds the stack is that each such record was taken from it by
`undo` before.

Only model-checked: everything with `~>` or `<>` and the fairness parts of the
refinements (liveness and ENABLED are out of the prover's reach); all that is
said of living variables and the bytecode machine, whose recursive operators the
prover does not handle; that a resolution ends (`Ends`); the live server.

## 6. What is not modelled

Most of the C++ by size has no state that two operations could disagree about:
`rin_stdlib_libs.h`, a fifth of all lines, is Rin source in string literals; most of
`rin_interpreter.cpp` and of `rin_extra_natives*.cpp` are natives, independent
functions from values to values; lexer, parser, `rinc` and the terminal work on
one text from start to end; CLC, `binfmt`, signing and the codecs are file formats.
A model of them would repeat the code. What the models cover are the parts in
which an order of events, a failure, a limit or a long sequence decides.

Left out of modelled parts: of the scheduler, `notifyChanged` and its batching (the
UI's copy of the list); of the transcript, history, search, colours; of
`MainActivity` and `RinTerminalView`, all that does not concern questions (an
Activity destroyed with its process ends the bridge as well, so there is nothing
to recover); of the flow engine, the `@end`, `@ok` and `@fail` blocks that `run` executes
after the program or its error; of the interpreter, value types, modules and natives; of the machine, text,
maps, classes, imports, the index and property instructions; of the editor,
re-indentation and snippets (a `replaceRange` and a `setCursor` each), Passkit
comments, highlighting, completion; of the package manager, `add` and `remove` (they edit
the manifest, then install), the HTTP registry, login; of the live server,
sources that do not parse, deleted files, media, resizing, inspection, pages
that animate, hidden tabs.

Not modelled at all: Indsin's layout and drawing; the loader UI; language packs,
whose hazard (a crash between the two renames of an installation) is listed; the Go
interpreter; store, accounts, publishing and export, which talk to services
outside the repository.

## 7. Plan

1. `RunHistory`: snapshots posted by two threads, the batch of stream notifications,
   `attach` and `detach` of overlapping screens. It composes with `JobScheduler`.
2. `PackInstall`: shared downloads, cancel and restart, the two renames, crashes at
   every step, `cleanupLeftovers`. Abstract: an atomic replacement.
3. `LoaderTicker`: the ticker threads of `loader_ui/library_loader_ui.cpp`, started,
   suspended and joined from two sides.
4. `Gateway`: slots, deadlines, goroutines left behind.

Theorems worth proving next: `LeavesClean` and `DepthIsCalls` for every program. The
compiler's recursive operators have to leave the machine's module first; what a proof
needs of them, that every jump of compiled code agrees on the height of the stacks, would
be an assumption on the code the machine is given, checked by TLC for the programs of
`MCBytecodeVm`. And that a browser of the live server never shows an older document after
a newer one, on one stream.
