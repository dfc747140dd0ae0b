---------------------------- MODULE JobScheduler ----------------------------
(***************************************************************************)
(* RinJobScheduler (RinJobScheduler.kt): every run of a Rin program in the *)
(* IDE goes through this object.  Three kinds of thread meet in it:        *)
(*   - the main thread: submit, cancel, stopAll, togglePin, clear;         *)
(*   - the single thread of queueExecutor, which executes runJob;          *)
(*   - one thread of workerPool per run, inside the native engine, calling *)
(*     back the stream listener and the input handler.  A worker whose run *)
(*     was stopped or timed out is abandoned and goes on by itself.        *)
(*                                                                         *)
(* A job is its number: submit runs on the main thread only, so the order  *)
(* of the list `jobs` is the order of the numbers and a set stands for it. *)
(* What waits in queueExecutor is the numbers taken+1..counter.            *)
(***************************************************************************)
EXTENDS Naturals, FiniteSets, TerminalBuffer

CONSTANTS
    MaxSubmits,    \* bound on the counter: how many runs are ever submitted
    MaxPending,    \* MAX_PENDING: cap on the jobs QUEUED or RUNNING
    MaxHistory,    \* MAX_HISTORY: cap on the list, pinned and pending jobs aside
    TimeoutTicks,  \* TIMEOUT_MS / tickMs: active ticks after which a run is abandoned
    MaxLiveLines,  \* MAX_LIVE_LINES: cap on the live view of one job
    MaxChunks,     \* bound on the chunks one program emits
    MaxAsks,       \* bound on the questions one program asks
    ReplRuns,      \* the submissions made with a callback (the terminal's REPL lines)
    Pinnable       \* bound on the user's choices: the jobs that are ever pinned

ASSUME ConstantsAssumption ==
    /\ MaxSubmits \in Nat /\ MaxPending \in Nat /\ MaxHistory \in Nat
    /\ TimeoutTicks \in Nat \ {0} /\ MaxLiveLines \in Nat
    /\ MaxChunks \in Nat /\ MaxAsks \in Nat
    /\ ReplRuns \subseteq 1 .. MaxSubmits /\ Pinnable \subseteq 1 .. MaxSubmits

Job == 1 .. MaxSubmits

Pending  == {"QUEUED", "RUNNING"}
Terminal == {"SUCCESS", "ERROR", "TIMEOUT", "CANCELLED"}
Status   == {"NONE"} \cup Pending \cup Terminal   \* NONE: not submitted yet

VARIABLES
    \* the list and the fields of its jobs
    counter,        \* the last number given to a job
    jobs,           \* the jobs in the list (history and pending)
    status,         \* RinJob.status
    pinned,         \* RinJob.pinned, the jobs for which it is true
    stopRequested,  \* RinJob.stopRequested, likewise
    waiting,        \* RinJob.waitingForInput, likewise
    sealed,         \* the jobs whose finishedAt was set by runJob
    liveLines,      \* RinJob.liveLines, as their number
    callbacks,      \* the keys of finishCallbacks
    posted,         \* the callbacks posted to the main thread, with their argument
    \* the main thread
    mpc,            \* "idle", "adding" (inside submit), "scanning", "stopping" (inside stopAll)
    stopRunning,    \* stopAll's snapshot: the running jobs not yet marked
    stopQueued,     \* stopAll's snapshot: the queued jobs not yet cancelled
    \* the queue thread
    qpc,            \* where runJob stands; "idle" between two jobs
    taken,          \* the last job taken from the queue: the one runJob is about
    activeTicks,    \* activeMs of awaitActive, in ticks
    verdict,        \* the status the catch block is about to set, "NONE" outside it
    \* the workers
    wpc,            \* what the worker of each job is doing
    outcome,        \* the state of its Future; "cancelled" also interrupts the thread
    chunks, asks,   \* how many chunks and questions each program has produced
    \* the shared transcript
    term

listVars   == <<counter, jobs, pinned, callbacks>>
jobVars    == <<stopRequested, sealed, liveLines, posted>>
mainVars   == <<mpc, stopRunning, stopQueued>>
queueVars  == <<qpc, taken, activeTicks, verdict>>
workerVars == <<wpc, outcome, chunks, asks, waiting>>
vars == <<listVars, status, jobVars, mainVars, queueVars, workerVars, term>>

QueuePc  == {"idle", "launch", "await", "expired", "abandon", "mark", "seal", "report", "call"}
WorkerPc == {"none", "native", "chunk", "asking", "answered", "returned"}
Outcome  == {"none", "ok", "error", "cancelled"}

TypeOK ==
    /\ counter \in 0 .. MaxSubmits
    /\ taken \in 0 .. MaxSubmits
    /\ status \in [Job -> Status]
    /\ jobs \subseteq Job /\ pinned \subseteq Job /\ stopRequested \subseteq Job
    /\ waiting \subseteq Job /\ sealed \subseteq Job /\ callbacks \subseteq Job
    /\ liveLines \in [Job -> 0 .. MaxLiveLines]
    /\ posted \subseteq [job : Job, status : Terminal]
    /\ mpc \in {"idle", "adding", "scanning", "stopping"}
    /\ stopRunning \subseteq Job /\ stopQueued \subseteq Job
    /\ qpc \in QueuePc
    /\ activeTicks \in 0 .. TimeoutTicks
    /\ verdict \in {"NONE", "CANCELLED", "TIMEOUT"}
    /\ wpc \in [Job -> WorkerPc]
    /\ outcome \in [Job -> Outcome]
    /\ chunks \in [Job -> 0 .. MaxChunks]
    /\ asks \in [Job -> 0 .. MaxAsks]
    /\ term \in Buffers(Job)

Init ==
    /\ counter = 0 /\ taken = 0
    /\ status = [j \in Job |-> "NONE"]
    /\ jobs = {} /\ pinned = {} /\ stopRequested = {} /\ waiting = {} /\ sealed = {}
    /\ callbacks = {} /\ posted = {}
    /\ liveLines = [j \in Job |-> 0]
    /\ mpc = "idle" /\ stopRunning = {} /\ stopQueued = {}
    /\ qpc = "idle" /\ activeTicks = 0 /\ verdict = "NONE"
    /\ wpc = [j \in Job |-> "none"]
    /\ outcome = [j \in Job |-> "none"]
    /\ chunks = [j \in Job |-> 0] /\ asks = [j \in Job |-> 0]
    /\ term = EmptyBuffer

-----------------------------------------------------------------------------
(* The main thread                                                         *)

PendingJobs == {j \in jobs : status[j] \in Pending}

\* Neither QUEUED nor RUNNING (a job of the list has been submitted), nor pinned.
Removable(j) == status[j] \in Terminal /\ j \notin pinned

\* trimHistoryLocked: from the oldest on, drop removable jobs until the
\* overflow is gone.  A job goes when fewer removable ones precede it than
\* the list has to lose.
Trim(list) ==
    LET older(j) == {i \in list : i < j /\ Removable(i)}
    IN  {j \in list : ~ (/\ Removable(j)
                         /\ Cardinality(older(j)) + MaxHistory < Cardinality(list))}

BelowCap == Cardinality(PendingJobs) < MaxPending

\* submit, first critical section: the pending count is below the cap.  When it
\* is not, submit returns null and nothing changes.
SubmitCheck ==
    /\ mpc = "idle" /\ counter < MaxSubmits
    /\ BelowCap
    /\ mpc' = "adding"
    /\ UNCHANGED <<listVars, status, jobVars, stopRunning, stopQueued, queueVars, workerVars, term>>

\* submit, the rest: number the job, register its callback, add it, trim the
\* history and hand the job to queueExecutor (which nothing ever shuts down,
\* so it rejects no task).
SubmitAdd ==
    LET n == counter + 1
    IN  /\ mpc = "adding"
        /\ mpc' = "idle"
        /\ counter' = n
        /\ status' = [status EXCEPT ![n] = "QUEUED"]
        /\ callbacks' = callbacks \cup ({n} \cap ReplRuns)
        /\ jobs' = Trim(jobs \cup {n})
        /\ UNCHANGED <<pinned, jobVars, stopRunning, stopQueued, queueVars, workerVars, term>>

\* Mutant: cancel takes running jobs too.
Waits_OrRuns(n) == status[n] \in Pending

\* The test inside cancel's critical section.
Waits(n) == status[n] = "QUEUED"

\* What cancel does to a job that is still QUEUED: the check and the change of
\* status are one critical section of the job.  Removing the callback after it
\* races with nothing, since runJob returns at once for a CANCELLED job.
CancelQueued(n) ==
    /\ status' = IF Waits(n) THEN [status EXCEPT ![n] = "CANCELLED"] ELSE status
    /\ callbacks' = IF Waits(n) THEN callbacks \ {n} ELSE callbacks

\* cancel, from the list of runs.
Cancel(n) ==
    /\ mpc = "idle" /\ n \in jobs /\ Waits(n)
    /\ CancelQueued(n)
    /\ UNCHANGED <<counter, jobs, pinned, jobVars, mainVars, queueVars, workerVars, term>>

\* Mutant: pinned jobs are left in the queue.
QueuedJobs_SkipsPinned == {j \in jobs \ pinned : status[j] = "QUEUED"}

QueuedJobs == {j \in jobs : status[j] = "QUEUED"}

\* stopAll, first: what runs.  The lock of the list is held, the jobs' own are not, so the queue
\* thread may start a job between this scan and the next, which is then in neither.
StopScanRunning ==
    /\ mpc = "idle" /\ PendingJobs # {}
    /\ mpc' = "scanning"
    /\ stopRunning' = {j \in jobs : status[j] = "RUNNING"}
    /\ UNCHANGED <<listVars, status, jobVars, stopQueued, queueVars, workerVars, term>>

\* stopAll, still under the lock of the list: what is queued.
StopScanQueued ==
    /\ mpc = "scanning"
    /\ mpc' = "stopping"
    /\ stopQueued' = QueuedJobs
    /\ UNCHANGED <<listVars, status, jobVars, stopRunning, queueVars, workerVars, term>>

\* stopAll, next: ask the running ones to stop.
StopMark ==
    /\ mpc = "stopping" /\ stopRunning # {}
    /\ stopRequested' = stopRequested \cup stopRunning
    /\ stopRunning' = {}
    /\ UNCHANGED <<listVars, status, sealed, liveLines, posted, mpc, stopQueued, queueVars,
                   workerVars, term>>

\* stopAll, then: cancel the queued ones, oldest first, one lock at a time.
StopCancel(n) ==
    /\ mpc = "stopping" /\ stopRunning = {}
    /\ n \in stopQueued /\ \A i \in stopQueued : n <= i
    /\ CancelQueued(n)
    /\ stopQueued' = stopQueued \ {n}
    /\ UNCHANGED <<counter, jobs, pinned, jobVars, mpc, stopRunning, queueVars, workerVars, term>>

StopReturn ==
    /\ mpc = "stopping" /\ stopRunning = {} /\ stopQueued = {}
    /\ mpc' = "idle"
    /\ UNCHANGED <<listVars, status, jobVars, stopRunning, stopQueued, queueVars, workerVars, term>>

TogglePin(n) ==
    /\ mpc = "idle" /\ n \in jobs \cap Pinnable
    /\ pinned' = IF n \in pinned THEN pinned \ {n} ELSE pinned \cup {n}
    /\ UNCHANGED <<counter, jobs, callbacks, status, jobVars, mainVars, queueVars, workerVars,
                   term>>

\* clear: only what is finished and not pinned leaves the list.
ClearHistory ==
    /\ mpc = "idle"
    /\ jobs' = {j \in jobs : ~Removable(j)}
    /\ UNCHANGED <<counter, pinned, callbacks, status, jobVars, mainVars, queueVars, workerVars,
                   term>>

\* RinTerminal.clear, which the same button or the start of a run calls.
ClearTerminal ==
    /\ mpc = "idle"
    /\ term' = Clear(term)
    /\ UNCHANGED <<listVars, status, jobVars, mainVars, queueVars, workerVars>>

Main ==
    \/ SubmitCheck \/ SubmitAdd
    \/ StopScanRunning \/ StopScanQueued \/ StopMark \/ StopReturn
    \/ ClearHistory \/ ClearTerminal
    \/ \E n \in Job : Cancel(n) \/ StopCancel(n) \/ TogglePin(n)

-----------------------------------------------------------------------------
(* The queue thread: runJob                                                *)

\* The next job was cancelled while it waited: runJob returns.
SkipCancelled ==
    /\ qpc = "idle" /\ taken < counter /\ status[taken + 1] = "CANCELLED"
    /\ taken' = taken + 1
    /\ UNCHANGED <<listVars, status, jobVars, mainVars, qpc, activeTicks, verdict, workerVars,
                   term>>

\* runJob's first critical section.
Take ==
    /\ qpc = "idle" /\ taken < counter /\ status[taken + 1] # "CANCELLED"
    /\ taken' = taken + 1
    /\ status' = [status EXCEPT ![taken + 1] = "RUNNING"]
    /\ qpc' = "launch"
    /\ UNCHANGED <<listVars, jobVars, mainVars, activeTicks, verdict, workerVars, term>>

\* RinTerminal.onJobStart, then the worker is started and waited for.
Launch ==
    /\ qpc = "launch"
    /\ term' = StartJob(term, taken)
    /\ wpc' = [wpc EXCEPT ![taken] = "native"]
    /\ qpc' = "await"
    /\ UNCHANGED <<listVars, status, jobVars, mainVars, taken, activeTicks, verdict, outcome,
                   chunks, asks, waiting>>

\* future.get(tickMs) returns the engine's result (or throws what the engine threw).
GetResult ==
    /\ qpc = "await" /\ outcome[taken] \in {"ok", "error"}
    /\ status' = [status EXCEPT ![taken] = IF outcome[taken] = "ok" THEN "SUCCESS" ELSE "ERROR"]
    /\ activeTicks' = 0
    /\ qpc' = "seal"
    /\ UNCHANGED <<listVars, jobVars, mainVars, taken, verdict, workerVars, term>>

\* future.get(tickMs) times out.
Tick ==
    /\ qpc = "await" /\ outcome[taken] = "none"
    /\ qpc' = "expired"
    /\ UNCHANGED <<listVars, status, jobVars, mainVars, taken, activeTicks, verdict, workerVars,
                   term>>

\* Mutant: the clock never advances.
Ticks_Frozen == activeTicks

StopSeen == taken \in stopRequested

\* The body of awaitActive's catch: a stop request comes first, then the clock,
\* which stands still while the program waits for the user.
Ticks == IF taken \in waiting THEN activeTicks ELSE activeTicks + 1

StopTick ==
    /\ qpc = "expired" /\ StopSeen
    /\ verdict' = "CANCELLED"
    /\ activeTicks' = 0
    /\ qpc' = "abandon"
    /\ UNCHANGED <<listVars, status, jobVars, mainVars, taken, workerVars, term>>

ClockTick ==
    /\ qpc = "expired" /\ ~StopSeen
    /\ Ticks < TimeoutTicks
    /\ activeTicks' = Ticks
    /\ qpc' = "await"
    /\ UNCHANGED <<listVars, status, jobVars, mainVars, taken, verdict, workerVars, term>>

TimeoutTick ==
    /\ qpc = "expired" /\ ~StopSeen
    /\ Ticks >= TimeoutTicks
    /\ verdict' = "TIMEOUT"
    /\ activeTicks' = 0
    /\ qpc' = "abandon"
    /\ UNCHANGED <<listVars, status, jobVars, mainVars, taken, workerVars, term>>

\* future.cancel(true): interrupts the worker and cancels the Future, unless
\* the engine has returned meanwhile.
Abandon ==
    /\ qpc = "abandon"
    /\ outcome' = IF outcome[taken] = "none"
                  THEN [outcome EXCEPT ![taken] = "cancelled"]
                  ELSE outcome
    /\ qpc' = "mark"
    /\ UNCHANGED <<listVars, status, jobVars, mainVars, taken, activeTicks, verdict, wpc, chunks,
                   asks, waiting, term>>

\* Mutant: the TIMEOUT branch forgets the status.
AbandonedStatus_Forgotten ==
    IF verdict = "TIMEOUT" THEN status ELSE [status EXCEPT ![taken] = verdict]

AbandonedStatus == [status EXCEPT ![taken] = verdict]

\* The catch block's critical section.
MarkAbandoned ==
    /\ qpc = "mark"
    /\ status' = AbandonedStatus
    /\ verdict' = "NONE"
    /\ qpc' = "seal"
    /\ UNCHANGED <<listVars, jobVars, mainVars, taken, activeTicks, workerVars, term>>

\* The last critical section: finishedAt, and the live view is dropped.
Seal ==
    /\ qpc = "seal"
    /\ sealed' = sealed \cup {taken}
    /\ liveLines' = [liveLines EXCEPT ![taken] = 0]
    /\ qpc' = "report"
    /\ UNCHANGED <<listVars, status, stopRequested, posted, mainVars, taken, activeTicks, verdict,
                   workerVars, term>>

\* RinTerminal.onJobFinish.
Report ==
    /\ qpc = "report"
    /\ term' = FinishJob(term)
    /\ qpc' = "call"
    /\ UNCHANGED <<listVars, status, jobVars, mainVars, taken, activeTicks, verdict, workerVars>>

\* Mutant: the callback is posted only for a success.
Posted_OnSuccess ==
    IF taken \in callbacks /\ status[taken] = "SUCCESS"
    THEN posted \cup {[job |-> taken, status |-> status[taken]]}
    ELSE posted

Posted ==
    IF taken \in callbacks
    THEN posted \cup {[job |-> taken, status |-> status[taken]]}
    ELSE posted

\* The callback, if there is one, is posted to the main thread with the status.
CallBack ==
    /\ qpc = "call"
    /\ posted' = Posted
    /\ callbacks' = callbacks \ {taken}
    /\ qpc' = "idle"
    /\ UNCHANGED <<counter, jobs, pinned, status, stopRequested, sealed, liveLines, mainVars,
                   taken, activeTicks, verdict, workerVars, term>>

Queue == SkipCancelled \/ Take \/ Launch \/ GetResult \/ Tick
         \/ StopTick \/ ClockTick \/ TimeoutTick \/ Abandon \/ MarkAbandoned \/ Seal \/ Report \/ CallBack

-----------------------------------------------------------------------------
(* The workers: a program in the native engine, and what it calls back     *)

Accepts(j) == status[j] = "RUNNING"

\* merged.takeLast(MAX_LIVE_LINES), on the number of lines.
Appended(n) == IF n < MaxLiveLines THEN n + 1 ELSE n

\* The listener's critical section: a chunk counts only while the job RUNs.
Chunk(j) ==
    /\ wpc[j] = "native" /\ chunks[j] < MaxChunks
    /\ chunks' = [chunks EXCEPT ![j] = @ + 1]
    /\ IF Accepts(j)
       THEN /\ liveLines' = [liveLines EXCEPT ![j] = Appended(@)]
            /\ wpc' = [wpc EXCEPT ![j] = "chunk"]
       ELSE UNCHANGED <<liveLines, wpc>>
    /\ UNCHANGED <<listVars, status, stopRequested, sealed, posted, mainVars, queueVars, outcome,
                   asks, waiting, term>>

\* The listener, after the lock: the chunk goes to the transcript.
ChunkToTerminal(j) ==
    /\ wpc[j] = "chunk"
    /\ \E eol \in BOOLEAN : term' = OnChunk(term, j, eol)
    /\ wpc' = [wpc EXCEPT ![j] = "native"]
    /\ UNCHANGED <<listVars, status, jobVars, mainVars, queueVars, outcome, chunks, asks, waiting>>

\* The input handler: set waitingForInput, write the question, block in
\* RinInputBridge.request.
Ask(j) ==
    /\ wpc[j] = "native" /\ asks[j] < MaxAsks
    /\ asks' = [asks EXCEPT ![j] = @ + 1]
    /\ waiting' = waiting \cup {j}
    /\ term' = Prompt(term, j)
    /\ wpc' = [wpc EXCEPT ![j] = "asking"]
    /\ UNCHANGED <<listVars, status, jobVars, mainVars, queueVars, outcome, chunks>>

\* request returns: with an answer, or with null because the user gave up, the
\* wait ran out or the thread was interrupted.
RequestReturns(j) ==
    /\ wpc[j] = "asking"
    /\ waiting' = waiting \ {j}
    /\ wpc' = [wpc EXCEPT ![j] = "answered"]
    /\ UNCHANGED <<listVars, status, jobVars, mainVars, queueVars, outcome, chunks, asks, term>>

WriteAnswer(j) ==
    /\ wpc[j] = "answered"
    /\ term' = Answer(term)
    /\ wpc' = [wpc EXCEPT ![j] = "native"]
    /\ UNCHANGED <<listVars, status, jobVars, mainVars, queueVars, outcome, chunks, asks, waiting>>

\* The engine returns; the Future keeps the result unless it was cancelled.
EngineReturns(j) ==
    /\ wpc[j] = "native"
    /\ wpc' = [wpc EXCEPT ![j] = "returned"]
    /\ \E result \in {"ok", "error"} :
           outcome' = IF outcome[j] = "none" THEN [outcome EXCEPT ![j] = result] ELSE outcome
    /\ UNCHANGED <<listVars, status, jobVars, mainVars, queueVars, chunks, asks, waiting, term>>

Worker(j) == Chunk(j) \/ ChunkToTerminal(j) \/ Ask(j) \/ RequestReturns(j)
             \/ WriteAnswer(j) \/ EngineReturns(j)

-----------------------------------------------------------------------------
Next == Main \/ Queue \/ \E j \in Job : Worker(j)

Spec == Init /\ [][Next]_vars

\* The queue thread always runs; RinInputBridge.request waits at most
\* MAX_WAIT_MS.  Nothing obliges a program to return, nor the user to act.
FairSpec ==
    /\ Spec
    /\ WF_vars(Queue)
    /\ \A j \in Job : WF_vars(RequestReturns(j))

\* The same with a user who may leave a question unanswered for ever.
SilentUserSpec == Spec /\ WF_vars(Queue)

-----------------------------------------------------------------------------
(* What the scheduler promises                                             *)

\* The jobs that wait or run, whether or not they are in the list.
PendingSet == {j \in Job : status[j] \in Pending}

\* MAX_PENDING holds although submit checks it and adds the job in two
\* critical sections, while the queue thread changes statuses.
PendingCap == Cardinality(PendingSet) <= MaxPending

\* Runs execute in order and never overlap: once a job is past the queue,
\* every job submitted before it has ended, abandoned ones included.
InOrder ==
    \A i, j \in Job :
        i < j /\ status[j] \in {"RUNNING", "SUCCESS", "ERROR", "TIMEOUT"}
            => status[i] \in Terminal

\* An ended job keeps its status whoever races: cancel against runJob's start,
\* stopAll's late cancels, an abandoned worker that returns after all.
TerminalIsFinal ==
    [][\A j \in Job : status[j] \in Terminal => status'[j] = status[j]]_vars

\* A job that waits or runs is in the list: otherwise cancel, stopAll and
\* isRunning, which look only there, could not reach it.
PendingIsListed == \A j \in Job : status[j] \in Pending => j \in jobs

\* What submit's trimming may do: it removes the oldest removable jobs, no more
\* than the overflow, and leaves a longer list only when nothing in it is
\* removable.  Pinned and pending jobs stay.
TrimmedTo(kept, list) ==
    /\ \A j \in list \ kept : /\ Removable(j)
                              /\ \A k \in kept : Removable(k) => j < k
    /\ kept # list => Cardinality(kept) >= MaxHistory
    /\ Cardinality(kept) > MaxHistory => \A k \in kept : ~Removable(k)

TrimDropsOldest ==
    [][counter' # counter => TrimmedTo(jobs', jobs \cup {counter'})]_vars

\* "Never drop a pinned run": whatever removes entries from the list.
PinnedKept == [][jobs \cap pinned \subseteq jobs']_vars

\* When stopAll is about to return, nothing waits in the queue any more (a job
\* that started meanwhile is another matter, see StopAllStopsEverything).
StopLeavesNoneQueued ==
    mpc = "stopping" /\ stopRunning = {} /\ stopQueued = {}
        => \A j \in Job : status[j] # "QUEUED"

\* "Never resurrect a finished job's live view": a worker that goes on emitting
\* after the end of its run adds nothing to it.
LiveViewEnds == \A j \in sealed : liveLines[j] = 0

\* Text of another run reaches the open section only from an abandoned worker.
OnlyAbandonedStray ==
    \A j \in term.streamed \cup term.partial :
        j # term.section => status[j] \in {"TIMEOUT", "CANCELLED"}

\* The clock stands still while the program waits for the user: the tick that
\* abandons a run as TIMEOUT never finds it asking.
NoTimeoutWhileAsking ==
    [][verdict' = "TIMEOUT" /\ verdict # "TIMEOUT" => taken \notin waiting]_vars

\* The caller of a REPL line hears of its end exactly once, with the status
\* that remains, unless the line was cancelled before it started.
CallbackTellsOutcome ==
    posted = {[job |-> j, status |-> status[j]] :
                 j \in {i \in ReplRuns \cap sealed : i # taken \/ qpc = "idle"}}

\* finishCallbacks leaks nothing: an entry belongs to a job that still waits or
\* runs, or that the queue thread is just finishing.
CallbacksNotLeaked ==
    \A j \in callbacks :
        status[j] \in Pending \/ (j = taken /\ qpc \in {"seal", "report", "call"})

\* A runaway program cannot freeze the queue: every submitted run ends.  Its program asks the
\* user MaxAsks times at most; one that asks again for ever stops the clock each time.
EveryRunEnds == \A j \in Job : status[j] = "QUEUED" ~> status[j] \in Terminal

\* A run asked to stop ends even while it waits for an answer nobody gives.
StopTakesEffect ==
    \A j \in Job : j \in stopRequested ~> status[j] \in Terminal

\* The scheduler is a RunQueue.
RQ == INSTANCE RunQueue
IsRunQueue == RQ!Spec

-----------------------------------------------------------------------------
(* The inductive invariants behind these promises                          *)

\* Where runJob has made the job RUNNING and not yet given it its last status.
Executing == {"launch", "await", "expired", "abandon", "mark"}

\* The status of a job follows from its place relative to the queue thread.
StatusByPlace ==
    /\ taken <= counter
    /\ qpc # "idle" => taken > 0
    /\ \A j \in Job :
        /\ j > counter => status[j] = "NONE"
        /\ taken < j /\ j <= counter => status[j] \in {"QUEUED", "CANCELLED"}
        /\ j < taken => status[j] \in Terminal
        /\ j = taken => IF qpc \in Executing THEN status[j] = "RUNNING"
                                             ELSE status[j] \in Terminal

\* The exception that led to the catch block says which status it will set.
VerdictWhenAbandoning == qpc \in {"abandon", "mark"} => verdict # "NONE"

\* Between submit's two critical sections there is a number and a place left.
RoomToAdd ==
    mpc = "adding" => counter < MaxSubmits /\ Cardinality(PendingSet) < MaxPending

\* While stopAll goes through its snapshot, every job still queued is in it.
SnapshotCoversQueue ==
    mpc = "stopping" => \A j \in Job : status[j] = "QUEUED" => j \in stopQueued

\* A job's live view is dropped after its last status is set.
SealedIsOver == \A j \in sealed : status[j] \in Terminal /\ liveLines[j] = 0

\* A callback stays registered until runJob posts it, and a run is sealed once,
\* when it is past the queue.
CallbackInv ==
    /\ callbacks \subseteq ReplRuns
    /\ CallbacksNotLeaked
    /\ \A j \in ReplRuns :
          status[j] \in Pending \/ (j = taken /\ qpc \in {"seal", "report", "call"})
             => j \in callbacks
    /\ \A j \in sealed : j <= taken
    /\ qpc \in Executing \cup {"seal"} => taken \notin sealed
    /\ qpc \in {"report", "call"} => taken \in sealed

\* The open section is that of the run in hand; a program still at work is the
\* one that runs or was abandoned; the result of a run stands only after its
\* program has returned.
TranscriptInv ==
    /\ qpc \in {"await", "expired", "abandon", "mark", "seal", "report"} => term.section = taken
    /\ qpc = "launch" => wpc[taken] = "none"
    /\ \A j \in Job :
        /\ j > taken => wpc[j] = "none"
        /\ wpc[j] \notin {"none", "returned"} => status[j] \in {"RUNNING", "TIMEOUT", "CANCELLED"}
        /\ outcome[j] \in {"ok", "error"} => wpc[j] = "returned"

\* The clock of the run in hand has not reached its limit yet.
ClockRuns == activeTicks < TimeoutTicks

SchedulerInv ==
    /\ CallbackInv /\ TranscriptInv /\ ClockRuns
    /\ StatusByPlace /\ VerdictWhenAbandoning /\ PendingIsListed /\ PendingCap
    /\ RoomToAdd /\ SnapshotCoversQueue /\ SealedIsOver

-----------------------------------------------------------------------------
(* What the comments say, and the code does not do                         *)

\* stopAll "stops what runs now and pulls everything that waits": when it
\* returns, each job still pending has been asked to stop.
StopAllStopsEverything ==
    mpc = "stopping" /\ stopRunning = {} /\ stopQueued = {}
        => \A j \in Job : status[j] \in Pending => j \in stopRequested

\* finishJob "completes what was not streamed of output", the whole of it for a
\* job that streamed nothing: no other run's text is among what was streamed.
OutputShownInFull == qpc = "report" => ShowsWholeOutput(term, taken)
=============================================================================
