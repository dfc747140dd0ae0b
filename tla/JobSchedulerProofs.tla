------------------------- MODULE JobSchedulerProofs -------------------------
(***************************************************************************)
(* Proofs about JobScheduler, for every number of submissions, every cap   *)
(* and every bound on what the programs do.                                *)
(***************************************************************************)
EXTENDS JobScheduler, WellOrder

\* What the types and the place of each job need of each other.
Inv1 == TypeOK /\ StatusByPlace /\ VerdictWhenAbandoning
        /\ (mpc = "adding" => counter < MaxSubmits)

\* Trimming removes entries, and only removable ones.
LEMMA TrimKeeps ==
    ASSUME NEW list
    PROVE  /\ Trim(list) \subseteq list
           /\ \A j \in list : ~Removable(j) => j \in Trim(list)
BY DEF Trim

LEMMA InitInv1 == Init => Inv1
BY ConstantsAssumption DEF Init, Inv1, TypeOK, StatusByPlace, VerdictWhenAbandoning,
   Job, Status, Pending, Terminal, Executing, QueuePc, WorkerPc, Outcome, Buffers,
   EmptyBuffer, NoSection

LEMMA MainInv1 == Inv1 /\ Main => Inv1'
<1> SUFFICES ASSUME Inv1, Main PROVE Inv1'
  OBVIOUS
<1> USE ConstantsAssumption DEF Inv1, TypeOK, StatusByPlace, VerdictWhenAbandoning,
        Job, Status, Pending, Terminal, Executing, listVars, jobVars, mainVars, queueVars, workerVars
<1>1. CASE SubmitCheck
  <2>1. TypeOK'
    BY <1>1 DEF SubmitCheck
  <2>2. StatusByPlace' /\ VerdictWhenAbandoning'
    BY <1>1 DEF SubmitCheck
  <2>3. counter' < MaxSubmits
    BY <1>1 DEF SubmitCheck
  <2> QED
    BY <2>1, <2>2, <2>3
<1>2. CASE SubmitAdd
  <2>2. counter' \in Job /\ counter' = counter + 1 /\ callbacks' \subseteq Job
    BY <1>2 DEF SubmitAdd
  <2>0. jobs' = Trim(jobs \cup {counter'})
    BY <1>2 DEF SubmitAdd
  <2>1. jobs' \subseteq Job
    <3> HIDE DEF StatusByPlace, VerdictWhenAbandoning
    <3> QED
    BY <2>0, <2>2 DEF Trim
  <2>8. UNCHANGED <<pinned, stopRequested, sealed, liveLines, posted,
                    stopRunning, stopQueued, queueVars, workerVars, term>>
    BY <1>2 DEF SubmitAdd
  <2>9. status' \in [Job -> Status] /\ mpc' = "idle"
    BY <1>2, <2>2 DEF SubmitAdd
  <2>10. counter' \in 0 .. MaxSubmits
    BY <2>2
  <2>3. TypeOK'
    <3> HIDE DEF StatusByPlace, VerdictWhenAbandoning, Job, Status
    <3> QED
      BY <2>1, <2>2, <2>8, <2>9, <2>10
  <2>4. VerdictWhenAbandoning' /\ mpc' # "adding"
    BY <1>2 DEF SubmitAdd
  <2>5. status' = [status EXCEPT ![counter'] = "QUEUED"] /\ taken' = taken /\ qpc' = qpc
    BY <1>2, <2>2 DEF SubmitAdd
  <2>6. taken <= counter /\ taken \in Nat /\ counter \in Nat
    OBVIOUS
  <2>7. StatusByPlace'
    <3> SUFFICES ASSUME NEW j \in Job'
                 PROVE  /\ j > counter' => status'[j] = "NONE"
                        /\ taken' < j /\ j <= counter' => status'[j] \in {"QUEUED", "CANCELLED"}
                        /\ j < taken' => status'[j] \in Terminal
                        /\ j = taken' => IF qpc' \in Executing THEN status'[j] = "RUNNING"
                                                             ELSE status'[j] \in Terminal
      BY <2>2, <2>5, <2>6
    <3>1. CASE j = counter'
      BY <3>1, <2>2, <2>5, <2>6
    <3>2. CASE j # counter'
      BY <3>2, <2>2, <2>5, <2>6
    <3> QED
      BY <3>1, <3>2
  <2> QED
    BY <2>3, <2>4, <2>7
<1>3. CASE StopScanRunning \/ StopScanQueued
  BY <1>3 DEF StopScanRunning, StopScanQueued, QueuedJobs
<1>4. CASE StopMark
  BY <1>4 DEF StopMark
<1>5. CASE StopReturn
  BY <1>5 DEF StopReturn
<1>6. CASE ClearHistory
  BY <1>6 DEF ClearHistory
<1>7. CASE ClearTerminal
  BY <1>7 DEF ClearTerminal, Clear, Buffers
<1>8. ASSUME NEW n \in Job, Cancel(n) PROVE Inv1'
  BY <1>8 DEF Cancel, CancelQueued, Waits
<1>9. ASSUME NEW n \in Job, StopCancel(n) PROVE Inv1'
  BY <1>9 DEF StopCancel, CancelQueued, Waits
<1>10. ASSUME NEW n \in Job, TogglePin(n) PROVE Inv1'
  BY <1>10 DEF TogglePin
<1> QED
  BY <1>1, <1>2, <1>3, <1>4, <1>5, <1>6, <1>7, <1>8, <1>9, <1>10 DEF Main

\* Every method of the transcript keeps its type.
LEMMA BufferTypes ==
    ASSUME term \in Buffers(Job), NEW j \in Job, NEW eol \in BOOLEAN
    PROVE  /\ StartJob(term, j) \in Buffers(Job)
           /\ OnChunk(term, j, eol) \in Buffers(Job)
           /\ Prompt(term, j) \in Buffers(Job)
           /\ Answer(term) \in Buffers(Job)
           /\ FinishJob(term) \in Buffers(Job)
BY DEF Buffers, StartJob, OnChunk, Prompt, Answer, FinishJob

LEMMA QueueTypes == Inv1 /\ Queue => TypeOK'
<1> SUFFICES ASSUME TypeOK, StatusByPlace, VerdictWhenAbandoning, Queue PROVE TypeOK'
  BY DEF Inv1
<1>0. /\ qpc # "idle" => taken \in Job
      /\ qpc = "call" => status[taken] \in Terminal
      /\ taken < counter => taken + 1 \in Job /\ taken + 1 \in 0 .. MaxSubmits
  <2>1. taken \in 0 .. MaxSubmits /\ counter \in 0 .. MaxSubmits /\ MaxSubmits \in Nat
    BY ConstantsAssumption DEF TypeOK
  <2>2. qpc # "idle" => taken \in Job
    BY <2>1 DEF StatusByPlace, Job
  <2>3. qpc = "call" => status[taken] \in Terminal
    BY <2>2 DEF StatusByPlace, Executing
  <2>4. taken < counter => taken + 1 \in Job /\ taken + 1 \in 0 .. MaxSubmits
    BY <2>1 DEF Job
  <2> QED
    BY <2>2, <2>3, <2>4
<1> USE ConstantsAssumption DEF TypeOK, VerdictWhenAbandoning,
        Status, Pending, Terminal, QueuePc, WorkerPc, Outcome,
        listVars, jobVars, mainVars, queueVars, workerVars
<1>1. CASE SkipCancelled
  BY <1>1, <1>0 DEF SkipCancelled
<1>2. CASE Take
  BY <1>2, <1>0 DEF Take
<1>3. CASE Launch
  BY <1>3, BufferTypes, <1>0 DEF Launch
<1>4. CASE GetResult
  BY <1>4, <1>0 DEF GetResult
<1>5. CASE Tick
  BY <1>5, <1>0 DEF Tick
<1>6. CASE StopTick
  BY <1>6, <1>0 DEF StopTick
<1>7. CASE ClockTick
  BY <1>7, <1>0 DEF ClockTick, Ticks
<1>8. CASE TimeoutTick
  BY <1>8, <1>0 DEF TimeoutTick
<1>9. CASE Abandon
  BY <1>9, <1>0 DEF Abandon
<1>10. CASE MarkAbandoned
  BY <1>10, <1>0 DEF MarkAbandoned, AbandonedStatus
<1>11. CASE Seal
  BY <1>11, <1>0 DEF Seal
<1>12. CASE Report
  BY <1>12, BufferTypes, <1>0 DEF Report
<1>13. CASE CallBack
  BY <1>13, <1>0 DEF CallBack, Posted
<1> QED
  BY <1>1, <1>2, <1>3, <1>4, <1>5, <1>6, <1>7, <1>8, <1>9, <1>10, <1>11, <1>12, <1>13 DEF Queue

LEMMA QueuePlaces == Inv1 /\ Queue => StatusByPlace' /\ VerdictWhenAbandoning'
                                    /\ mpc' = mpc /\ counter' = counter
<1> SUFFICES ASSUME Inv1, Queue
             PROVE  StatusByPlace' /\ VerdictWhenAbandoning' /\ mpc' = mpc /\ counter' = counter
  OBVIOUS
<1>0. /\ taken \in Nat /\ counter \in Nat /\ status \in [Job -> Status]
      /\ verdict \in {"NONE", "CANCELLED", "TIMEOUT"}
      /\ StatusByPlace /\ VerdictWhenAbandoning
  BY DEF Inv1, TypeOK
<1> USE <1>0, ConstantsAssumption DEF StatusByPlace, VerdictWhenAbandoning,
        Job, Terminal, Executing, listVars, jobVars, mainVars
<1>1. CASE SkipCancelled
  BY <1>1 DEF SkipCancelled
<1>2. CASE Take
  BY <1>2 DEF Take
<1>3. CASE Launch
  BY <1>3 DEF Launch
<1>4. CASE GetResult
  BY <1>4 DEF GetResult
<1>5. CASE Tick
  BY <1>5 DEF Tick
<1>6. CASE StopTick
  BY <1>6 DEF StopTick
<1>7. CASE ClockTick
  BY <1>7 DEF ClockTick, Ticks
<1>8. CASE TimeoutTick
  BY <1>8 DEF TimeoutTick
<1>9. CASE Abandon
  BY <1>9 DEF Abandon
<1>10. CASE MarkAbandoned
  BY <1>10 DEF MarkAbandoned, AbandonedStatus
<1>11. CASE Seal
  BY <1>11 DEF Seal
<1>12. CASE Report
  BY <1>12 DEF Report
<1>13. CASE CallBack
  BY <1>13 DEF CallBack, Posted
<1> QED
  BY <1>1, <1>2, <1>3, <1>4, <1>5, <1>6, <1>7, <1>8, <1>9, <1>10, <1>11, <1>12, <1>13 DEF Queue

LEMMA WorkerTypes == ASSUME NEW j \in Job, TypeOK, Worker(j) PROVE TypeOK'
<1> USE ConstantsAssumption, BufferTypes DEF TypeOK, WorkerPc, Outcome, listVars, jobVars, mainVars, queueVars
<1>1. CASE Chunk(j)
  BY <1>1 DEF Chunk, Appended
<1>2. CASE ChunkToTerminal(j)
  BY <1>2 DEF ChunkToTerminal
<1>3. CASE Ask(j)
  <2>1. term' \in Buffers(Job)
    BY <1>3 DEF Ask
  <2>2. asks' \in [Job -> 0 .. MaxAsks]
    BY <1>3 DEF Ask
  <2> QED
    BY <1>3, <2>1, <2>2 DEF Ask
<1>4. CASE RequestReturns(j)
  BY <1>4 DEF RequestReturns
<1>5. CASE WriteAnswer(j)
  BY <1>5 DEF WriteAnswer
<1>6. CASE EngineReturns(j)
  BY <1>6 DEF EngineReturns
<1> QED
  BY <1>1, <1>2, <1>3, <1>4, <1>5, <1>6 DEF Worker

LEMMA WorkerFrame == ASSUME NEW j \in Job, Worker(j)
                     PROVE  UNCHANGED <<listVars, status, mainVars, queueVars, posted, sealed, stopRequested>>
BY DEF Worker, Chunk, ChunkToTerminal, Ask, RequestReturns, WriteAnswer, EngineReturns, jobVars

LEMMA NextInv1 == Inv1 /\ [Next]_vars => Inv1'
<1>1. Inv1 /\ UNCHANGED vars => Inv1'
  BY DEF Inv1, TypeOK, StatusByPlace, VerdictWhenAbandoning, vars,
     listVars, jobVars, mainVars, queueVars, workerVars
<1> QED
  <2>1. Inv1 /\ Queue => Inv1'
    BY QueueTypes, QueuePlaces DEF Inv1
  <2>2. ASSUME Inv1, NEW j \in Job, Worker(j) PROVE Inv1'
    BY <2>2, WorkerTypes, WorkerFrame
       DEF Inv1, StatusByPlace, VerdictWhenAbandoning, listVars, jobVars, mainVars, queueVars
  <2> QED
    BY <1>1, <2>1, <2>2, MainInv1 DEF Next

\* The state always has its type, and every status agrees with the place of
\* its job relative to the queue thread.
THEOREM TypeCorrect == Spec => [](TypeOK /\ StatusByPlace)
<1>1. Spec => []Inv1
  BY InitInv1, NextInv1, PTL DEF Spec
<1> QED
  BY <1>1, PTL DEF Inv1

-----------------------------------------------------------------------------
(* How a step can change a status: the four operations of RunQueue.        *)

SubmitsOne ==
    /\ mpc = "adding" /\ mpc' = "idle" /\ counter < MaxSubmits
    /\ counter' = counter + 1
    /\ status' = [status EXCEPT ![counter + 1] = "QUEUED"]

CancelsOne(n) ==
    /\ status[n] = "QUEUED" /\ counter' = counter /\ mpc' = mpc
    /\ status' = [status EXCEPT ![n] = "CANCELLED"]

StartsOne(n) ==
    /\ n = taken + 1 /\ qpc = "idle" /\ status[n] = "QUEUED"
    /\ counter' = counter /\ mpc' = mpc
    /\ status' = [status EXCEPT ![n] = "RUNNING"]

EndsOne(n) ==
    /\ status[n] = "RUNNING" /\ counter' = counter /\ mpc' = mpc
    /\ \E s \in Terminal : status' = [status EXCEPT ![n] = s]

KeepsAll ==
    /\ counter' = counter /\ status' = status
    /\ mpc' = "adding" => mpc = "adding" \/ (BelowCap /\ counter < MaxSubmits)

StatusStep ==
    \/ SubmitsOne \/ KeepsAll
    \/ \E n \in Job : CancelsOne(n) \/ StartsOne(n) \/ EndsOne(n)

LEMMA MainStatusStep == Inv1 /\ Main => StatusStep
<1> SUFFICES ASSUME Inv1, Main PROVE StatusStep
  OBVIOUS
<1>1. CASE SubmitCheck
  BY <1>1 DEF SubmitCheck, StatusStep, KeepsAll, listVars
<1>2. CASE SubmitAdd
  <2>1. SubmitsOne
    BY <1>2 DEF SubmitAdd, SubmitsOne, Inv1
  <2> QED
    BY <2>1 DEF StatusStep
<1>3. CASE StopScanRunning \/ StopScanQueued
  BY <1>3 DEF StopScanRunning, StopScanQueued, StatusStep, KeepsAll, listVars
<1>4. CASE StopMark
  BY <1>4 DEF StopMark, StatusStep, KeepsAll, listVars
<1>5. CASE StopReturn
  BY <1>5 DEF StopReturn, StatusStep, KeepsAll, listVars
<1>6. CASE ClearHistory
  BY <1>6 DEF ClearHistory, StatusStep, KeepsAll, mainVars
<1>7. CASE ClearTerminal
  BY <1>7 DEF ClearTerminal, StatusStep, KeepsAll, mainVars, listVars
<1>8. ASSUME NEW n \in Job, Cancel(n) PROVE StatusStep
  BY <1>8 DEF Cancel, CancelQueued, Waits, StatusStep, CancelsOne, mainVars
<1>9. ASSUME NEW n \in Job, StopCancel(n) PROVE StatusStep
  BY <1>9 DEF StopCancel, CancelQueued, Waits, StatusStep, CancelsOne, KeepsAll
<1>10. ASSUME NEW n \in Job, TogglePin(n) PROVE StatusStep
  BY <1>10 DEF TogglePin, StatusStep, KeepsAll, mainVars
<1> QED
  BY <1>1, <1>2, <1>3, <1>4, <1>5, <1>6, <1>7, <1>8, <1>9, <1>10 DEF Main

LEMMA QueueStatusStep == Inv1 /\ Queue => StatusStep
<1> SUFFICES ASSUME Inv1, Queue PROVE StatusStep
  OBVIOUS
<1>0. counter' = counter /\ mpc' = mpc
  BY QueuePlaces
<1>1. CASE Take
  <2>1. taken + 1 \in Job /\ status[taken + 1] = "QUEUED"
    <3>1. taken \in Nat /\ counter \in Nat /\ counter <= MaxSubmits /\ taken < counter
      BY <1>1, ConstantsAssumption DEF Take, Inv1, TypeOK
    <3>2. taken + 1 \in Job
      BY <3>1, ConstantsAssumption DEF Job
    <3> QED
      BY <1>1, <3>1, <3>2 DEF Take, Inv1, StatusByPlace
  <2>2. StartsOne(taken + 1)
    BY <1>0, <1>1, <2>1 DEF Take, StartsOne
  <2> QED
    BY <2>1, <2>2 DEF StatusStep
<1>2. CASE GetResult \/ MarkAbandoned
  <2>1. taken \in Job /\ status[taken] = "RUNNING"
    <3>1. taken \in 0 .. MaxSubmits /\ taken > 0
      BY <1>2 DEF GetResult, MarkAbandoned, Inv1, TypeOK, StatusByPlace
    <3>2. taken \in Job
      BY <3>1, ConstantsAssumption DEF Job
    <3> QED
      BY <1>2, <3>2 DEF GetResult, MarkAbandoned, Inv1, StatusByPlace, Executing
  <2>2. EndsOne(taken)
    BY <1>0, <1>2, <2>1 DEF GetResult, MarkAbandoned, AbandonedStatus, EndsOne, Terminal,
       Inv1, TypeOK, VerdictWhenAbandoning
  <2> QED
    BY <2>1, <2>2 DEF StatusStep
<1>3. CASE status' = status
  BY <1>0, <1>3 DEF StatusStep, KeepsAll
<1>4. \/ Take \/ GetResult \/ MarkAbandoned \/ status' = status
  BY DEF Queue, SkipCancelled, Launch, Tick, StopTick, ClockTick, TimeoutTick, Abandon,
     Seal, Report, CallBack
<1> QED
  BY <1>1, <1>2, <1>3, <1>4

LEMMA NextStatusStep == Inv1 /\ [Next]_vars => StatusStep
<1>1. ASSUME NEW j \in Job, Worker(j) PROVE StatusStep
  BY <1>1, WorkerFrame DEF StatusStep, KeepsAll, listVars, jobVars, mainVars
<1>2. UNCHANGED vars => StatusStep
  BY DEF vars, listVars, jobVars, mainVars, StatusStep, KeepsAll
<1> QED
  BY <1>1, <1>2, MainStatusStep, QueueStatusStep DEF Next

\* No step changes the status of a run that has ended.
LEMMA EndedStays ==
    ASSUME Inv1, [Next]_vars, NEW j \in Job, status[j] \in Terminal
    PROVE  status'[j] = status[j]
<1>0. status \in [Job -> Status] /\ (j > counter => status[j] = "NONE")
      /\ counter \in Nat /\ j \in Nat
  BY ConstantsAssumption DEF Inv1, TypeOK, StatusByPlace, Job
<1>1. StatusStep
  BY NextStatusStep
<1>2. CASE SubmitsOne
  BY <1>0, <1>2 DEF SubmitsOne, Terminal
<1>3. CASE KeepsAll
  BY <1>3 DEF KeepsAll
<1>4. ASSUME NEW n \in Job, CancelsOne(n) \/ StartsOne(n) \/ EndsOne(n)
      PROVE  status'[j] = status[j]
  BY <1>0, <1>4 DEF CancelsOne, StartsOne, EndsOne, Terminal
<1> QED
  BY <1>1, <1>2, <1>3, <1>4 DEF StatusStep

\* An ended run keeps its status.
THEOREM FinalStatus == Spec => TerminalIsFinal
<1>1. Inv1 /\ [Next]_vars => \A j \in Job : status[j] \in Terminal => status'[j] = status[j]
  BY EndedStays
<1>2. Spec => []Inv1
  BY InitInv1, NextInv1, PTL DEF Spec
<1> QED
  BY <1>1, <1>2, PTL DEF Spec, TerminalIsFinal

\* Runs execute in the order of their submission and never overlap.
THEOREM Ordered == Spec => []InOrder
<1>1. Inv1 => InOrder
  <2> SUFFICES ASSUME Inv1, NEW i \in Job, NEW j \in Job, i < j,
                      status[j] \in {"RUNNING", "SUCCESS", "ERROR", "TIMEOUT"}
               PROVE  status[i] \in Terminal
    BY DEF InOrder
  <2>1. taken \in Nat /\ counter \in Nat /\ i \in Nat /\ j \in Nat /\ StatusByPlace
    BY ConstantsAssumption DEF Inv1, TypeOK, Job
  <2>2. j <= taken
    BY <2>1 DEF StatusByPlace
  <2> QED
    BY <2>1, <2>2 DEF StatusByPlace
<1> QED
  BY <1>1, InitInv1, NextInv1, PTL DEF Spec

-----------------------------------------------------------------------------
(* The cap on pending runs, and the list that makes them reachable.        *)

LEMMA PendingSetFinite ==
    /\ PendingSet \subseteq Job /\ IsFiniteSet(PendingSet)
    /\ Cardinality(PendingSet) \in Nat
<1>1. IsFiniteSet(Job)
  BY ConstantsAssumption, FS_Interval DEF Job
<1>2. PendingSet \subseteq Job
  BY DEF PendingSet
<1> QED
  BY <1>1, <1>2, FS_Subset, FS_CardinalityType

\* A step other than submit's second half adds nothing to the pending runs.
LEMMA PendingSetStep ==
    ASSUME Inv1, StatusStep
    PROVE  \/ SubmitsOne /\ PendingSet' = PendingSet \cup {counter + 1}
           \/ ~SubmitsOne /\ PendingSet' \subseteq PendingSet
<1>0. status \in [Job -> Status] /\ counter \in Nat /\ counter <= MaxSubmits
  BY ConstantsAssumption DEF Inv1, TypeOK
<1>1. CASE SubmitsOne
  <2>1. counter + 1 \in Job
    BY <1>0, <1>1, ConstantsAssumption DEF SubmitsOne, Job
  <2>2. PendingSet' = PendingSet \cup {counter + 1}
    BY <1>0, <1>1, <2>1 DEF SubmitsOne, PendingSet, Pending
  <2> QED
    BY <1>1, <2>2
<1>2. CASE ~SubmitsOne /\ KeepsAll
  BY <1>2 DEF KeepsAll, PendingSet
<1>3. ASSUME ~SubmitsOne, NEW n \in Job, CancelsOne(n) \/ StartsOne(n) \/ EndsOne(n)
      PROVE  PendingSet' \subseteq PendingSet
  BY <1>0, <1>3 DEF CancelsOne, StartsOne, EndsOne, PendingSet, Pending, Terminal
<1> QED
  BY <1>1, <1>2, <1>3 DEF StatusStep

\* Only a pending run's entry is safe from trimming and clearing, and it is.
LEMMA ListStep ==
    ASSUME Inv1, [Next]_vars
    PROVE  \/ SubmitsOne /\ jobs' = Trim(jobs \cup {counter + 1})
           \/ ~SubmitsOne /\ jobs' = jobs
           \/ ~SubmitsOne /\ status' = status /\ jobs' = {j \in jobs : ~Removable(j)}
<1>1. CASE SubmitAdd
  BY <1>1 DEF SubmitAdd, SubmitsOne, Inv1
<1>2. CASE ClearHistory
  BY <1>2 DEF ClearHistory, SubmitsOne, mainVars
<1>3. CASE SubmitCheck \/ StopScanRunning \/ StopScanQueued \/ StopMark \/ StopReturn \/ ClearTerminal
  BY <1>3 DEF SubmitCheck, StopScanRunning, StopScanQueued, StopMark, StopReturn, ClearTerminal,
     SubmitsOne,
     listVars, jobVars, mainVars
<1>4. ASSUME NEW n \in Job, Cancel(n) \/ StopCancel(n) \/ TogglePin(n)
      PROVE  ~SubmitsOne /\ jobs' = jobs
  BY <1>4 DEF Cancel, StopCancel, TogglePin, SubmitsOne, mainVars
<1>5. CASE Queue
  <2>1. mpc' = mpc
    BY <1>5, QueuePlaces
  <2>2. jobs' = jobs
    BY <1>5 DEF Queue, SkipCancelled, Take, Launch, GetResult, Tick, StopTick, ClockTick,
       TimeoutTick, Abandon, MarkAbandoned, Seal, Report, CallBack, listVars
  <2> QED
    BY <2>1, <2>2 DEF SubmitsOne
<1>6. ASSUME NEW j \in Job, Worker(j) PROVE ~SubmitsOne /\ jobs' = jobs
  BY <1>6, WorkerFrame DEF SubmitsOne, listVars, jobVars, mainVars
<1>7. CASE UNCHANGED vars
  BY <1>7 DEF vars, listVars, jobVars, mainVars, SubmitsOne
<1> QED
  BY <1>1, <1>2, <1>3, <1>4, <1>5, <1>6, <1>7 DEF Next, Main

LEMMA ListedNext ==
    ASSUME Inv1, PendingIsListed, [Next]_vars PROVE PendingIsListed'
<1>0. status \in [Job -> Status] /\ counter \in Nat /\ counter <= MaxSubmits
      /\ PendingSet \subseteq jobs
  BY ConstantsAssumption DEF Inv1, TypeOK, PendingIsListed, PendingSet
<1>1. StatusStep
  BY NextStatusStep
<1>2. SUFFICES PendingSet' \subseteq jobs'
  BY DEF PendingIsListed, PendingSet
<1>3. \A j \in PendingSet : ~Removable(j)
  BY DEF PendingSet, Removable, Pending, Terminal
<1>4. CASE SubmitsOne
  <2>1. ~Removable(counter + 1)
    <3>1. counter + 1 \in Job
      BY <1>0, <1>4, ConstantsAssumption DEF SubmitsOne, Job
    <3>2. status[counter + 1] = "NONE"
      BY <1>0, <3>1 DEF Inv1, StatusByPlace
    <3> QED
      BY <3>2 DEF Removable, Terminal
  <2>2. jobs' = Trim(jobs \cup {counter + 1})
    BY <1>4, ListStep
  <2>3. PendingSet' = PendingSet \cup {counter + 1}
    BY <1>1, <1>4, PendingSetStep
  <2>4. \A j \in jobs \cup {counter + 1} : ~Removable(j) => j \in Trim(jobs \cup {counter + 1})
    BY DEF Trim
  <2> QED
    BY <1>0, <1>3, <2>1, <2>2, <2>3, <2>4
<1>5. CASE ~SubmitsOne
  BY <1>0, <1>1, <1>3, <1>5, PendingSetStep, ListStep
<1> QED
  BY <1>4, <1>5

LEMMA CapNext ==
    ASSUME Inv1, PendingIsListed, PendingCap, RoomToAdd, [Next]_vars
    PROVE  PendingCap' /\ RoomToAdd'
<1>0. /\ Cardinality(PendingSet) \in Nat /\ IsFiniteSet(PendingSet)
      /\ PendingJobs = PendingSet /\ MaxPending \in Nat
  BY PendingSetFinite, ConstantsAssumption
     DEF PendingJobs, PendingSet, PendingIsListed, Inv1, TypeOK
<1>1. StatusStep
  BY NextStatusStep
<1>2. CASE SubmitsOne
  <2>1. Cardinality(PendingSet) < MaxPending
    BY <1>2 DEF SubmitsOne, RoomToAdd
  <2>2. PendingSet' = PendingSet \cup {counter + 1}
    BY <1>1, <1>2, PendingSetStep
  <2>3. Cardinality(PendingSet') <= Cardinality(PendingSet) + 1
    <3>1. Cardinality(PendingSet \cup {counter + 1})
            = IF counter + 1 \in PendingSet THEN Cardinality(PendingSet)
                                            ELSE Cardinality(PendingSet) + 1
      BY <1>0, FS_AddElement
    <3> QED
      BY <1>0, <2>2, <3>1
  <2>4. Cardinality(PendingSet') \in Nat
    BY <1>0, <2>2, FS_AddElement
  <2>5. Cardinality(PendingSet') <= MaxPending
    BY <1>0, <2>1, <2>3, <2>4
  <2> QED
    BY <1>2, <2>5 DEF PendingCap, RoomToAdd, SubmitsOne
<1>3. CASE ~SubmitsOne
  <2>1. PendingSet' \subseteq PendingSet
    BY <1>1, <1>3, PendingSetStep
  <2>2. Cardinality(PendingSet') <= Cardinality(PendingSet) /\ Cardinality(PendingSet') \in Nat
    BY <1>0, <2>1, FS_Subset, FS_CardinalityType
  <2>3. counter' = counter /\ (mpc' = "adding" => mpc = "adding" \/ (BelowCap /\ counter < MaxSubmits))
    BY <1>1, <1>3 DEF StatusStep, KeepsAll, CancelsOne, StartsOne, EndsOne
  <2>4. mpc' = "adding" => counter < MaxSubmits /\ Cardinality(PendingSet) < MaxPending
    BY <1>0, <2>3 DEF RoomToAdd, BelowCap
  <2>5. PendingCap'
    BY <1>0, <2>2 DEF PendingCap
  <2>6. RoomToAdd'
    BY <1>0, <2>2, <2>3, <2>4 DEF RoomToAdd
  <2> QED
    BY <2>5, <2>6
<1> QED
  BY <1>2, <1>3

LEMMA InitLists == Init => PendingIsListed /\ PendingCap /\ RoomToAdd
<1> SUFFICES ASSUME Init PROVE PendingIsListed /\ PendingCap /\ RoomToAdd
  OBVIOUS
<1>1. PendingSet = {}
  BY DEF Init, PendingSet, Pending
<1>2. Cardinality(PendingSet) = 0
  BY <1>1, FS_EmptySet
<1> QED
  BY <1>1, <1>2, ConstantsAssumption DEF Init, PendingIsListed, PendingSet, PendingCap, RoomToAdd

\* At most MaxPending runs wait or execute, and each of them is in the list,
\* where cancel and stopAll look for it.
THEOREM Capped == Spec => [](PendingCap /\ PendingIsListed)
<1>1. Spec => []Inv1
  BY InitInv1, NextInv1, PTL DEF Spec
<1>2. Inv1 /\ (PendingIsListed /\ PendingCap /\ RoomToAdd) /\ [Next]_vars
        => (PendingIsListed /\ PendingCap /\ RoomToAdd)'
  BY ListedNext, CapNext
<1> QED
  BY <1>1, <1>2, InitLists, PTL DEF Spec

-----------------------------------------------------------------------------
(* stopAll's snapshot, the live view                                       *)

LEMMA SnapshotNext ==
    ASSUME Inv1, PendingIsListed, SnapshotCoversQueue, [Next]_vars
    PROVE  SnapshotCoversQueue'
<1>0. status \in [Job -> Status] /\ StatusStep
  BY NextStatusStep DEF Inv1, TypeOK
<1> SUFFICES ASSUME mpc' = "stopping", NEW j \in Job, status'[j] = "QUEUED"
             PROVE  j \in stopQueued'
  BY DEF SnapshotCoversQueue
<1>1. status[j] = "QUEUED"
  <2>1. ~SubmitsOne
    BY DEF SubmitsOne
  <2> QED
    BY <1>0, <2>1 DEF StatusStep, KeepsAll, CancelsOne, StartsOne, EndsOne, Terminal
<1>2. j \in jobs
  BY <1>1 DEF PendingIsListed, Pending
<1>3. CASE StopScanQueued
  BY <1>1, <1>2, <1>3 DEF StopScanQueued, QueuedJobs
<1>4. ASSUME NEW n \in Job, StopCancel(n) PROVE j \in stopQueued'
  <2>1. mpc = "stopping" /\ stopQueued' = stopQueued \ {n}
    BY <1>4 DEF StopCancel
  <2>2. j # n
    BY <1>0, <1>1, <1>4 DEF StopCancel, CancelQueued, Waits
  <2> QED
    BY <1>1, <2>1, <2>2 DEF SnapshotCoversQueue
<1>5. CASE mpc = mpc' /\ stopQueued' = stopQueued
  BY <1>1, <1>5 DEF SnapshotCoversQueue
<1>6. CASE SubmitCheck \/ SubmitAdd \/ StopScanRunning \/ StopReturn
  BY <1>6 DEF SubmitCheck, SubmitAdd, StopScanRunning, StopReturn
<1>7. CASE StopMark \/ ClearHistory \/ ClearTerminal \/ UNCHANGED vars
  BY <1>5, <1>7 DEF StopMark, ClearHistory, ClearTerminal, vars, mainVars
<1>8. ASSUME NEW n \in Job, Cancel(n) \/ TogglePin(n) PROVE j \in stopQueued'
  BY <1>5, <1>8 DEF Cancel, TogglePin, mainVars
<1>9. CASE Queue
  BY <1>5, <1>9 DEF Queue, SkipCancelled, Take, Launch, GetResult, Tick, StopTick, ClockTick,
     TimeoutTick, Abandon, MarkAbandoned, Seal, Report, CallBack, mainVars
<1>10. ASSUME NEW n \in Job, Worker(n) PROVE j \in stopQueued'
  BY <1>5, <1>10, WorkerFrame DEF mainVars
<1> QED
  BY <1>3, <1>4, <1>6, <1>7, <1>8, <1>9, <1>10 DEF Next, Main

\* When stopAll returns, nothing is left waiting in the queue.
THEOREM StopEmptiesQueue == Spec => []StopLeavesNoneQueued
<1>1. Spec => [](Inv1 /\ PendingIsListed)
  <2>1. Spec => []Inv1
    BY InitInv1, NextInv1, PTL DEF Spec
  <2> QED
    BY <2>1, Capped, PTL
<1>2. Init => SnapshotCoversQueue
  BY DEF Init, SnapshotCoversQueue
<1>3. (Inv1 /\ PendingIsListed) /\ SnapshotCoversQueue /\ [Next]_vars => SnapshotCoversQueue'
  BY SnapshotNext
<1>4. SnapshotCoversQueue => StopLeavesNoneQueued
  BY DEF SnapshotCoversQueue, StopLeavesNoneQueued
<1> QED
  BY <1>1, <1>2, <1>3, <1>4, PTL DEF Spec

LEMMA SealedNext ==
    ASSUME Inv1, SealedIsOver, [Next]_vars,
           \A j \in Job : status[j] \in Terminal => status'[j] = status[j]
    PROVE  SealedIsOver'
<1>0. sealed \subseteq Job /\ liveLines \in [Job -> 0 .. MaxLiveLines]
  BY DEF Inv1, TypeOK
<1>1. CASE Seal
  <2>1. taken \in Job /\ status[taken] \in Terminal
    <3>1. taken \in 0 .. MaxSubmits /\ taken > 0
      BY <1>1 DEF Seal, Inv1, TypeOK, StatusByPlace
    <3>2. taken \in Job
      BY <3>1, ConstantsAssumption DEF Job
    <3> QED
      BY <1>1, <3>2 DEF Seal, Inv1, StatusByPlace, Executing
  <2> QED
    BY <1>0, <1>1, <2>1 DEF Seal, SealedIsOver
<1>2. ASSUME NEW j \in Job, Chunk(j) PROVE SealedIsOver'
  <2>1. liveLines' = liveLines \/ (status[j] = "RUNNING"
                                   /\ liveLines' = [liveLines EXCEPT ![j] = Appended(@)])
    BY <1>2 DEF Chunk, Accepts
  <2>2. j \in sealed => liveLines' = liveLines
    BY <2>1 DEF SealedIsOver, Terminal
  <2>3. sealed' = sealed
    BY <1>2 DEF Chunk
  <2> QED
    BY <1>0, <2>1, <2>2, <2>3 DEF SealedIsOver
<1>3. CASE sealed' = sealed /\ liveLines' = liveLines
  BY <1>0, <1>3 DEF SealedIsOver
<1>4. ASSUME NEW j \in Job, Worker(j) PROVE SealedIsOver'
  BY <1>2, <1>3, <1>4 DEF Worker, ChunkToTerminal, Ask, RequestReturns, WriteAnswer, EngineReturns, jobVars
<1>5. CASE Queue
  BY <1>1, <1>3, <1>5 DEF Queue, SkipCancelled, Take, Launch, GetResult, Tick, StopTick,
     ClockTick, TimeoutTick, Abandon, MarkAbandoned, Report, CallBack, jobVars
<1>6. CASE Main
  BY <1>3, <1>6 DEF Main, SubmitCheck, SubmitAdd, StopScanRunning, StopScanQueued, StopMark,
     StopReturn,
     ClearHistory, ClearTerminal, Cancel, StopCancel, TogglePin, jobVars
<1>7. CASE UNCHANGED vars
  BY <1>3, <1>7 DEF vars, jobVars
<1> QED
  BY <1>4, <1>5, <1>6, <1>7 DEF Next

LEMMA SealedOver == Spec => []SealedIsOver
<1>1. Spec => []Inv1
  BY InitInv1, NextInv1, PTL DEF Spec
<1>2. Init => SealedIsOver
  BY DEF Init, SealedIsOver
<1> DEFINE Kept == \A j \in Job : status[j] \in Terminal => status'[j] = status[j]
<1>3. Inv1 /\ SealedIsOver /\ [Next]_vars /\ [Kept]_vars => SealedIsOver'
  <2>1. UNCHANGED vars => Kept
    BY DEF vars
  <2> QED
    BY <2>1, SealedNext
<1>4. Spec => [][Kept]_vars
  BY FinalStatus DEF TerminalIsFinal
<1> HIDE DEF Kept
<1> QED
  BY <1>1, <1>2, <1>3, <1>4, PTL DEF Spec

\* Nothing is added to the live view of a run whose end has been recorded,
\* however long its abandoned worker goes on.
THEOREM LiveViewClosed == Spec => []LiveViewEnds
<1>1. SealedIsOver => LiveViewEnds
  BY DEF SealedIsOver, LiveViewEnds
<1> QED
  BY <1>1, SealedOver, PTL

-----------------------------------------------------------------------------
(* The callbacks of the REPL lines                                         *)

\* The lines whose caller has been told.
Told == {i \in ReplRuns \cap sealed : i # taken \/ qpc = "idle"}

CallbackState == <<callbacks, posted, sealed, status, taken>>

LEMMA InitCallbacks == Init => CallbackInv /\ CallbackTellsOutcome
BY ConstantsAssumption DEF Init, CallbackInv, CallbacksNotLeaked, CallbackTellsOutcome,
   Executing, Pending, Job

\* Nothing more to tell, and no told status changes.
LEMMA NothingTold ==
    ASSUME CallbackTellsOutcome, posted' = posted, Told' = Told,
           \A j \in Told : status'[j] = status[j]
    PROVE  CallbackTellsOutcome'
BY DEF CallbackTellsOutcome, Told

LEMMA MainCallbacks ==
    ASSUME Inv1, SealedIsOver, CallbackInv, CallbackTellsOutcome, Main
    PROVE  CallbackInv' /\ CallbackTellsOutcome'
<1>0. /\ status \in [Job -> Status] /\ taken \in Nat /\ counter \in Nat
      /\ callbacks \subseteq Job /\ sealed \subseteq Job /\ ReplRuns \subseteq Job
      /\ \A j \in sealed : status[j] \in Terminal
      /\ UNCHANGED <<posted, sealed, taken, qpc>>
  <2>1. /\ status \in [Job -> Status] /\ taken \in Nat /\ counter \in Nat
        /\ callbacks \subseteq Job /\ sealed \subseteq Job /\ ReplRuns \subseteq Job
    BY ConstantsAssumption DEF Inv1, TypeOK, Job
  <2>2. \A j \in sealed : status[j] \in Terminal
    BY DEF SealedIsOver
  <2>3. UNCHANGED <<posted, sealed, taken, qpc>>
    BY DEF Main, SubmitCheck, SubmitAdd, StopScanRunning, StopScanQueued, StopMark, StopReturn,
       ClearHistory,
       ClearTerminal, Cancel, StopCancel, TogglePin, jobVars, queueVars
  <2> QED
    BY <2>1, <2>2, <2>3
<1>1. CASE UNCHANGED <<callbacks, status>>
  <2>1. CallbackTellsOutcome'
    BY <1>0, <1>1 DEF CallbackTellsOutcome
  <2> QED
    BY <1>0, <1>1, <2>1 DEF CallbackInv, CallbacksNotLeaked
<1>2. CASE SubmitAdd
  <2> DEFINE n == counter + 1
  <2>1. /\ n \in Job /\ n > taken /\ n \notin sealed
        /\ status' = [status EXCEPT ![n] = "QUEUED"]
        /\ callbacks' = callbacks \cup ({n} \cap ReplRuns)
    <3>1. /\ counter < MaxSubmits /\ MaxSubmits \in Nat /\ taken <= counter
          /\ \A j \in sealed : j <= taken
      BY <1>2, ConstantsAssumption DEF SubmitAdd, Inv1, TypeOK, StatusByPlace, CallbackInv
    <3>2. n \in Job /\ n > taken /\ n \notin sealed
      BY <1>0, <3>1 DEF Job
    <3>3. /\ status' = [status EXCEPT ![n] = "QUEUED"]
          /\ callbacks' = callbacks \cup ({n} \cap ReplRuns)
      BY <1>2 DEF SubmitAdd
    <3> QED
      BY <3>2, <3>3
  <2> HIDE DEF n
  <2>2. CallbackTellsOutcome'
    BY <1>0, <2>1, NothingTold DEF Told
  <2>3. CallbackInv'
    BY <1>0, <2>1 DEF CallbackInv, CallbacksNotLeaked, Pending
  <2> QED
    BY <2>2, <2>3
<1>3. ASSUME NEW n \in Job, status[n] = "QUEUED", status' = [status EXCEPT ![n] = "CANCELLED"],
             callbacks' = callbacks \ {n}
      PROVE  CallbackInv' /\ CallbackTellsOutcome'
  <2>1. n \notin sealed
    BY <1>0, <1>3 DEF Terminal
  <2>2. CallbackTellsOutcome'
    BY <1>0, <1>3, <2>1, NothingTold DEF Told
  <2>3. n = taken => qpc \notin {"seal", "report", "call"}
    BY <1>0, <1>3 DEF Inv1, StatusByPlace, Executing, Terminal
  <2>4. CallbackInv'
    BY <1>0, <1>3, <2>3 DEF CallbackInv, CallbacksNotLeaked, Pending
  <2> QED
    BY <2>2, <2>4
<1>4. CASE SubmitCheck \/ StopScanRunning \/ StopScanQueued \/ StopMark \/ StopReturn \/ ClearHistory
           \/ ClearTerminal
  BY <1>1, <1>4 DEF SubmitCheck, StopScanRunning, StopScanQueued, StopMark, StopReturn,
     ClearHistory,
     ClearTerminal, listVars
<1>5. ASSUME NEW n \in Job, Cancel(n) \/ StopCancel(n) \/ TogglePin(n)
      PROVE  CallbackInv' /\ CallbackTellsOutcome'
  <2>1. \/ UNCHANGED <<callbacks, status>>
        \/ /\ status[n] = "QUEUED" /\ status' = [status EXCEPT ![n] = "CANCELLED"]
           /\ callbacks' = callbacks \ {n}
    BY <1>5 DEF Cancel, StopCancel, TogglePin, CancelQueued, Waits
  <2> QED
    BY <1>1, <1>3, <2>1
<1> QED
  BY <1>2, <1>4, <1>5 DEF Main

LEMMA QueueCallbacks ==
    ASSUME Inv1, SealedIsOver, CallbackInv, CallbackTellsOutcome, Queue
    PROVE  CallbackInv' /\ CallbackTellsOutcome'
<1>0. /\ status \in [Job -> Status] /\ taken \in Nat /\ counter \in Nat
      /\ callbacks \subseteq Job /\ sealed \subseteq Job /\ ReplRuns \subseteq Job
      /\ \A j \in sealed : status[j] \in Terminal
      /\ \A j \in sealed : j \in Nat /\ j <= taken
      /\ qpc \in QueuePc
      /\ qpc # "idle" => taken \in Job
  <2>1. taken \in 0 .. MaxSubmits /\ MaxSubmits \in Nat
    BY ConstantsAssumption DEF Inv1, TypeOK
  <2>2. qpc # "idle" => taken \in Job
    BY <2>1 DEF Inv1, StatusByPlace, Job
  <2>3. /\ status \in [Job -> Status] /\ counter \in Nat /\ qpc \in QueuePc
        /\ callbacks \subseteq Job /\ sealed \subseteq Job /\ ReplRuns \subseteq Job
    BY ConstantsAssumption DEF Inv1, TypeOK, Job
  <2>4. (\A j \in sealed : status[j] \in Terminal) /\ \A j \in sealed : j <= taken
    BY DEF SealedIsOver, CallbackInv
  <2>5. \A j \in sealed : j \in Nat
    BY <2>3 DEF Job
  <2> QED
    BY <2>1, <2>2, <2>3, <2>4, <2>5
<1>1. CASE SkipCancelled
  <2>1. /\ qpc = "idle" /\ qpc' = "idle" /\ taken' = taken + 1
        /\ UNCHANGED <<callbacks, posted, sealed, status>>
    BY <1>1 DEF SkipCancelled, listVars, jobVars
  <2>2. CallbackTellsOutcome'
    BY <2>1, NothingTold DEF Told
  <2>3. CallbackInv'
    BY <1>0, <2>1 DEF CallbackInv, CallbacksNotLeaked, Executing
  <2> QED
    BY <2>2, <2>3
<1>2. CASE Take
  <2>1. /\ qpc = "idle" /\ qpc' = "launch" /\ taken' = taken + 1 /\ taken + 1 \in Job
        /\ taken + 1 \notin sealed
        /\ status[taken + 1] = "QUEUED" /\ status' = [status EXCEPT ![taken + 1] = "RUNNING"]
        /\ UNCHANGED <<callbacks, posted, sealed>>
    <3>1. /\ qpc = "idle" /\ qpc' = "launch" /\ taken' = taken + 1 /\ taken < counter
          /\ status[taken + 1] # "CANCELLED"
          /\ status' = [status EXCEPT ![taken + 1] = "RUNNING"]
          /\ UNCHANGED <<callbacks, posted, sealed>>
      BY <1>2 DEF Take, listVars, jobVars
    <3>2. taken + 1 \in Job
      BY <1>0, <3>1, ConstantsAssumption DEF Inv1, TypeOK, Job
    <3>3. status[taken + 1] = "QUEUED"
      BY <1>0, <3>1, <3>2 DEF Inv1, StatusByPlace
    <3>4. taken + 1 \notin sealed
      BY <1>0
    <3> QED
      BY <3>1, <3>2, <3>3, <3>4
  <2>2. CallbackTellsOutcome'
    BY <1>0, <2>1, NothingTold DEF Told
  <2>3. CallbackInv'
    BY <1>0, <2>1 DEF CallbackInv, CallbacksNotLeaked, Executing, Pending
  <2> QED
    BY <2>2, <2>3
<1>3. CASE GetResult \/ MarkAbandoned
  <2>1. /\ qpc \in {"await", "mark"} /\ qpc' = "seal" /\ taken \notin sealed
        /\ status' = [status EXCEPT ![taken] = status'[taken]]
        /\ UNCHANGED <<callbacks, posted, sealed, taken>>
    BY <1>0, <1>3 DEF GetResult, MarkAbandoned, AbandonedStatus, CallbackInv, Executing,
       listVars, jobVars
  <2>2. status[taken] = "RUNNING"
    BY <1>0, <2>1 DEF Inv1, StatusByPlace, Executing
  <2>3. CallbackTellsOutcome'
    BY <1>0, <2>1, NothingTold DEF Told
  <2>4. CallbackInv'
    BY <1>0, <2>1, <2>2 DEF CallbackInv, CallbacksNotLeaked, Executing, Pending
  <2> QED
    BY <2>3, <2>4
<1>4. CASE Seal
  <2>1. /\ qpc = "seal" /\ qpc' = "report" /\ sealed' = sealed \cup {taken}
        /\ UNCHANGED <<callbacks, posted, status, taken>>
    BY <1>4 DEF Seal, listVars
  <2>2. CallbackTellsOutcome'
    BY <2>1, NothingTold DEF Told
  <2>3. CallbackInv'
    BY <1>0, <2>1 DEF CallbackInv, CallbacksNotLeaked, Executing
  <2> QED
    BY <2>2, <2>3
<1>5. CASE CallBack
  <2>1. /\ qpc = "call" /\ qpc' = "idle" /\ posted' = Posted /\ callbacks' = callbacks \ {taken}
        /\ taken \in sealed
        /\ UNCHANGED <<status, sealed, taken>>
    BY <1>5 DEF CallBack, CallbackInv
  <2>2. taken \in callbacks <=> taken \in ReplRuns
    BY <1>0, <2>1 DEF CallbackInv
  <2>3. Told' = Told \cup ({taken} \cap ReplRuns)
    BY <2>1 DEF Told
  <2>4. posted' = {[job |-> j, status |-> status[j]] : j \in Told'}
    BY <2>1, <2>2, <2>3 DEF Posted, CallbackTellsOutcome, Told
  <2>5. CallbackTellsOutcome'
    BY <2>1, <2>4 DEF CallbackTellsOutcome, Told
  <2>6. CallbackInv'
    <3>1. status[taken] \in Terminal
      BY <1>0, <2>1
    <3> QED
      BY <1>0, <2>1, <3>1 DEF CallbackInv, CallbacksNotLeaked, Executing, Pending, Terminal
  <2> QED
    BY <2>5, <2>6
<1>6. ASSUME UNCHANGED CallbackState,
             \/ qpc \in Executing /\ qpc' \in Executing
             \/ qpc = "report" /\ qpc' = "call"
      PROVE  CallbackInv' /\ CallbackTellsOutcome'
  <2>1. qpc' \notin {"idle", "seal"} /\ qpc \notin {"idle", "seal"}
    BY <1>6 DEF Executing
  <2>2. CallbackTellsOutcome'
    BY <1>6, <2>1, NothingTold DEF Told, CallbackState
  <2>3. CallbackInv'
    BY <1>0, <1>6, <2>1 DEF CallbackInv, CallbacksNotLeaked, CallbackState, Executing
  <2> QED
    BY <2>2, <2>3
<1>7. CASE Launch \/ Tick \/ StopTick \/ ClockTick \/ TimeoutTick \/ Abandon \/ Report
  BY <1>6, <1>7 DEF Launch, Tick, StopTick, ClockTick, TimeoutTick, Abandon, Report,
     CallbackState, Executing, listVars, jobVars
<1> QED
  BY <1>1, <1>2, <1>3, <1>4, <1>5, <1>7 DEF Queue

\* The caller of a REPL line hears of its end exactly once, with the status
\* that remains; and no entry of finishCallbacks outlives its run.
THEOREM CallersTold == Spec => [](CallbackTellsOutcome /\ CallbacksNotLeaked)
<1>1. Spec => [](Inv1 /\ SealedIsOver)
  <2>1. Spec => []Inv1
    BY InitInv1, NextInv1, PTL DEF Spec
  <2> QED
    BY <2>1, SealedOver, PTL
<1>2. (Inv1 /\ SealedIsOver) /\ (CallbackInv /\ CallbackTellsOutcome) /\ [Next]_vars
        => (CallbackInv /\ CallbackTellsOutcome)'
  <2> SUFFICES ASSUME Inv1, SealedIsOver, CallbackInv, CallbackTellsOutcome, [Next]_vars
               PROVE  CallbackInv' /\ CallbackTellsOutcome'
    OBVIOUS
  <2>1. ASSUME UNCHANGED CallbackState, qpc' = qpc
        PROVE  CallbackInv' /\ CallbackTellsOutcome'
    BY <2>1 DEF CallbackState, CallbackInv, CallbacksNotLeaked, CallbackTellsOutcome
  <2>2. ASSUME NEW j \in Job, Worker(j) PROVE CallbackInv' /\ CallbackTellsOutcome'
    BY <2>1, <2>2, WorkerFrame DEF CallbackState, listVars, queueVars
  <2>3. CASE UNCHANGED vars
    BY <2>1, <2>3 DEF CallbackState, vars, listVars, jobVars, queueVars
  <2> QED
    BY <2>2, <2>3, MainCallbacks, QueueCallbacks DEF Next
<1>3. CallbackInv => CallbacksNotLeaked
  BY DEF CallbackInv
<1> QED
  BY <1>1, <1>2, <1>3, InitCallbacks, PTL DEF Spec

-----------------------------------------------------------------------------
(* The transcript all runs share                                           *)

AtWork == WorkerPc \ {"none", "returned"}
Texts == term.streamed \cup term.partial

LEMMA InitTranscript == Init => TranscriptInv /\ OnlyAbandonedStray
BY DEF Init, TranscriptInv, OnlyAbandonedStray, EmptyBuffer

\* Whatever a program at work writes, it is the run of the open section or an
\* abandoned one.
LEMMA WriterIsKnown ==
    ASSUME Inv1, TranscriptInv, NEW j \in Job, wpc[j] \in AtWork
    PROVE  j = term.section \/ status[j] \in {"TIMEOUT", "CANCELLED"}
<1>1. CASE status[j] = "RUNNING"
  <2>1. j = taken /\ qpc \in Executing
    <3>1. taken \in Nat /\ counter \in Nat /\ j \in Nat
      BY ConstantsAssumption DEF Inv1, TypeOK, Job
    <3> QED
      BY <1>1, <3>1 DEF Inv1, StatusByPlace, Terminal
  <2>2. qpc # "launch"
    BY <2>1 DEF TranscriptInv, AtWork
  <2> QED
    BY <2>1, <2>2 DEF TranscriptInv, Executing
<1>2. status[j] \in {"RUNNING", "TIMEOUT", "CANCELLED"}
  BY DEF TranscriptInv, AtWork
<1> QED
  BY <1>1, <1>2

\* Texts that were there before a step, in the same section, stay explained.
LEMMA StrayStep ==
    ASSUME Inv1, OnlyAbandonedStray, [Next]_vars, term.section' = term.section,
           \A j \in Texts' : j \in Texts \/ j = term.section \/ status[j] \in {"TIMEOUT", "CANCELLED"},
           Texts' \subseteq Job
    PROVE  OnlyAbandonedStray'
BY EndedStays DEF OnlyAbandonedStray, Texts, Terminal

LEMMA MainTranscript ==
    ASSUME Inv1, TranscriptInv, OnlyAbandonedStray, Main
    PROVE  TranscriptInv' /\ OnlyAbandonedStray'
<1>0. /\ UNCHANGED <<qpc, taken, wpc, outcome>> /\ term.section' = term.section
      /\ term.streamed' = term.streamed /\ term.partial' \subseteq term.partial
      /\ term \in Buffers(Job) /\ status \in [Job -> Status]
  BY DEF Inv1, TypeOK, Main, SubmitCheck, SubmitAdd, StopScanRunning, StopScanQueued, StopMark,
     StopReturn,
     ClearHistory, ClearTerminal, Cancel, StopCancel, TogglePin, workerVars, queueVars, Clear, Buffers
<1>1. [Next]_vars
  BY DEF Next
<1>2. OnlyAbandonedStray'
  <2>1. Texts' \subseteq Job /\ \A j \in Texts' : j \in Texts
    BY <1>0 DEF Texts, Buffers
  <2> QED
    BY <1>0, <1>1, <2>1, StrayStep
<1>3. ASSUME NEW j \in Job, status[j] \in {"RUNNING", "TIMEOUT", "CANCELLED"}, wpc[j] \in AtWork
      PROVE  status'[j] = status[j]
  <2>1. StatusStep
    BY MainStatusStep
  <2>2. CASE status[j] \in Terminal
    BY <1>1, <2>2, EndedStays
  <2>3. CASE status[j] = "RUNNING"
    <3>1. j <= counter /\ j \in Nat /\ counter \in Nat
      BY <2>3, ConstantsAssumption DEF Inv1, TypeOK, StatusByPlace, Job
    <3>2. CASE SubmitAdd
      BY <1>0, <2>3, <3>1, <3>2 DEF SubmitAdd
    <3>3. ASSUME NEW n \in Job, Cancel(n) \/ StopCancel(n) PROVE status'[j] = status[j]
      BY <1>0, <2>3, <3>3 DEF Cancel, StopCancel, CancelQueued, Waits
    <3>4. SubmitAdd \/ status' = status \/ \E n \in Job : Cancel(n) \/ StopCancel(n)
      BY DEF Main, SubmitCheck, StopScanRunning, StopScanQueued, StopMark, StopReturn,
         ClearHistory, ClearTerminal, TogglePin
    <3> QED
      BY <3>2, <3>3, <3>4
  <2> QED
    BY <1>3, <2>2, <2>3 DEF Terminal
<1>4. wpc \in [Job -> WorkerPc]
  BY DEF Inv1, TypeOK
<1>5. TranscriptInv'
  BY <1>0, <1>3, <1>4 DEF TranscriptInv, AtWork
<1> QED
  BY <1>2, <1>5

LEMMA QueueTranscript ==
    ASSUME Inv1, TranscriptInv, OnlyAbandonedStray, Queue
    PROVE  TranscriptInv' /\ OnlyAbandonedStray'
<1>0. /\ term \in Buffers(Job) /\ status \in [Job -> Status] /\ taken \in Nat
      /\ wpc \in [Job -> WorkerPc] /\ outcome \in [Job -> Outcome] /\ Job \subseteq Nat
      /\ qpc # "idle" => taken \in Job
  BY ConstantsAssumption DEF Inv1, TypeOK, StatusByPlace, Job
<1>1. [Next]_vars
  BY DEF Next
<1>2. ASSUME term' = term PROVE OnlyAbandonedStray'
  <2>1. Texts' \subseteq Job /\ Texts' = Texts
    BY <1>0, <1>2 DEF Texts, Buffers
  <2> QED
    BY <1>1, <1>2, <2>1, StrayStep
<1>3. CASE SkipCancelled
  <2>1. qpc = "idle" /\ qpc' = "idle" /\ taken' = taken + 1
        /\ UNCHANGED <<wpc, outcome, status, term>>
    BY <1>3 DEF SkipCancelled, workerVars
  <2>2. TranscriptInv'
    BY <1>0, <2>1 DEF TranscriptInv
  <2> QED
    BY <1>2, <2>1, <2>2
<1>4. CASE Take
  <2>1. /\ qpc = "idle" /\ qpc' = "launch" /\ taken' = taken + 1 /\ taken + 1 \in Job
        /\ status' = [status EXCEPT ![taken + 1] = "RUNNING"]
        /\ UNCHANGED <<wpc, outcome, term>>
    <3>1. taken + 1 \in Job
      BY <1>4, ConstantsAssumption DEF Take, Inv1, TypeOK, Job
    <3> QED
      BY <1>4, <3>1 DEF Take, workerVars
  <2>2. TranscriptInv'
    BY <1>0, <2>1 DEF TranscriptInv
  <2> QED
    BY <1>2, <2>1, <2>2
<1>5. CASE Launch
  <2>1. /\ qpc = "launch" /\ qpc' = "await" /\ taken' = taken
        /\ wpc' = [wpc EXCEPT ![taken] = "native"] /\ status' = status /\ outcome' = outcome
        /\ term' = [section |-> taken, streamed |-> {}, partial |-> {}]
    BY <1>5 DEF Launch, StartJob
  <2>2. status[taken] = "RUNNING" /\ wpc[taken] = "none" /\ taken \in Job
    BY <1>0, <2>1 DEF Inv1, StatusByPlace, Executing, TranscriptInv
  <2>3. TranscriptInv'
    BY <1>0, <2>1, <2>2 DEF TranscriptInv
  <2>4. OnlyAbandonedStray'
    BY <2>1 DEF OnlyAbandonedStray
  <2> QED
    BY <2>3, <2>4
<1>6. CASE GetResult
  <2>1. /\ qpc = "await" /\ qpc' = "seal" /\ taken' = taken /\ outcome[taken] \in {"ok", "error"}
        /\ status' = [status EXCEPT ![taken] = status'[taken]] /\ UNCHANGED <<wpc, outcome, term>>
    BY <1>0, <1>6 DEF GetResult, workerVars
  <2>2. wpc[taken] = "returned"
    BY <1>0, <2>1 DEF TranscriptInv
  <2>3. TranscriptInv'
    BY <1>0, <2>1, <2>2 DEF TranscriptInv
  <2> QED
    BY <1>2, <2>1, <2>3
<1>7. CASE MarkAbandoned
  <2>1. /\ qpc = "mark" /\ qpc' = "seal" /\ taken' = taken
        /\ status' = [status EXCEPT ![taken] = verdict] /\ UNCHANGED <<wpc, outcome, term>>
        /\ verdict \in {"CANCELLED", "TIMEOUT"}
    BY <1>7 DEF MarkAbandoned, AbandonedStatus, workerVars, Inv1, TypeOK, VerdictWhenAbandoning
  <2>2. TranscriptInv'
    BY <1>0, <2>1 DEF TranscriptInv
  <2> QED
    BY <1>2, <2>1, <2>2
<1>8. CASE Abandon
  <2>1. /\ qpc = "abandon" /\ qpc' = "mark" /\ taken' = taken /\ UNCHANGED <<wpc, status, term>>
        /\ outcome' = outcome \/ outcome' = [outcome EXCEPT ![taken] = "cancelled"]
    BY <1>8 DEF Abandon
  <2>2. TranscriptInv'
    BY <1>0, <2>1 DEF TranscriptInv
  <2> QED
    BY <1>2, <2>1, <2>2
<1>9. CASE Report
  <2>1. /\ qpc = "report" /\ qpc' = "call" /\ taken' = taken /\ UNCHANGED <<wpc, status, outcome>>
        /\ term' = [section |-> NoSection, streamed |-> {}, partial |-> {}]
    BY <1>9 DEF Report, FinishJob, workerVars
  <2>2. TranscriptInv'
    BY <1>0, <2>1 DEF TranscriptInv
  <2>3. OnlyAbandonedStray'
    BY <2>1 DEF OnlyAbandonedStray
  <2> QED
    BY <2>2, <2>3
<1>10. CASE Tick \/ StopTick \/ ClockTick \/ TimeoutTick \/ Seal \/ CallBack
  <2>1. /\ taken' = taken /\ UNCHANGED <<wpc, status, outcome, term>>
        /\ qpc' # "launch"
        /\ qpc' \in {"await", "expired", "abandon", "mark", "seal", "report"}
              => qpc \in {"await", "expired", "abandon", "mark", "seal", "report"}
    BY <1>10 DEF Tick, StopTick, ClockTick, TimeoutTick, Seal, CallBack, workerVars
  <2>2. TranscriptInv'
    BY <1>0, <2>1 DEF TranscriptInv
  <2> QED
    BY <1>2, <2>1, <2>2
<1> QED
  BY <1>3, <1>4, <1>5, <1>6, <1>7, <1>8, <1>9, <1>10 DEF Queue

LEMMA WorkerTranscript ==
    ASSUME Inv1, TranscriptInv, OnlyAbandonedStray, NEW j \in Job, Worker(j)
    PROVE  TranscriptInv' /\ OnlyAbandonedStray'
<1>0. /\ term \in Buffers(Job) /\ status \in [Job -> Status] /\ taken \in Nat
      /\ wpc \in [Job -> WorkerPc] /\ outcome \in [Job -> Outcome]
      /\ wpc[j] \in AtWork
      /\ UNCHANGED <<status, qpc, taken>>
  BY DEF Inv1, TypeOK, Worker, Chunk, ChunkToTerminal, Ask, RequestReturns, WriteAnswer,
     EngineReturns, queueVars, AtWork, WorkerPc
<1>1. [Next]_vars
  BY DEF Next
<1>2. /\ wpc' = [wpc EXCEPT ![j] = wpc'[j]] /\ wpc'[j] \in AtWork \cup {"returned"}
      /\ outcome' = [outcome EXCEPT ![j] = outcome'[j]]
      /\ outcome'[j] # outcome[j] => wpc'[j] = "returned"
      /\ wpc'[j] = "returned" <=> EngineReturns(j)
  BY <1>0 DEF Worker, Chunk, ChunkToTerminal, Ask, RequestReturns, WriteAnswer,
     EngineReturns, AtWork, WorkerPc
<1>3. /\ term.section' = term.section /\ term \in Buffers(Job)'
      /\ \A k \in Texts' : k \in Texts \/ k = j
  <2>1. CASE term' = term
    BY <1>0, <2>1 DEF Texts, Buffers
  <2>2. CASE \/ \E eol \in BOOLEAN : term' = OnChunk(term, j, eol)
             \/ term' = Prompt(term, j) \/ term' = Answer(term)
    <3>1. term.streamed \subseteq Job /\ term.partial \subseteq Job
      BY <1>0 DEF Buffers
    <3>2. CASE \E eol \in BOOLEAN : term' = OnChunk(term, j, eol)
      BY <1>0, <3>1, <3>2 DEF Texts, Buffers, OnChunk
    <3>3. CASE term' = Prompt(term, j)
      BY <1>0, <3>1, <3>3 DEF Texts, Buffers, Prompt
    <3>4. CASE term' = Answer(term)
      BY <1>0, <3>1, <3>4 DEF Texts, Buffers, Answer
    <3> QED
      BY <2>2, <3>2, <3>3, <3>4
  <2> QED
    BY <2>1, <2>2 DEF Worker, Chunk, ChunkToTerminal, Ask, RequestReturns, WriteAnswer, EngineReturns
<1>4. OnlyAbandonedStray'
  <2>1. Texts' \subseteq Job
    BY <1>3 DEF Texts, Buffers
  <2>2. j = term.section \/ status[j] \in {"TIMEOUT", "CANCELLED"}
    BY <1>0, WriterIsKnown
  <2> QED
    BY <1>1, <1>3, <2>1, <2>2, StrayStep
<1>5. ASSUME NEW k \in Job, outcome'[k] \in {"ok", "error"} PROVE wpc'[k] = "returned"
  <2>1. CASE k = j /\ outcome'[j] = outcome[j]
    BY <1>0, <1>2, <1>5, <2>1 DEF TranscriptInv, AtWork
  <2>2. CASE k # j
    BY <1>0, <1>2, <1>5, <2>2 DEF TranscriptInv
  <2> QED
    BY <1>2, <2>1, <2>2
<1>6. TranscriptInv'
  <2>1. j <= taken /\ (qpc = "launch" => taken # j)
    BY <1>0, ConstantsAssumption DEF TranscriptInv, AtWork, Job
  <2>2. UNCHANGED <<status, qpc, taken>> /\ term'.section = term.section
    BY <1>0, <1>3
  <2>3. \A k \in Job \ {j} : wpc'[k] = wpc[k]
    BY <1>0, <1>2
  <2>4. wpc'[j] \in AtWork \cup {"returned"}
    BY <1>2
  <2>5. ASSUME NEW k \in Job, k > taken PROVE wpc'[k] = "none"
    <3>1. k # j
      BY <1>0, <2>1, <2>5, ConstantsAssumption DEF Job
    <3> QED
      BY <2>3, <2>5, <3>1 DEF TranscriptInv
  <2>6. ASSUME NEW k \in Job, wpc'[k] \notin {"none", "returned"}
        PROVE  status[k] \in {"RUNNING", "TIMEOUT", "CANCELLED"}
    BY <1>0, <2>3, <2>6 DEF TranscriptInv, AtWork
  <2>7. qpc = "launch" => wpc'[taken] = "none"
    <3>1. qpc = "launch" => taken \in Job
      BY ConstantsAssumption DEF Inv1, TypeOK, StatusByPlace, Job
    <3> QED
      BY <2>1, <2>3, <3>1 DEF TranscriptInv
  <2> HIDE <1>0, <1>2, <1>3
  <2> QED
    BY <1>5, <2>2, <2>5, <2>6, <2>7 DEF TranscriptInv
<1> QED
  BY <1>4, <1>6

\* Text of another run in the open section is an abandoned run's.
THEOREM StrangersAbandoned == Spec => []OnlyAbandonedStray
<1>1. Spec => []Inv1
  BY InitInv1, NextInv1, PTL DEF Spec
<1>2. Inv1 /\ (TranscriptInv /\ OnlyAbandonedStray) /\ [Next]_vars
        => (TranscriptInv /\ OnlyAbandonedStray)'
  <2>1. ASSUME Inv1, TranscriptInv, OnlyAbandonedStray, UNCHANGED vars
        PROVE  TranscriptInv' /\ OnlyAbandonedStray'
    BY <2>1 DEF TranscriptInv, OnlyAbandonedStray, vars, queueVars, workerVars
  <2> QED
    BY <2>1, MainTranscript, QueueTranscript, WorkerTranscript DEF Next
<1> QED
  BY <1>1, <1>2, InitTranscript, PTL DEF Spec

-----------------------------------------------------------------------------
(* What a single step may not do                                           *)

LEMMA ClockNext == TypeOK /\ ClockRuns /\ [Next]_vars => ClockRuns'
<1> SUFFICES ASSUME TypeOK, ClockRuns, [Next]_vars PROVE ClockRuns'
  OBVIOUS
<1>1. TimeoutTicks \in Nat /\ TimeoutTicks > 0 /\ activeTicks \in Nat
  BY ConstantsAssumption DEF TypeOK
<1>2. activeTicks' \in {activeTicks, 0} \/ (activeTicks' = Ticks /\ Ticks < TimeoutTicks)
  <2>1. CASE Main
    BY <2>1 DEF Main, SubmitCheck, SubmitAdd, StopScanRunning, StopScanQueued, StopMark, StopReturn,
       ClearHistory, ClearTerminal, Cancel, StopCancel, TogglePin, queueVars
  <2>2. CASE Queue
    BY <2>2 DEF Queue, SkipCancelled, Take, Launch, GetResult, Tick, StopTick, ClockTick,
       TimeoutTick, Abandon, MarkAbandoned, Seal, Report, CallBack
  <2>3. ASSUME NEW j \in Job, Worker(j) PROVE activeTicks' = activeTicks
    BY <2>3, WorkerFrame DEF queueVars
  <2> QED
    BY <2>1, <2>2, <2>3 DEF Next, vars, queueVars
<1> QED
  BY <1>1, <1>2 DEF ClockRuns

\* The clock stands still while the program waits for the user: no run is
\* abandoned as TIMEOUT while it asks.
THEOREM AskingIsNoTimeout == Spec => NoTimeoutWhileAsking
<1>1. Spec => []TypeOK
  BY TypeCorrect, PTL
<1>2. Init => ClockRuns
  BY ConstantsAssumption DEF Init, ClockRuns
<1>3. Spec => []ClockRuns
  BY <1>1, <1>2, ClockNext, PTL DEF Spec
<1>4. TypeOK /\ ClockRuns /\ [Next]_vars
        => [verdict' = "TIMEOUT" /\ verdict # "TIMEOUT" => taken \notin waiting]_vars
  <2> SUFFICES ASSUME TypeOK, ClockRuns, [Next]_vars, verdict' = "TIMEOUT", verdict # "TIMEOUT",
                      taken \in waiting
               PROVE  FALSE
    OBVIOUS
  <2>1. TimeoutTick
    <3>1. CASE Main
      BY <3>1 DEF Main, SubmitCheck, SubmitAdd, StopScanRunning, StopScanQueued, StopMark,
         StopReturn,
         ClearHistory, ClearTerminal, Cancel, StopCancel, TogglePin, queueVars
    <3>2. CASE Queue
      BY <3>2 DEF Queue, SkipCancelled, Take, Launch, GetResult, Tick, StopTick, ClockTick,
         Abandon, MarkAbandoned, Seal, Report, CallBack
    <3>3. ASSUME NEW j \in Job, Worker(j) PROVE FALSE
      BY <3>3, WorkerFrame DEF queueVars
    <3> QED
      BY <3>1, <3>2, <3>3 DEF Next, vars, queueVars
  <2>2. Ticks = activeTicks /\ Ticks >= TimeoutTicks
    BY <2>1 DEF TimeoutTick, Ticks
  <2> QED
    BY <2>2, ConstantsAssumption DEF ClockRuns, TypeOK
<1> QED
  BY <1>1, <1>3, <1>4, PTL DEF Spec, NoTimeoutWhileAsking

\* Neither clear nor the trimming of submit drops a pinned run.
THEOREM PinnedStay == Spec => PinnedKept
<1>1. [Next]_vars => [jobs \cap pinned \subseteq jobs']_vars
  <2> SUFFICES ASSUME [Next]_vars PROVE jobs \cap pinned \subseteq jobs'
    OBVIOUS
  <2>1. CASE SubmitAdd
    <3>1. jobs' = Trim(jobs \cup {counter + 1})
      BY <2>1 DEF SubmitAdd
    <3> QED
      BY <3>1, TrimKeeps DEF Removable
  <2>2. CASE ClearHistory
    BY <2>2 DEF ClearHistory, Removable
  <2>3. CASE Main /\ ~SubmitAdd /\ ~ClearHistory
    BY <2>3 DEF Main, SubmitCheck, StopScanRunning, StopScanQueued, StopMark, StopReturn,
       ClearTerminal, Cancel, StopCancel, TogglePin, listVars
  <2>4. CASE Queue
    BY <2>4 DEF Queue, SkipCancelled, Take, Launch, GetResult, Tick, StopTick, ClockTick,
       TimeoutTick, Abandon, MarkAbandoned, Seal, Report, CallBack, listVars
  <2>5. ASSUME NEW j \in Job, Worker(j) PROVE jobs' = jobs
    BY <2>5, WorkerFrame DEF listVars
  <2> QED
    BY <2>1, <2>2, <2>3, <2>4, <2>5 DEF Next, vars, listVars
<1> QED
  BY <1>1, PTL DEF Spec, PinnedKept

-----------------------------------------------------------------------------
(* What the trimming of the history does                                   *)

\* The removable entries before an entry of a list.
OlderIn(list, j) == {i \in list : i < j /\ Removable(i)}

\* trimHistoryLocked removes the oldest removable entries and no more than the
\* overflow, and stops short of it only when nothing removable is left.
LEMMA TrimIsTrimmedTo ==
    ASSUME NEW list \in SUBSET Job
    PROVE  TrimmedTo(Trim(list), list)
<1> DEFINE kept == Trim(list)
<1> DEFINE gone == list \ kept
<1> DEFINE size == Cardinality(list)
<1>1. /\ Job \subseteq Nat /\ IsFiniteSet(Job) /\ MaxHistory \in Nat /\ MaxSubmits \in Nat
      /\ \A j \in Job : j <= MaxSubmits
  BY ConstantsAssumption, FS_Interval DEF Job
<1>2. \A j \in list : j \in gone <=> Removable(j) /\ Cardinality(OlderIn(list, j)) + MaxHistory < size
  BY DEF Trim, OlderIn
<1>3. kept \subseteq list
  BY DEF Trim
<1>4. IsFiniteSet(list) /\ IsFiniteSet(kept) /\ IsFiniteSet(gone)
      /\ \A j \in list : IsFiniteSet(OlderIn(list, j))
  <2>1. IsFiniteSet(list)
    BY <1>1, FS_Subset
  <2>2. \A j \in list : OlderIn(list, j) \in SUBSET list
    BY DEF OlderIn
  <2> QED
    BY <1>3, <2>1, <2>2, FS_Subset
<1>5. size \in Nat /\ Cardinality(kept) \in Nat /\ Cardinality(gone) \in Nat
      /\ \A j \in list : Cardinality(OlderIn(list, j)) \in Nat
  BY <1>4, FS_CardinalityType
<1>6. Cardinality(kept) = size - Cardinality(gone)
  <2>1. list \ gone = kept /\ list \cap gone = gone
    BY <1>3
  <2>2. Cardinality(list \ gone) = Cardinality(list) - Cardinality(list \cap gone)
    BY <1>4, FS_Difference
  <2> QED
    BY <2>1, <2>2
<1>7a. \A j \in Job : j \in gone => j \in list /\ j \notin kept
  OBVIOUS
<1> HIDE DEF kept, size
<1>7. ASSUME NEW j \in gone, NEW k \in kept, Removable(k) PROVE j < k
  <2>1. k \in list /\ j \in list /\ k \in Nat /\ j \in Nat /\ k # j
    BY <1>1, <1>3
  <2>2. CASE k < j
    <3>1. OlderIn(list, k) \subseteq OlderIn(list, j)
      <4>1. \A i \in list : i \in Nat /\ (i < k => i < j)
        BY <1>1, <2>1, <2>2
      <4> QED
        BY <4>1 DEF OlderIn
    <3>2. Cardinality(OlderIn(list, k)) <= Cardinality(OlderIn(list, j))
      BY <1>4, <2>1, <3>1, FS_Subset
    <3> QED
      BY <1>1, <1>2, <1>5, <1>7, <2>1, <3>2
  <2> QED
    BY <2>1, <2>2
<1>8. ASSUME kept # list PROVE Cardinality(kept) >= MaxHistory
  <2>1. gone # {} /\ gone \subseteq Nat /\ \A m \in gone : m <= MaxSubmits
    BY <1>1, <1>3, <1>8
  <2>2. PICK j \in gone : \A m \in gone : m <= j
    BY <1>1, <2>1, GreatestNatural
  <2>3. gone \ {j} \subseteq OlderIn(list, j)
    <3>1. ASSUME NEW m \in gone \ {j} PROVE m \in OlderIn(list, j)
      <4>1. m < j /\ m \in list /\ Removable(m)
        BY <1>2, <2>1, <2>2
      <4> QED
        BY <4>1 DEF OlderIn
    <3> QED
      BY <3>1
  <2>4. Cardinality(gone) - 1 <= Cardinality(OlderIn(list, j))
    <3>1. Cardinality(gone \ {j}) = Cardinality(gone) - 1
      BY <1>4, FS_RemoveElement
    <3> QED
      BY <1>4, <2>3, <3>1, FS_Subset
  <2>5. Cardinality(OlderIn(list, j)) + MaxHistory < size /\ Cardinality(OlderIn(list, j)) \in Nat
    BY <1>2, <1>5
  <2> QED
    BY <1>1, <1>5, <1>6, <2>4, <2>5
<1>9. ASSUME Cardinality(kept) > MaxHistory, NEW k0 \in kept, Removable(k0) PROVE FALSE
  <2> DEFINE left == {k \in kept : Removable(k)}
  <2>1. left # {} /\ left \subseteq Nat
    BY <1>1, <1>3, <1>9
  <2>2. PICK k \in left : \A m \in left : k <= m
    BY <2>1, LeastNatural
  <2>3. OlderIn(list, k) \subseteq gone
    BY <1>1, <1>3, <2>1, <2>2 DEF OlderIn
  <2>4. Cardinality(OlderIn(list, k)) <= Cardinality(gone)
    BY <1>4, <2>3, FS_Subset
  <2>5. k \in list /\ k \notin gone /\ Removable(k)
    BY <1>3
  <2>6. ~(Cardinality(OlderIn(list, k)) + MaxHistory < size)
    BY <1>2, <2>5
  <2> QED
    BY <1>1, <1>5, <1>6, <1>9, <2>4, <2>5, <2>6
<1>10. \A j \in gone : Removable(j)
  BY <1>2
<1> HIDE DEF gone
<1>11. gone = list \ kept
  BY DEF gone
<1> QED
  BY <1>7, <1>8, <1>9, <1>10, <1>11 DEF TrimmedTo, kept

\* Only submit trims, and it trims so.
THEOREM OldestGoFirst == Spec => TrimDropsOldest
<1>1. Inv1 /\ [Next]_vars => (counter' # counter => TrimmedTo(jobs', jobs \cup {counter'}))
  <2> SUFFICES ASSUME Inv1, [Next]_vars, counter' # counter
               PROVE  TrimmedTo(jobs', jobs \cup {counter'})
    OBVIOUS
  <2>1. CASE SubmitAdd
    <3>1. counter' = counter + 1 /\ jobs' = Trim(jobs \cup {counter + 1}) /\ mpc = "adding"
      BY <2>1 DEF SubmitAdd
    <3>2. jobs \cup {counter + 1} \in SUBSET Job
      BY <3>1, ConstantsAssumption DEF Inv1, TypeOK, Job
    <3> QED
      BY <3>1, <3>2, TrimIsTrimmedTo
  <2>2. ASSUME Main, ~SubmitAdd PROVE counter' = counter
    BY <2>2 DEF Main, SubmitCheck, StopScanRunning, StopScanQueued, StopMark, StopReturn,
       ClearHistory,
       ClearTerminal, Cancel, StopCancel, TogglePin, listVars
  <2>3. CASE Queue
    BY <2>3 DEF Queue, SkipCancelled, Take, Launch, GetResult, Tick, StopTick, ClockTick,
       TimeoutTick, Abandon, MarkAbandoned, Seal, Report, CallBack, listVars
  <2>4. ASSUME NEW j \in Job, Worker(j) PROVE counter' = counter
    BY <2>4, WorkerFrame DEF listVars
  <2> QED
    BY <2>1, <2>2, <2>3, <2>4 DEF Next, vars, listVars
<1>2. Spec => []Inv1
  BY InitInv1, NextInv1, PTL DEF Spec
<1> QED
  BY <1>1, <1>2, PTL DEF Spec, TrimDropsOldest

-----------------------------------------------------------------------------
(* The scheduler implements RunQueue                                       *)

LEMMA RefinementStep ==
    ASSUME Inv1, PendingIsListed, RoomToAdd, [Next]_vars
    PROVE  [RQ!Next]_(RQ!vars)
<1>0. /\ status \in [Job -> Status] /\ taken \in Nat /\ counter \in Nat /\ StatusByPlace
      /\ RQ!Job = Job /\ RQ!Outcomes = Terminal /\ RQ!Waiting(status) = PendingSet
  BY ConstantsAssumption
     DEF Inv1, TypeOK, RQ!Job, Job, RQ!Outcomes, Terminal, RQ!Waiting, PendingSet, Pending
<1>1. StatusStep
  BY NextStatusStep
<1>2. CASE SubmitsOne
  <2>1. counter < MaxSubmits /\ Cardinality(PendingSet) < MaxPending
    BY <1>2 DEF SubmitsOne, RoomToAdd
  <2>2. RQ!Cardinality(RQ!Waiting(status)) < MaxPending
    <3>1. RQ!Cardinality(PendingSet) = Cardinality(PendingSet)
      BY Zenon DEF RQ!Cardinality, Cardinality, RQ!IsFiniteSet, IsFiniteSet
    <3> QED
      BY <1>0, <2>1, <3>1
  <2>3. RQ!Submit
    BY <1>2, <2>1, <2>2 DEF SubmitsOne, RQ!Submit
  <2> QED
    BY <2>3 DEF RQ!Next
<1>3. CASE KeepsAll
  BY <1>3 DEF KeepsAll, RQ!vars
<1>4. ASSUME NEW n \in Job, CancelsOne(n) PROVE RQ!Next
  BY <1>0, <1>4 DEF CancelsOne, RQ!Next, RQ!Cancel
<1>5. ASSUME NEW n \in Job, StartsOne(n) PROVE RQ!Next
  <2>1. ASSUME NEW i \in 1 .. n - 1 PROVE status[i] \in Terminal
    <3>1. i \in Job /\ i <= taken /\ n \in Nat /\ qpc = "idle"
      BY <1>0, <1>5, <2>1, ConstantsAssumption DEF StartsOne, Job
    <3>2. i = taken \/ i < taken
      BY <1>0, <3>1 DEF Job
    <3> QED
      BY <1>0, <3>1, <3>2 DEF StatusByPlace, Executing
  <2>2. RQ!Start(n)
    BY <1>0, <1>5, <2>1 DEF StartsOne, RQ!Start
  <2> QED
    BY <1>0, <2>2 DEF RQ!Next, RQ!StartSome
<1>6. ASSUME NEW n \in Job, EndsOne(n) PROVE RQ!Next
  <2>1. RQ!Finish(n)
    BY <1>0, <1>6 DEF EndsOne, RQ!Finish
  <2> QED
    BY <1>0, <2>1 DEF RQ!Next, RQ!FinishSome
<1> QED
  BY <1>1, <1>2, <1>3, <1>4, <1>5, <1>6 DEF StatusStep

\* Every behaviour of the scheduler is one of RunQueue: numbered, capped,
\* one at a time, in order, cancelled only while waiting, final once ended.
THEOREM Implements == Spec => RQ!Safety
<1>1. Spec => []Inv1
  BY InitInv1, NextInv1, PTL DEF Spec
<1>2. Spec => [](PendingIsListed /\ PendingCap /\ RoomToAdd)
  <2>1. Inv1 /\ (PendingIsListed /\ PendingCap /\ RoomToAdd) /\ [Next]_vars
          => (PendingIsListed /\ PendingCap /\ RoomToAdd)'
    BY ListedNext, CapNext
  <2> QED
    BY <1>1, <2>1, InitLists, PTL DEF Spec
<1>3. Init => RQ!Init
  BY DEF Init, RQ!Init, RQ!Job, Job
<1>4. Inv1 /\ (PendingIsListed /\ PendingCap /\ RoomToAdd) /\ [Next]_vars
        => [RQ!Next]_(RQ!vars)
  BY RefinementStep
<1> QED
  BY <1>1, <1>2, <1>3, <1>4, PTL DEF Spec, RQ!Safety
=============================================================================
