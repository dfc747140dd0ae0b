---------------------------- MODULE InputBridge -----------------------------
(***************************************************************************)
(* RinInputBridge (RinInputBridge.kt): how the question of a running Rin   *)
(* program reaches the user and the answer comes back.  Who takes part:    *)
(*   - threads that run programs: each blocks in request until there is an *)
(*     answer, or an interrupt (its run was stopped), or the time is over; *)
(*   - the main thread: it executes what was posted to it, in order, and   *)
(*     between two messages the callbacks of the screens and of the user;  *)
(*   - the screens: instances of MainActivity, which set the presenter     *)
(*     when created and clear it when destroyed.  Each has one terminal    *)
(*     input line (RinTerminalView) and one dialog, and in each of them    *)
(*     room for one question.                                              *)
(* A question is a Pending object: the number of the call of request that  *)
(* made it.  A text is "text"; null is "null".                             *)
(***************************************************************************)
EXTENDS Naturals, Sequences

CONSTANTS
    MaxQuestions,   \* bound on the calls of request
    MaxScreens,     \* bound on the MainActivity instances ever created
    Threads,        \* the threads that run programs
    Interruptible   \* those of RinJobScheduler.workerPool, which a stop interrupts

ASSUME BridgeAssumption ==
    /\ MaxQuestions \in Nat /\ MaxScreens \in Nat
    /\ Interruptible \subseteq Threads

Question == 1 .. MaxQuestions
Screen   == 1 .. MaxScreens
None     == 0            \* no question, no screen
PresentAll == 0          \* the message setPresenter posts; present(q) is q itself

Place == {"line", "dialog"}

VARIABLES
    \* the bridge
    asked,        \* how many calls of request there were
    pending,      \* the list of questions
    done,         \* Pending.done, the questions for which it is true
    shown,        \* Pending.shown, likewise
    open,         \* the questions whose latch was counted down
    answer,       \* Pending.answer
    presenter,    \* the screen that set the presenter, or None
    \* the threads that run programs
    tpc,          \* where each is in request
    question,     \* the question each asks
    interrupted,  \* the threads with their interrupt flag set
    result,       \* what request returned for each question, "none" before
    \* the main thread and the screens
    inbox,        \* what is posted to the main thread
    screen,       \* the life of each screen
    slot,         \* the question each place of each screen would deliver an answer to
    call          \* what the main thread is about to deliver, past the check of deliver

bridgeVars == <<pending, done, shown, open, answer, presenter>>
threadVars == <<tpc, question, interrupted, result>>
uiVars     == <<inbox, screen, slot, call>>
vars == <<asked, bridgeVars, threadVars, uiVars>>

ThreadPc == {"idle", "added", "awaiting", "leaving", "removing"}
Life     == {"new", "alive", "finishing", "gone"}

TypeOK ==
    /\ asked \in 0 .. MaxQuestions
    /\ pending \subseteq Question /\ done \subseteq Question
    /\ shown \subseteq Question /\ open \subseteq Question
    /\ answer \in [Question -> {"null", "text"}]
    /\ presenter \in Screen \cup {None}
    /\ tpc \in [Threads -> ThreadPc]
    /\ question \in [Threads -> Question \cup {None}]
    /\ interrupted \subseteq Interruptible
    /\ result \in [Question -> {"none", "null", "text"}]
    /\ inbox \in Seq(Question \cup {PresentAll})
    /\ screen \in [Screen -> Life]
    /\ slot \in [Screen -> [Place -> Question \cup {None}]]
    /\ call \in [q : Question \cup {None}, v : {"none", "null", "text"}]

Empty  == [p \in Place |-> None]
NoCall == [q |-> None, v |-> "none"]

Init ==
    /\ asked = 0
    /\ pending = {} /\ done = {} /\ shown = {} /\ open = {}
    /\ answer = [q \in Question |-> "null"]
    /\ presenter = None
    /\ tpc = [t \in Threads |-> "idle"]
    /\ question = [t \in Threads |-> None]
    /\ interrupted = {}
    /\ result = [q \in Question |-> "none"]
    /\ inbox = <<>>
    /\ screen = [s \in Screen |-> "new"]
    /\ slot = [s \in Screen |-> Empty]
    /\ call = NoCall

-----------------------------------------------------------------------------
(* A thread in request                                                     *)

\* request: make the question and add it to the list.
Ask(t) ==
    LET q == asked + 1
    IN  /\ tpc[t] = "idle" /\ asked < MaxQuestions
        /\ asked' = q
        /\ question' = [question EXCEPT ![t] = q]
        /\ pending' = pending \cup {q}
        /\ tpc' = [tpc EXCEPT ![t] = "added"]
        /\ UNCHANGED <<done, shown, open, answer, presenter, interrupted, result, uiVars>>

\* request: main.post { present(p) }.
PostPresent(t) ==
    /\ tpc[t] = "added"
    /\ inbox' = Append(inbox, question[t])
    /\ tpc' = [tpc EXCEPT ![t] = "awaiting"]
    /\ UNCHANGED <<asked, bridgeVars, question, interrupted, result, screen, slot, call>>

Leaves(t, v) ==
    /\ tpc[t] = "awaiting"
    /\ tpc' = [tpc EXCEPT ![t] = "leaving"]
    /\ result' = [result EXCEPT ![question[t]] = v]
    /\ UNCHANGED <<asked, bridgeVars, question, uiVars>>

\* await returns true.
WakeAnswered(t) ==
    /\ t \notin interrupted /\ question[t] \in open
    /\ Leaves(t, answer[question[t]])
    /\ UNCHANGED interrupted

Expires(t) == t \notin interrupted /\ question[t] \notin open

\* await returns false after MAX_WAIT_MS.
WakeExpired(t) ==
    /\ Expires(t)
    /\ Leaves(t, "null")
    /\ UNCHANGED interrupted

\* Mutant: the catch block forgets to set the flag again.
FlagAfterInterrupt_Lost(t) == interrupted \ {t}
FlagAfterInterrupt(t) == interrupted

\* await throws InterruptedException, even when an answer is there: it looks at
\* the flag first.  The catch block sets the flag that the exception cleared.
WakeInterrupted(t) ==
    /\ t \in interrupted
    /\ Leaves(t, "null")
    /\ interrupted' = FlagAfterInterrupt(t)

\* finally: p.done = true ...
LeaveDone(t) ==
    /\ tpc[t] = "leaving"
    /\ done' = done \cup {question[t]}
    /\ tpc' = [tpc EXCEPT ![t] = "removing"]
    /\ UNCHANGED <<asked, pending, shown, open, answer, presenter, question, interrupted, result,
                   uiVars>>

\* ... and pending.remove(p).
LeaveRemoved(t) ==
    /\ tpc[t] = "removing"
    /\ pending' = pending \ {question[t]}
    /\ question' = [question EXCEPT ![t] = None]
    /\ tpc' = [tpc EXCEPT ![t] = "idle"]
    /\ UNCHANGED <<asked, done, shown, open, answer, presenter, interrupted, result, uiVars>>

\* RinJobScheduler stops or times out the run of this thread: future.cancel(true).
Interrupt(t) ==
    /\ t \in Interruptible \ interrupted
    /\ interrupted' = interrupted \cup {t}
    /\ UNCHANGED <<asked, bridgeVars, tpc, question, result, uiVars>>

-----------------------------------------------------------------------------
(* The main thread: messages                                               *)

\* It does one thing after the other: nothing else while it is in deliver.
MainIsFree == call = NoCall

\* present, for each question of Q in the order of the list.  The presenter
\* shows it in the terminal's input line or, when the console is hidden, in a
\* dialog, unless the screen is being closed; the last question takes the place
\* of any other that was there.
Present(Q) ==
    LET new == (Q \ done) \ shown
    IN  IF presenter = None \/ new = {}
        THEN UNCHANGED <<shown, slot>>
        ELSE /\ shown' = shown \cup new
             /\ \E p \in Place, last \in new :
                    /\ \A q \in new : q <= last
                    /\ slot' = IF p = "dialog" /\ screen[presenter] = "finishing"
                               THEN slot
                               ELSE [slot EXCEPT ![presenter][p] = last]

\* The next message: present(q), or every pending question for a new presenter.
RunMessage ==
    /\ MainIsFree /\ inbox # <<>>
    /\ inbox' = Tail(inbox)
    /\ Present(IF Head(inbox) = PresentAll THEN pending ELSE {Head(inbox)})
    /\ UNCHANGED <<asked, pending, done, open, answer, presenter, threadVars, screen, call>>

-----------------------------------------------------------------------------
(* The main thread: screens and the user                                   *)

Exists(s) == screen[s] \in {"alive", "finishing"}

\* The screen the user sees: the last one opened that is not closing.
Visible(s) == screen[s] = "alive" /\ \A s2 \in Screen : s2 > s => screen[s2] # "alive"

AfterSetPresenter == Append(inbox, PresentAll)

\* MainActivity.onCreate: setPresenter.  A screen opened from the files or
\* libraries list, or after a finish, comes while an older one still exists.
Create(s) ==
    /\ MainIsFree
    /\ screen[s] = "new" /\ \A s2 \in 1 .. s - 1 : screen[s2] # "new"
    /\ screen' = [screen EXCEPT ![s] = "alive"]
    /\ presenter' = s
    /\ inbox' = AfterSetPresenter
    /\ UNCHANGED <<asked, pending, done, shown, open, answer, threadVars, slot, call>>

\* finish(): from now on isFinishing is true.
Finish(s) ==
    /\ MainIsFree /\ screen[s] = "alive"
    /\ screen' = [screen EXCEPT ![s] = "finishing"]
    /\ UNCHANGED <<asked, bridgeVars, threadVars, inbox, slot, call>>

\* Mutants: any screen clears the presenter; a question once shown keeps its mark.
Clears_Any(s) == presenter # None
Clears(s) == presenter = s
ShownAfterClear_Kept == shown
ShownAfterClear == shown \ pending

\* onDestroy: dismiss the dialog, clearPresenter; then the view is detached
\* and forgets its question.  Neither delivers anything.
Destroy(s) ==
    /\ MainIsFree /\ Exists(s)
    /\ screen' = [screen EXCEPT ![s] = "gone"]
    /\ slot' = [slot EXCEPT ![s] = Empty]
    /\ presenter' = IF Clears(s) THEN None ELSE presenter
    /\ shown' = IF Clears(s) THEN ShownAfterClear ELSE shown
    /\ UNCHANGED <<asked, pending, done, open, answer, threadVars, inbox, call>>

\* Mutant: every call of deliver counts.
Delivers_Always(q) == TRUE
Delivers(q) == q \notin done

Asks(s, p) == Visible(s) /\ slot[s][p] # None

\* The user answers, or cancels, what one place of the visible screen asks. The
\* place forgets the question, and deliver looks whether it is done ...
Answer(s, p, v) ==
    LET q == slot[s][p]
    IN  /\ MainIsFree /\ Asks(s, p)
        /\ slot' = [slot EXCEPT ![s][p] = None]
        /\ call' = IF Delivers(q) THEN [q |-> q, v |-> v] ELSE NoCall
        /\ UNCHANGED <<asked, bridgeVars, threadVars, inbox, screen>>

\* ... and sets answer and done and opens the latch.  The request may have given
\* up since the check.  Its thread sees nothing of these three before the latch,
\* so they are one step.
Deliver ==
    /\ ~MainIsFree
    /\ answer' = [answer EXCEPT ![call.q] = call.v]
    /\ done' = done \cup {call.q}
    /\ open' = open \cup {call.q}
    /\ call' = NoCall
    /\ UNCHANGED <<asked, pending, shown, presenter, threadVars, inbox, screen, slot>>

-----------------------------------------------------------------------------

Leave(t) == LeaveDone(t) \/ LeaveRemoved(t)

Thread(t) ==
    \/ Ask(t) \/ PostPresent(t) \/ Leave(t) \/ Interrupt(t)
    \/ WakeAnswered(t) \/ WakeExpired(t) \/ WakeInterrupted(t)

User(s) ==
    \/ Create(s) \/ Finish(s) \/ Destroy(s)
    \/ \E p \in Place, v \in {"null", "text"} : Answer(s, p, v)

Next ==
    \/ RunMessage \/ Deliver
    \/ \E t \in Threads : Thread(t)
    \/ \E s \in Screen : User(s)

Spec == Init /\ [][Next]_vars

\* What runs without anybody's help: a thread that is not blocked, and the
\* main thread's queue.  Nobody promises an answer, a screen or a stop.
RunsOn(t) ==
    \/ PostPresent(t) \/ Leave(t)
    \/ WakeAnswered(t) \/ WakeInterrupted(t)

PatientSpec ==
    /\ Spec /\ WF_vars(RunMessage) /\ WF_vars(Deliver)
    /\ \A t \in Threads : WF_vars(RunsOn(t))

\* And the clock, which makes every wait end.
FairSpec == PatientSpec /\ \A t \in Threads : WF_vars(WakeExpired(t))

-----------------------------------------------------------------------------
(* What it promises                                                        *)

\* The first answer accepted for a question stands, although after overlapping
\* screens the same question can stand on two of them, and the dead one of a
\* late user is still there.
FirstAnswerStands ==
    [][\A q \in open : q \in open' /\ answer'[q] = answer[q]]_vars

\* The screen opened last is the one asked to present questions, until it is
\* destroyed: neither its creation before the destruction of an older screen
\* nor the stale call of clearPresenter by that one takes this from it.
PresenterIsNewest ==
    \A s \in Screen :
        presenter = s <=> Exists(s) /\ \A s2 \in s + 1 .. MaxScreens : screen[s2] = "new"

\* In front of the user: on a screen that exists (a destroyed one has no places).
InFront(q) == \E s \in Screen, p \in Place : slot[s][p] = q
IsClosing  == \E s \in Screen : screen[s] = "finishing"

\* Rotation: the new screen is created when the old one is gone.
OneScreen == \A s, s2 \in Screen : Exists(s) /\ Exists(s2) => s = s2

\* No pending question gets lost (RinInputBridge.kt:20-21): one marked as shown is
\* in front of the user, or its answer is being delivered, or a screen is closing.
\* True while screens come one after the other and one thread asks.
NoQuestionLost ==
    \A q \in (pending \cap shown) \ done : InFront(q) \/ call.q = q \/ IsClosing

\* The bounded wait: no request lasts for ever, whatever the user does.
RequestReturns == \A t \in Threads : tpc[t] # "idle" ~> tpc[t] = "idle"

\* While screens come one after the other and one thread asks, a pending question comes in front
\* of the user when there is a screen that does not close, whichever of the two came first, again
\* when the screen rotates, and without any help from the clock: the mark `shown` is not enough.
QuestionIsShown ==
    \A q \in Question :
        []OneScreen => (q \in pending ~> InFront(q) \/ q \in done \/ presenter = None \/ IsClosing)

\* A stopped run is not held up by its questions, not by later ones either,
\* although nobody answers and the wait has no end.
StoppedRunLeaves == \A t \in Threads : t \in interrupted ~> [](tpc[t] = "idle")

\* The bridge is an AskUser.  An answer past the check of deliver is offered; a
\* request has returned when it sets done, since an answer that comes after await
\* gave up and before that is still taken, and lost.
Offered  == [q \in Question |-> IF q \in open THEN answer[q] ELSE IF call.q = q THEN call.v ELSE "none"]
Accepted == [q \in Question |-> IF q \in open THEN answer[q] ELSE "none"]
Leaving  == {question[t] : t \in {u \in Threads : tpc[u] = "leaving"}}
Returned == [q \in Question |-> IF q \in Leaving THEN "none" ELSE result[q]]
AU == INSTANCE AskUser WITH offered <- Offered, accepted <- Accepted, result <- Returned
IsAskUser == AU!Spec

-----------------------------------------------------------------------------
(* The inductive invariant behind these promises                           *)

\* A thread has a question exactly while it is in request, and it is its own.
OwnQuestion ==
    /\ \A t \in Threads : question[t] = None <=> tpc[t] = "idle"
    /\ \A t, u \in Threads : question[t] = question[u] /\ question[t] # None => t = u

\* Nothing refers to a question that was not asked yet.
OnlyAsked ==
    /\ \A t \in Threads : question[t] <= asked
    /\ \A s \in Screen, p \in Place : slot[s][p] <= asked
    /\ \A i \in 1 .. Len(inbox) : inbox[i] <= asked
    /\ pending \cup done \subseteq 1 .. asked /\ call.q <= asked

\* An accepted answer makes the question done, and the one on its way is the first;
\* a request sets its result before it makes the question done; a result other than null is an accepted answer.
AnswersAndResults ==
    /\ open \subseteq done
    /\ call # NoCall => call.q \in Question \ open /\ call.v # "none"
    /\ \A q \in Question : result[q] # "none" => q \in done \cup Leaving
    /\ \A t \in Threads :
        /\ tpc[t] \in {"added", "awaiting"} => result[question[t]] = "none"
        /\ tpc[t] = "leaving" =>
              LET q == question[t]
              IN  result[q] = "null" \/ (q \in open /\ result[q] = answer[q])

BridgeInv == OwnQuestion /\ OnlyAsked /\ AnswersAndResults

-----------------------------------------------------------------------------
(* What the comments say, and the code does not do                         *)

\* setPresenter is called by "the active interface": the screen the user sees,
\* once no other one is closing, is the one that presents.
ActiveScreenPresents ==
    \A s \in Screen :
        Visible(s) /\ (\A s2 \in Screen : screen[s2] # "finishing") => presenter = s

\* isAwaitingInput is "true if a program waits for an answer now": the input
\* line does not go on waiting for a question that is over.
LineIsFreed ==
    \A s \in Screen, q \in Question :
        slot[s]["line"] = q /\ q \notin pending ~> slot[s]["line"] # q
=============================================================================
