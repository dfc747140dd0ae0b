------------------------- MODULE InputBridgeProofs --------------------------
(***************************************************************************)
(* Proofs about InputBridge, for every number of questions and screens and *)
(* every set of threads.                                                   *)
(***************************************************************************)
EXTENDS InputBridge, TLAPS

-----------------------------------------------------------------------------
(* Types                                                                   *)

LEMMA InitType == Init => TypeOK
BY BridgeAssumption DEF Init, TypeOK, Question, Screen, None, Place, Empty, ThreadPc, Life, NoCall

LEMMA ThreadType ==
    ASSUME TypeOK, OwnQuestion, NEW t \in Threads, Thread(t)
    PROVE  TypeOK'
<1> USE BridgeAssumption DEF TypeOK, ThreadPc, bridgeVars, threadVars, uiVars
<1>1. CASE Ask(t)
  <2>1. asked + 1 \in Question /\ asked + 1 \in 0 .. MaxQuestions
    BY <1>1 DEF Ask, Question
  <2> QED
    BY <1>1, <2>1 DEF Ask
<1>2. CASE PostPresent(t)
  <2>1. question[t] \in Question \cup {PresentAll}
    BY DEF None, PresentAll
  <2> QED
    BY <1>2, <2>1 DEF PostPresent
<1>3. CASE LeaveDone(t) \/ LeaveRemoved(t)
  <2>1. CASE LeaveRemoved(t)
    BY <2>1 DEF LeaveRemoved
  <2>2. CASE LeaveDone(t)
    <3>1. question[t] \in Question
      BY <2>2 DEF LeaveDone, OwnQuestion
    <3> QED
      BY <2>2, <3>1 DEF LeaveDone
  <2> QED
    BY <1>3, <2>1, <2>2
<1>4. CASE Interrupt(t)
  BY <1>4 DEF Interrupt
<1>5. CASE WakeAnswered(t) \/ WakeExpired(t) \/ WakeInterrupted(t)
  <2>1. /\ tpc' = [tpc EXCEPT ![t] = "leaving"]
        /\ UNCHANGED <<asked, bridgeVars, question, uiVars>>
        /\ interrupted' = interrupted
    BY <1>5 DEF WakeAnswered, WakeExpired, WakeInterrupted, Leaves, FlagAfterInterrupt
  <2>2. PICK v : result' = [result EXCEPT ![question[t]] = v] /\ v \in {"null", answer[question[t]]}
    BY <1>5 DEF WakeAnswered, WakeExpired, WakeInterrupted, Leaves
  <2>3. question[t] \in Question
    BY <1>5 DEF WakeAnswered, WakeExpired, WakeInterrupted, Leaves, OwnQuestion
  <2>4. result' \in [Question -> {"none", "null", "text"}]
    BY <2>2, <2>3
  <2> QED
    BY <2>1, <2>4
<1> QED
  BY <1>1, <1>2, <1>3, <1>4, <1>5 DEF Thread, Leave

LEMMA MessageType ==
    ASSUME TypeOK, RunMessage
    PROVE  TypeOK'
<1> USE BridgeAssumption DEF TypeOK, Life, Place, bridgeVars, threadVars, uiVars
<1> DEFINE Q == IF Head(inbox) = PresentAll THEN pending ELSE {Head(inbox)}
<1>1. inbox' \in Seq(Question \cup {PresentAll}) /\ Q \subseteq Question
  BY DEF RunMessage
<1>2. Present(Q)
  BY DEF RunMessage
<1>3. shown' \subseteq Question /\ slot' \in [Screen -> [Place -> Question \cup {None}]]
  <2> DEFINE new == (Q \ done) \ shown
  <2>1. CASE UNCHANGED <<shown, slot>>
    BY <2>1
  <2>2. ASSUME presenter # None,
               NEW p \in Place, NEW last \in new,
               shown' = shown \cup new,
               slot' = slot \/ slot' = [slot EXCEPT ![presenter][p] = last]
        PROVE  /\ shown' \subseteq Question
               /\ slot' \in [Screen -> [Place -> Question \cup {None}]]
    <3>1. /\ new \subseteq Question /\ presenter \in Screen /\ shown \subseteq Question
          /\ slot \in [Screen -> [Place -> Question \cup {None}]]
      BY <1>1, <2>2
    <3> HIDE DEF new, Q, Place, TypeOK
    <3> QED
      BY <2>2, <3>1
  <2> QED
    BY <1>2, <2>1, <2>2 DEF Present
<1> QED
  BY <1>1, <1>3 DEF RunMessage

LEMMA DeliverType ==
    ASSUME TypeOK, AnswersAndResults, Deliver
    PROVE  TypeOK'
<1>1. call.q \in Question /\ call.v \in {"null", "text"} /\ NoCall \in [q : {None}, v : {"none"}]
  BY DEF Deliver, MainIsFree, AnswersAndResults, TypeOK, NoCall
<1> QED
  BY <1>1 DEF Deliver, TypeOK, threadVars

LEMMA UserType ==
    ASSUME TypeOK, NEW s \in Screen, User(s)
    PROVE  TypeOK'
<1> USE BridgeAssumption DEF TypeOK, Life, bridgeVars, threadVars, uiVars
<1>1. CASE Create(s)
  BY <1>1 DEF Create, AfterSetPresenter
<1>2. CASE Finish(s)
  BY <1>2 DEF Finish
<1>3. CASE Destroy(s)
  BY <1>3 DEF Destroy, Empty, Clears, ShownAfterClear
<1>4. CASE \E p \in Place, v \in {"null", "text"} : Answer(s, p, v)
  <2>1. PICK p \in Place, v \in {"null", "text"} : Answer(s, p, v)
    BY <1>4
  <2>2. slot[s][p] \in Question /\ NoCall \in [q : {None}, v : {"none"}]
    BY <2>1 DEF Answer, Asks, NoCall
  <2> QED
    BY <2>1, <2>2 DEF Answer, None
<1> QED
  BY <1>1, <1>2, <1>3, <1>4 DEF User

-----------------------------------------------------------------------------
(* The inductive invariant                                                 *)

LEMMA InitBridgeInv == Init => BridgeInv
BY BridgeAssumption DEF Init, BridgeInv, OwnQuestion, OnlyAsked, AnswersAndResults,
   Question, Screen, None, Empty, NoCall

LEMMA ThreadBridgeInv ==
    ASSUME TypeOK, BridgeInv, TypeOK', NEW t \in Threads, Thread(t)
    PROVE  BridgeInv'
<1> USE DEF BridgeInv
<1>1. CASE Ask(t)
  <2> DEFINE q == asked + 1
  <2>1. /\ asked \in Nat /\ q \in Question /\ asked' = q
        /\ question[t] = None /\ tpc[t] = "idle"
    BY <1>1, BridgeAssumption DEF Ask, OwnQuestion, TypeOK, Question
  <2>2. \A u \in Threads : question[u] # q
    BY <2>1 DEF OnlyAsked
  <2>3. /\ question' = [question EXCEPT ![t] = q]
        /\ tpc' = [tpc EXCEPT ![t] = "added"]
        /\ UNCHANGED <<done, open, answer, result, slot, call>>
    BY <1>1 DEF Ask, uiVars
  <2>4. OwnQuestion'
    BY <2>1, <2>2, <2>3 DEF OwnQuestion, TypeOK, Question, None
  <2>5. OnlyAsked'
    <3>1. \A u \in Threads : question'[u] <= q
      BY <2>1, <2>3 DEF OnlyAsked, TypeOK, Question, None
    <3>2. \A s \in Screen, p \in Place : slot'[s][p] <= q
      <4> SUFFICES ASSUME NEW s \in Screen, NEW p \in Place
                   PROVE  slot[s][p] <= q
        BY <2>3
      <4>1. slot[s][p] \in Nat /\ slot[s][p] <= asked
        BY DEF OnlyAsked, TypeOK, Question, None
      <4> QED
        BY <4>1, <2>1
    <3>3. (pending \cup done)' \subseteq 1 .. q
      BY <1>1, <2>1 DEF OnlyAsked, Ask
    <3>4. \A i \in 1 .. Len(inbox') : inbox'[i] <= q
      <4>1. inbox' = inbox
        BY <1>1 DEF Ask, uiVars
      <4>2. \A i \in 1 .. Len(inbox) : inbox[i] \in Nat
        BY DEF TypeOK, Question, PresentAll
      <4> QED
        BY <2>1, <4>1, <4>2 DEF OnlyAsked
    <3>5. call'.q <= q
      BY <2>1, <2>3 DEF OnlyAsked, TypeOK, Question, None
    <3> QED
      BY <2>1, <3>1, <3>2, <3>3, <3>4, <3>5 DEF OnlyAsked
  <2>6. Leaving' = Leaving
    BY <2>1, <2>3 DEF Leaving, TypeOK
  <2>7. result[q] = "none"
    BY <2>1, <2>2 DEF AnswersAndResults, OnlyAsked, Leaving
  <2>8. AnswersAndResults'
    <3>1. \A u \in Threads : tpc'[u] \in {"added", "awaiting"} => result'[question'[u]] = "none"
      BY <2>3, <2>7 DEF AnswersAndResults, TypeOK
    <3>2. \A u \in Threads : tpc'[u] = "leaving" =>
             LET k == question'[u]
             IN  result'[k] = "null" \/ (k \in open' /\ result'[k] = answer'[k])
      BY <2>3 DEF AnswersAndResults, TypeOK
    <3> QED
      BY <2>3, <2>6, <3>1, <3>2 DEF AnswersAndResults
  <2> QED
    BY <2>4, <2>5, <2>8
<1>2. CASE PostPresent(t)
  <2>1. Leaving' = Leaving
    BY <1>2 DEF PostPresent, Leaving, TypeOK
  <2>2. OwnQuestion' /\ AnswersAndResults'
    BY <1>2, <2>1 DEF PostPresent, bridgeVars, OwnQuestion, AnswersAndResults, TypeOK
  <2>3. question[t] <= asked /\ inbox' = Append(inbox, question[t])
    BY <1>2 DEF PostPresent, OnlyAsked
  <2>4. \A i \in 1 .. Len(inbox') : inbox'[i] <= asked
    BY <2>3 DEF OnlyAsked, TypeOK
  <2>5. OnlyAsked'
    BY <1>2, <2>4 DEF PostPresent, bridgeVars, OnlyAsked
  <2> QED
    BY <2>2, <2>5
<1>3. CASE LeaveDone(t)
  <2>1. /\ tpc[t] = "leaving" /\ tpc' = [tpc EXCEPT ![t] = "removing"]
        /\ done' = done \cup {question[t]}
        /\ UNCHANGED <<asked, pending, open, answer, question, result, slot, inbox, call>>
    BY <1>3 DEF LeaveDone, uiVars
  <2>2. question[t] \in 1 .. asked
    BY <2>1, BridgeAssumption DEF OwnQuestion, OnlyAsked, TypeOK, Question, None
  <2>3. OwnQuestion' /\ OnlyAsked'
    BY <2>1, <2>2 DEF OwnQuestion, OnlyAsked, TypeOK
  <2>4. Leaving \subseteq Leaving' \cup {question[t]}
    BY <2>1 DEF Leaving, TypeOK
  <2>5. AnswersAndResults'
    BY <2>1, <2>4 DEF AnswersAndResults, TypeOK
  <2> QED
    BY <2>3, <2>5
<1>4. CASE LeaveRemoved(t)
  <2>1. /\ tpc[t] = "removing" /\ tpc' = [tpc EXCEPT ![t] = "idle"]
        /\ question' = [question EXCEPT ![t] = None]
        /\ pending' \subseteq pending
        /\ UNCHANGED <<asked, done, open, answer, result, slot, inbox, call>>
    BY <1>4 DEF LeaveRemoved, uiVars
  <2>2. OwnQuestion'
    BY <2>1 DEF OwnQuestion, TypeOK
  <2>3. OnlyAsked'
    BY <2>1, BridgeAssumption DEF OnlyAsked, TypeOK, None
  <2>4. Leaving' = Leaving
    BY <2>1 DEF Leaving, TypeOK
  <2>5. AnswersAndResults'
    BY <2>1, <2>4 DEF AnswersAndResults, TypeOK
  <2> QED
    BY <2>2, <2>3, <2>5
<1>5. CASE Interrupt(t)
  BY <1>5 DEF Interrupt, bridgeVars, uiVars, OwnQuestion, OnlyAsked, AnswersAndResults, Leaving
<1>6. CASE WakeAnswered(t) \/ WakeExpired(t) \/ WakeInterrupted(t)
  <2> DEFINE q == question[t]
  <2>0. /\ tpc[t] = "awaiting" /\ tpc' = [tpc EXCEPT ![t] = "leaving"]
        /\ UNCHANGED <<asked, pending, done, open, answer, question, slot, inbox, call>>
    BY <1>6 DEF WakeAnswered, WakeExpired, WakeInterrupted, Leaves, bridgeVars, uiVars
  <2>1. PICK v \in {"null", "text"} :
            result' = [result EXCEPT ![q] = v] /\ (v = "null" \/ (q \in open /\ v = answer[q]))
    <3>1. CASE WakeAnswered(t)
      <4>1. /\ q \in open /\ answer[q] \in {"null", "text"}
            /\ result' = [result EXCEPT ![q] = answer[q]]
        BY <3>1 DEF WakeAnswered, Leaves, TypeOK
      <4> QED
        BY <4>1
    <3>2. CASE WakeExpired(t) \/ WakeInterrupted(t)
      <4>1. result' = [result EXCEPT ![q] = "null"]
        BY <3>2 DEF WakeExpired, WakeInterrupted, Leaves
      <4> QED
        BY <4>1
    <3> QED
      BY <1>6, <3>1, <3>2
  <2>2. tpc[t] = "awaiting" /\ tpc' = [tpc EXCEPT ![t] = "leaving"]
        /\ result' = [result EXCEPT ![q] = v]
        /\ UNCHANGED <<asked, pending, done, open, answer, question, slot, inbox, call>>
    BY <2>0, <2>1
  <2>3. q \in Question
    BY <2>2 DEF OwnQuestion, TypeOK
  <2>4. OwnQuestion' /\ OnlyAsked'
    BY <2>2 DEF OwnQuestion, OnlyAsked, TypeOK
  <2>5. Leaving' = Leaving \cup {q}
    BY <2>2 DEF Leaving, TypeOK
  <2>6. \A u \in Threads : u # t => question[u] # q
    BY <2>3 DEF OwnQuestion, None, Question
  <2>7. \A r \in Question : result'[r] # "none" => r \in done' \cup Leaving'
    BY <2>2, <2>5 DEF AnswersAndResults, TypeOK
  <2>8. ASSUME NEW u \in Threads
        PROVE  /\ tpc'[u] \in {"added", "awaiting"} => result'[question'[u]] = "none"
               /\ tpc'[u] = "leaving" =>
                     \/ result'[question'[u]] = "null"
                     \/ question'[u] \in open' /\ result'[question'[u]] = answer'[question'[u]]
    <3>1. CASE u = t
      BY <2>1, <2>2, <2>3, <3>1 DEF TypeOK
    <3>2. CASE u # t
      BY <2>2, <2>6, <3>2 DEF AnswersAndResults, TypeOK
    <3> QED
      BY <3>1, <3>2
  <2>9. AnswersAndResults'
    BY <2>2, <2>7, <2>8 DEF AnswersAndResults
  <2> QED
    BY <2>4, <2>9
<1> QED
  BY <1>1, <1>2, <1>3, <1>4, <1>5, <1>6 DEF Thread, Leave

LEMMA MessageBridgeInv ==
    ASSUME TypeOK, BridgeInv, TypeOK', RunMessage
    PROVE  BridgeInv'
<1> USE DEF BridgeInv
<1> DEFINE Q == IF Head(inbox) = PresentAll THEN pending ELSE {Head(inbox)}
<1>1. Q \subseteq 0 .. asked /\ Present(Q)
  <2>1. inbox # <<>> /\ Present(Q)
    BY DEF RunMessage
  <2>2. Head(inbox) \in Nat /\ Head(inbox) <= asked
    BY <2>1 DEF OnlyAsked, TypeOK, Question, PresentAll
  <2> QED
    BY <2>1, <2>2 DEF OnlyAsked, TypeOK
<1>2. UNCHANGED <<asked, pending, done, open, answer, threadVars, call>> /\ inbox' = Tail(inbox)
  BY DEF RunMessage
<1>3. \A s \in Screen, p \in Place : slot'[s][p] <= asked
  <2> SUFFICES ASSUME NEW s \in Screen, NEW p \in Place
               PROVE  slot'[s][p] <= asked
    OBVIOUS
  <2>1. slot[s][p] <= asked
    BY DEF OnlyAsked
  <2>2. CASE UNCHANGED slot
    BY <2>1, <2>2
  <2>3. CASE \E p2 \in Place, last \in Q : slot' = [slot EXCEPT ![presenter][p2] = last]
    BY <1>1, <2>1, <2>3 DEF TypeOK
  <2> HIDE DEF Q
  <2> QED
    BY <1>1, <2>2, <2>3 DEF Present
<1>6. \A i \in 1 .. Len(inbox') : inbox'[i] <= asked
  BY <1>2 DEF RunMessage, OnlyAsked, TypeOK
<1>4. OwnQuestion' /\ OnlyAsked'
  BY <1>2, <1>3, <1>6 DEF OwnQuestion, OnlyAsked, threadVars
<1>5. AnswersAndResults'
  BY <1>2 DEF AnswersAndResults, Leaving, threadVars
<1> QED
  BY <1>4, <1>5

LEMMA DeliverBridgeInv ==
    ASSUME TypeOK, BridgeInv, Deliver
    PROVE  BridgeInv'
<1> USE DEF BridgeInv
<1>1. /\ call.q \in Question \ open /\ call.q <= asked
      /\ answer' = [answer EXCEPT ![call.q] = call.v]
      /\ done' = done \cup {call.q} /\ open' = open \cup {call.q} /\ call' = NoCall
      /\ UNCHANGED <<asked, pending, threadVars, inbox, slot>>
  BY DEF Deliver, MainIsFree, AnswersAndResults, OnlyAsked
<1>2. call.q \in 1 .. asked /\ NoCall.q <= asked
  BY <1>1, BridgeAssumption DEF TypeOK, Question, NoCall, None
<1>3. OwnQuestion' /\ OnlyAsked'
  BY <1>1, <1>2 DEF OwnQuestion, OnlyAsked, threadVars
<1>4. /\ open' \subseteq done' /\ open \subseteq open'
      /\ \A r \in open : answer'[r] = answer[r]
  BY <1>1 DEF AnswersAndResults, TypeOK
<1>5. AnswersAndResults'
  BY <1>1, <1>4 DEF AnswersAndResults, Leaving, threadVars
<1> QED
  BY <1>3, <1>5

LEMMA UserBridgeInv ==
    ASSUME TypeOK, BridgeInv, TypeOK', NEW s \in Screen, User(s)
    PROVE  BridgeInv'
<1> USE DEF BridgeInv
<1>1. CASE Create(s)
  <2>1. UNCHANGED <<asked, pending, done, open, answer, threadVars, slot, call>>
        /\ inbox' = Append(inbox, PresentAll)
    BY <1>1 DEF Create, AfterSetPresenter
  <2>2. OwnQuestion' /\ AnswersAndResults'
    BY <2>1 DEF OwnQuestion, AnswersAndResults, Leaving, threadVars
  <2>3. \A i \in 1 .. Len(inbox') : inbox'[i] <= asked
    BY <2>1 DEF OnlyAsked, TypeOK, PresentAll
  <2>4. OnlyAsked'
    BY <2>1, <2>3 DEF OnlyAsked, threadVars
  <2> QED
    BY <2>2, <2>4
<1>2. CASE Finish(s)
  BY <1>2 DEF Finish, bridgeVars, threadVars, OwnQuestion, OnlyAsked, AnswersAndResults, Leaving
<1>3. CASE Destroy(s)
  <2>1. /\ UNCHANGED <<asked, pending, done, open, answer, threadVars, inbox, call>>
        /\ slot' = [slot EXCEPT ![s] = Empty]
    BY <1>3 DEF Destroy
  <2>2. OwnQuestion' /\ AnswersAndResults'
    BY <2>1 DEF OwnQuestion, AnswersAndResults, Leaving, threadVars
  <2>3. OnlyAsked'
    BY <2>1, BridgeAssumption DEF OnlyAsked, TypeOK, Empty, None, threadVars
  <2> QED
    BY <2>2, <2>3
<1>4. CASE \E p \in Place, v \in {"null", "text"} : Answer(s, p, v)
  <2>1. PICK p \in Place, v \in {"null", "text"} : Answer(s, p, v)
    BY <1>4
  <2> DEFINE q == slot[s][p]
  <2>2. q \in Question /\ q \in 1 .. asked
    BY <2>1 DEF Answer, Asks, TypeOK, OnlyAsked, Question, None
  <2>3. /\ slot' = [slot EXCEPT ![s][p] = None]
        /\ call' = IF q \notin done THEN [q |-> q, v |-> v] ELSE NoCall
        /\ UNCHANGED <<asked, pending, done, open, answer, threadVars, inbox>>
    BY <2>1 DEF Answer, Delivers, bridgeVars
  <2>4. call'.q <= asked
    BY <2>2, <2>3, BridgeAssumption DEF TypeOK, NoCall, None
  <2>5. OwnQuestion' /\ OnlyAsked'
    BY <2>2, <2>3, <2>4, BridgeAssumption DEF OwnQuestion, OnlyAsked, TypeOK, None, threadVars
  <2>6. AnswersAndResults'
    BY <2>2, <2>3 DEF AnswersAndResults, Leaving, threadVars
  <2> QED
    BY <2>5, <2>6
<1> QED
  BY <1>1, <1>2, <1>3, <1>4 DEF User

-----------------------------------------------------------------------------
(* The theorems                                                            *)

\* A screen is created after those before it.
CreatedInOrder ==
    \A s, s2 \in Screen : s < s2 /\ screen[s] = "new" => screen[s2] = "new"

Inv == TypeOK /\ BridgeInv /\ CreatedInOrder /\ PresenterIsNewest

LEMMA ScreensInv ==
    ASSUME Inv, Next
    PROVE  CreatedInOrder' /\ PresenterIsNewest'
<1> USE DEF Inv
<1>1. CASE UNCHANGED <<screen, presenter>>
  BY <1>1 DEF CreatedInOrder, PresenterIsNewest, Exists
<1>2. ASSUME NEW s \in Screen, Create(s)
      PROVE  CreatedInOrder' /\ PresenterIsNewest'
  <2>1. /\ screen[s] = "new" /\ \A s2 \in 1 .. s - 1 : screen[s2] # "new"
        /\ screen' = [screen EXCEPT ![s] = "alive"] /\ presenter' = s
    BY <1>2 DEF Create
  <2>2. CreatedInOrder'
    BY <2>1, BridgeAssumption DEF CreatedInOrder, TypeOK, Screen
  <2>3. \A s2 \in s + 1 .. MaxScreens : screen'[s2] = "new"
    BY <2>1, BridgeAssumption DEF CreatedInOrder, TypeOK, Screen
  <2>4. \A s3 \in 1 .. s - 1 : s \in s3 + 1 .. MaxScreens /\ screen'[s] # "new"
    BY <2>1, BridgeAssumption DEF TypeOK, Screen
  <2>5. \A s3 \in s + 1 .. MaxScreens : ~Exists(s3)'
    BY <2>3 DEF Exists
  <2>6. Exists(s)'
    BY <2>1 DEF Exists, TypeOK
  <2>7. PresenterIsNewest'
    <3> SUFFICES ASSUME NEW s3 \in Screen
                 PROVE  s = s3 <=> Exists(s3)' /\ \A s2 \in s3 + 1 .. MaxScreens : screen'[s2] = "new"
      BY <2>1 DEF PresenterIsNewest
    <3>1. CASE s3 = s
      BY <2>3, <2>6, <3>1
    <3>2. CASE s3 < s
      BY <2>4, <3>2, BridgeAssumption DEF Screen
    <3>3. CASE s3 > s
      BY <2>5, <3>3, BridgeAssumption DEF Screen
    <3> QED
      BY <3>1, <3>2, <3>3, BridgeAssumption DEF Screen
  <2> QED
    BY <2>2, <2>7
<1>3. ASSUME NEW s \in Screen, Finish(s) \/ Destroy(s)
      PROVE  CreatedInOrder' /\ PresenterIsNewest'
  <2>1. PICK l \in {"finishing", "gone"} :
            /\ screen[s] \in {"alive", "finishing"} /\ screen' = [screen EXCEPT ![s] = l]
            /\ presenter' = IF l = "gone" /\ presenter = s THEN None ELSE presenter
    <3>1. CASE Finish(s)
      <4>1. /\ screen[s] = "alive" /\ screen' = [screen EXCEPT ![s] = "finishing"]
            /\ presenter' = presenter
        BY <3>1 DEF Finish, bridgeVars
      <4> QED
        BY <4>1
    <3>2. CASE Destroy(s)
      <4>1. /\ screen[s] \in {"alive", "finishing"} /\ screen' = [screen EXCEPT ![s] = "gone"]
            /\ presenter' = IF presenter = s THEN None ELSE presenter
        BY <3>2 DEF Destroy, Exists, Clears
      <4> QED
        BY <4>1
    <3> QED
      BY <1>3, <3>1, <3>2
  <2>2. \A s2 \in Screen : screen'[s2] = "new" <=> screen[s2] = "new"
    BY <2>1 DEF TypeOK
  <2>3. CreatedInOrder'
    BY <2>2 DEF CreatedInOrder
  <2>4. ASSUME NEW s3 \in Screen
        PROVE  presenter' = s3
                 <=> Exists(s3)' /\ \A s2 \in s3 + 1 .. MaxScreens : screen'[s2] = "new"
    <3>1. (\A s2 \in s3 + 1 .. MaxScreens : screen'[s2] = "new")
              <=> (\A s2 \in s3 + 1 .. MaxScreens : screen[s2] = "new")
      BY <2>2, BridgeAssumption DEF Screen
    <3>2. CASE s3 = s
      BY <2>1, <3>1, <3>2 DEF PresenterIsNewest, Exists, TypeOK, None, Screen
    <3>3. CASE s3 # s
      <4>1. Exists(s3)' <=> Exists(s3)
        BY <2>1, <3>3 DEF Exists, TypeOK
      <4>2. presenter' = s3 <=> presenter = s3
        BY <2>1, <3>3 DEF None, Screen
      <4> QED
        BY <3>1, <4>1, <4>2 DEF PresenterIsNewest
    <3> QED
      BY <3>2, <3>3
  <2> QED
    BY <2>3, <2>4 DEF PresenterIsNewest
<1>4. ASSUME NEW t \in Threads, Thread(t)
      PROVE  UNCHANGED <<screen, presenter>>
  BY <1>4 DEF Thread, Ask, PostPresent, Leave, LeaveDone, LeaveRemoved, Interrupt, WakeAnswered,
              WakeExpired, WakeInterrupted, Leaves, bridgeVars, uiVars
<1>5. RunMessage => UNCHANGED <<screen, presenter>>
  BY DEF RunMessage
<1>6. ASSUME NEW s \in Screen, NEW p \in Place, NEW v \in {"null", "text"}, Answer(s, p, v)
      PROVE  UNCHANGED <<screen, presenter>>
  BY <1>6 DEF Answer, bridgeVars
<1>7. Deliver => UNCHANGED <<screen, presenter>>
  BY DEF Deliver
<1> QED
  BY <1>1, <1>2, <1>3, <1>4, <1>5, <1>6, <1>7 DEF Next, User

LEMMA SpecInv == Spec => []Inv
<1>1. Init => Inv
  BY InitType, InitBridgeInv DEF Inv, Init, CreatedInOrder, PresenterIsNewest, Exists, Screen, None
<1>2. Inv /\ [Next]_vars => Inv'
  <2> SUFFICES ASSUME Inv, [Next]_vars PROVE Inv'
    OBVIOUS
  <2>1. CASE UNCHANGED vars
    BY <2>1 DEF vars, bridgeVars, threadVars, uiVars, Inv, TypeOK, BridgeInv, OwnQuestion,
                OnlyAsked, AnswersAndResults, Leaving, CreatedInOrder, PresenterIsNewest, Exists
  <2>2. CASE Next
    <3>1. TypeOK'
      BY <2>2, MessageType, DeliverType, ThreadType, UserType DEF Inv, BridgeInv, Next
    <3>2. BridgeInv'
      BY <2>2, <3>1, MessageBridgeInv, DeliverBridgeInv, ThreadBridgeInv, UserBridgeInv DEF Inv, Next
    <3> QED
      BY <2>2, <3>1, <3>2, ScreensInv DEF Inv
  <2> QED
    BY <2>1, <2>2
<1> QED
  BY <1>1, <1>2, PTL DEF Spec

\* Threads, messages, screens and questions keep their types.
THEOREM BridgeTypeCorrect == Spec => []TypeOK
BY SpecInv, PTL DEF Inv

\* A destroyed screen takes the presenter only from itself, in every order of
\* onCreate and onDestroy.
THEOREM NewestPresents == Spec => []PresenterIsNewest
BY SpecInv, PTL DEF Inv

\* The first accepted answer of a question is never replaced, whatever screens
\* still show the question.
THEOREM AnswersStand == Spec => FirstAnswerStands
<1>1. ASSUME Inv, [Next]_vars, NEW q \in open
      PROVE  q \in open' /\ answer'[q] = answer[q]
  <2>1. CASE UNCHANGED <<open, answer>>
    BY <1>1, <2>1
  <2>2. ASSUME Deliver
        PROVE  q \in open' /\ answer'[q] = answer[q]
    BY <1>1, <2>2 DEF Deliver, MainIsFree, Inv, BridgeInv, AnswersAndResults, TypeOK
  <2>3. ASSUME NEW t \in Threads, Thread(t)
        PROVE  UNCHANGED <<open, answer>>
    BY <2>3 DEF Thread, Ask, PostPresent, Leave, LeaveDone, LeaveRemoved, Interrupt, WakeAnswered,
                WakeExpired, WakeInterrupted, Leaves, bridgeVars
  <2>4. RunMessage => UNCHANGED <<open, answer>>
    BY DEF RunMessage
  <2>5. ASSUME NEW s \in Screen, User(s)
        PROVE  UNCHANGED <<open, answer>>
    BY <2>5 DEF User, Create, Finish, Destroy, Answer, bridgeVars
  <2>6. UNCHANGED vars => UNCHANGED <<open, answer>>
    BY DEF vars, bridgeVars
  <2> QED
    BY <1>1, <2>1, <2>2, <2>3, <2>4, <2>5, <2>6 DEF Next
<1> QED
  <2>1. Inv /\ [Next]_vars => [\A q \in open : q \in open' /\ answer'[q] = answer[q]]_vars
    BY <1>1
  <2> QED
    BY <2>1, SpecInv, PTL DEF Spec, FirstAnswerStands

\* The bridge implements AskUser: every step is a step of it or none at all.  The user's answer is
\* offered when deliver finds the question open, and accepted when it sets answer; a request that
\* gave up in between has returned null, and the answer is lost (deliver, and finally of request).
THEOREM BridgeImplements == Spec => AU!Safety
<1> USE BridgeAssumption
<1>1. Init => AU!Init
  BY DEF Init, AU!Init, AU!Question, Offered, Accepted, Returned, Leaving, Question, NoCall, None
<1>2. ASSUME Inv, Next
      PROVE  [AU!Next]_AU!vars
  <2> USE <1>2 DEF Inv, BridgeInv
  <2>1. ASSUME NEW t \in Threads, Ask(t)
        PROVE  AU!Ask
    <3>1. /\ tpc[t] = "idle" /\ asked < MaxQuestions /\ asked' = asked + 1
          /\ tpc' = [tpc EXCEPT ![t] = "added"]
          /\ question' = [question EXCEPT ![t] = asked + 1]
          /\ UNCHANGED <<open, answer, result, call>>
      BY <2>1 DEF Ask, uiVars
    <3>2. Leaving' = Leaving
      BY <3>1 DEF Leaving, TypeOK
    <3> QED
      BY <3>1, <3>2 DEF AU!Ask, Offered, Accepted, Returned
  <2>2. ASSUME NEW t \in Threads, LeaveDone(t)
        PROVE  AU!Return(question[t]) /\ question[t] \in Question
    <3> DEFINE q == question[t]
    <3>1. /\ tpc[t] = "leaving" /\ tpc' = [tpc EXCEPT ![t] = "removing"]
          /\ UNCHANGED <<asked, open, answer, question, result, call>>
      BY <2>2 DEF LeaveDone, uiVars
    <3>2. q \in Question /\ q <= asked /\ q \in Leaving
      BY <3>1 DEF OwnQuestion, OnlyAsked, TypeOK, Leaving
    <3>3. \A u \in Threads : u # t => question[u] # q
      BY <3>2 DEF OwnQuestion, Question, None
    <3>4. Leaving' = Leaving \ {q}
      BY <3>1, <3>3 DEF Leaving, TypeOK
    <3>5. /\ result[q] \in {"null", Accepted[q]} \ {"none"}
          /\ Returned' = [Returned EXCEPT ![q] = result[q]]
      <4>1. result[q] = "null" \/ (q \in open /\ result[q] = answer[q])
        BY <3>1 DEF AnswersAndResults
      <4>2. answer[q] # "none"
        BY <3>2 DEF TypeOK
      <4>3. result[q] \in {"null", Accepted[q]} \ {"none"}
        BY <3>2, <4>1, <4>2 DEF Accepted
      <4>4. Returned' = [Returned EXCEPT ![q] = result[q]]
        BY <3>1, <3>2, <3>4 DEF Returned
      <4> QED
        BY <4>3, <4>4
    <3>6. Accepted' = Accepted /\ Offered' = Offered
      BY <3>1 DEF Accepted, Offered
    <3>7. Returned[q] = "none"
      BY <3>2 DEF Returned
    <3> QED
      BY <3>1, <3>2, <3>5, <3>6, <3>7 DEF AU!Return
  <2>3. ASSUME NEW t \in Threads, WakeAnswered(t) \/ WakeExpired(t) \/ WakeInterrupted(t)
        PROVE  UNCHANGED AU!vars
    <3> DEFINE q == question[t]
    <3>1. /\ tpc[t] = "awaiting" /\ tpc' = [tpc EXCEPT ![t] = "leaving"]
          /\ \A r \in Question : r # q => result'[r] = result[r]
          /\ UNCHANGED <<asked, open, answer, question, call>>
      BY <2>3 DEF WakeAnswered, WakeExpired, WakeInterrupted, Leaves, bridgeVars, uiVars, TypeOK
    <3>2. Leaving' = Leaving \cup {q}
      BY <3>1 DEF Leaving, TypeOK
    <3>3. result[q] = "none"
      BY <3>1 DEF AnswersAndResults
    <3>4. Returned' = Returned
      BY <3>1, <3>2, <3>3 DEF Returned
    <3> QED
      BY <3>1, <3>4 DEF AU!vars, Accepted, Offered
  <2>4. ASSUME NEW t \in Threads, PostPresent(t) \/ LeaveRemoved(t) \/ Interrupt(t)
        PROVE  UNCHANGED AU!vars
    <3>1. UNCHANGED <<asked, open, answer, result, call>>
      BY <2>4 DEF PostPresent, LeaveRemoved, Interrupt, bridgeVars, uiVars
    <3>2. Leaving' = Leaving
      BY <2>4 DEF PostPresent, LeaveRemoved, Interrupt, Leaving, TypeOK
    <3> QED
      BY <3>1, <3>2 DEF AU!vars, Accepted, Offered, Returned
  <2>5. ASSUME NEW s \in Screen, NEW p \in Place, NEW v \in {"null", "text"}, Answer(s, p, v)
        PROVE  UNCHANGED AU!vars
               \/ (slot[s][p] \in Question /\ AU!Offer(slot[s][p], v))
    <3> DEFINE q == slot[s][p]
    <3>1. q \in Question /\ q <= asked /\ None \notin Question /\ call = NoCall
      BY <2>5 DEF Answer, Asks, MainIsFree, OnlyAsked, TypeOK, None, Question
    <3>2. UNCHANGED <<asked, open, answer, tpc, question, result>>
      BY <2>5 DEF Answer, bridgeVars, threadVars
    <3>3. Returned' = Returned /\ Accepted' = Accepted
      BY <3>2 DEF Returned, Leaving, Accepted
    <3>4. CASE q \in done
      <4>1. call' = call
        BY <2>5, <3>1, <3>4 DEF Answer, Delivers
      <4> QED
        BY <3>2, <3>3, <4>1 DEF AU!vars, Offered
    <3>5. CASE q \notin done
      <4>1. Offered[q] = "none" /\ Returned[q] = "none"
        BY <3>1, <3>5 DEF AnswersAndResults, Offered, Returned, NoCall
      <4>2. call' = [q |-> q, v |-> v] /\ q \notin open
        BY <2>5, <3>5 DEF Answer, Delivers, AnswersAndResults
      <4>3. Offered' = [Offered EXCEPT ![q] = v]
        BY <3>1, <3>2, <4>2 DEF Offered, NoCall
      <4> QED
        BY <3>1, <3>2, <3>3, <4>1, <4>3 DEF AU!Offer
    <3> QED
      BY <3>4, <3>5
  <2>6. RunMessage \/ (\E s \in Screen : Create(s) \/ Finish(s) \/ Destroy(s))
            => UNCHANGED AU!vars
    BY DEF RunMessage, Create, Finish, Destroy, bridgeVars, threadVars, AU!vars, Accepted,
           Offered, Returned, Leaving
  <2>9. ASSUME Deliver
        PROVE  call.q \in Question /\ AU!Accept(call.q)
    <3>1. /\ call.q \in Question \ open /\ call.v # "none" /\ None \notin Question
          /\ answer' = [answer EXCEPT ![call.q] = call.v] /\ open' = open \cup {call.q}
          /\ call' = NoCall /\ UNCHANGED <<asked, tpc, question, result>>
      BY <2>9 DEF Deliver, MainIsFree, AnswersAndResults, threadVars, None, Question
    <3>2. Offered[call.q] = call.v /\ Accepted[call.q] = "none"
      BY <3>1 DEF Offered, Accepted
    <3>3. Returned' = Returned
      BY <3>1 DEF Returned, Leaving
    <3>4. Offered' = Offered
      BY <3>1 DEF Offered, TypeOK, NoCall
    <3>5. Accepted' = [Accepted EXCEPT ![call.q] = call.v]
      BY <3>1 DEF Accepted, TypeOK
    <3> QED
      BY <3>1, <3>2, <3>3, <3>4, <3>5 DEF AU!Accept
  <2>7. ASSUME NEW t \in Threads, Thread(t)
        PROVE  AU!Next \/ UNCHANGED AU!vars
    <3>1. (\E q \in Question : AU!Return(q)) => AU!Next
      BY DEF AU!Next, AU!Question, Question
    <3>2. AU!Ask => AU!Next
      BY DEF AU!Next
    <3> QED
      BY <2>1, <2>2, <2>3, <2>4, <2>7, <3>1, <3>2 DEF Thread, Leave
  <2>8. ASSUME NEW s \in Screen, User(s)
        PROVE  AU!Next \/ UNCHANGED AU!vars
    <3>1. ASSUME NEW q \in Question, NEW v \in {"null", "text"}, AU!Offer(q, v)
          PROVE  AU!Next
      BY <3>1 DEF AU!Next, AU!Question, Question
    <3> QED
      BY <2>5, <2>6, <2>8, <3>1 DEF User
  <2>10. Deliver => AU!Next
    BY <2>9 DEF AU!Next, AU!Question, Question
  <2> QED
    BY <1>2, <2>6, <2>7, <2>8, <2>10 DEF Next
<1>3. UNCHANGED vars => UNCHANGED AU!vars
  BY DEF vars, bridgeVars, threadVars, uiVars, AU!vars, Accepted, Offered, Returned, Leaving
<1> QED
  BY <1>1, <1>2, <1>3, SpecInv, PTL DEF Spec, AU!Safety

-----------------------------------------------------------------------------
(* No question is lost                                                     *)

\* Every question that is not done is in the list, and the list has only questions that a thread
\* asks now.
Listed ==
    /\ (1 .. asked) \ done \subseteq pending
    /\ \A q \in pending : \E t \in Threads : question[t] = q
    /\ \A t \in Threads : tpc[t] = "removing" => question[t] \in done
    /\ shown \subseteq 1 .. asked

\* While a screen exists, none was created after it.
Alone == \A s, s2 \in Screen : Exists(s) /\ s < s2 => screen[s2] = "new"

\* One thread asks.
OneThread == \A t, u \in Threads : t = u

\* A step of a thread keeps the list, and marks no question as shown.
LEMMA ThreadLists ==
    ASSUME Inv, Listed, NEW t \in Threads, Thread(t)
    PROVE  Listed' /\ (NoQuestionLost => NoQuestionLost')
<1> USE BridgeAssumption DEF bridgeVars, threadVars, uiVars
<1>1. /\ asked \in Nat /\ tpc \in [Threads -> ThreadPc] /\ question \in [Threads -> Question \cup {None}]
      /\ \A u \in Threads : question[u] = None <=> tpc[u] = "idle"
      /\ \A u, w \in Threads : question[u] = question[w] /\ question[u] # None => u = w
      /\ pending \subseteq 1 .. asked /\ pending \subseteq Question
  BY DEF Inv, TypeOK, BridgeInv, OwnQuestion, OnlyAsked
<1>2. /\ UNCHANGED <<shown, slot, screen, call>>
      /\ \/ UNCHANGED <<asked, pending, done, question>> /\ tpc' \in [Threads -> ThreadPc]
            /\ \A u \in Threads : tpc'[u] = "removing" => tpc[u] = "removing"
         \/ Ask(t) \/ LeaveDone(t) \/ LeaveRemoved(t)
  BY <1>1 DEF Thread, Ask, PostPresent, Leave, LeaveDone, LeaveRemoved, Interrupt, WakeAnswered,
              WakeExpired, WakeInterrupted, Leaves, ThreadPc
<1>3. CASE /\ UNCHANGED <<asked, pending, done, question>>
           /\ \A u \in Threads : tpc'[u] = "removing" => tpc[u] = "removing"
  BY <1>2, <1>3 DEF Listed, NoQuestionLost, InFront, IsClosing
<1>4. CASE Ask(t)
  <2>1. /\ asked' = asked + 1 /\ pending' = pending \cup {asked + 1} /\ done' = done
        /\ question' = [question EXCEPT ![t] = asked + 1] /\ tpc' = [tpc EXCEPT ![t] = "added"]
        /\ question[t] = None
    BY <1>1, <1>4 DEF Ask
  <2>2. (1 .. asked') \ done' \subseteq pending' /\ shown' \subseteq 1 .. asked' /\ asked + 1 \notin shown'
    BY <1>1, <1>2, <2>1 DEF Listed
  <2>3. \A q \in pending' : \E u \in Threads : question'[u] = q
    <3>1. question'[t] = asked + 1
      BY <1>1, <2>1
    <3>2. ASSUME NEW q \in pending PROVE \E u \in Threads : question'[u] = q
      <4>1. PICK u \in Threads : question[u] = q
        BY DEF Listed
      <4>2. u # t
        BY <1>1, <2>1, <4>1 DEF None
      <4> QED
        BY <1>1, <2>1, <4>1, <4>2
    <3> QED
      BY <2>1, <3>1, <3>2
  <2>4. \A u \in Threads : tpc'[u] = "removing" => question'[u] \in done'
    BY <1>1, <2>1 DEF Listed
  <2>5. NoQuestionLost => NoQuestionLost'
    BY <1>2, <2>1, <2>2 DEF NoQuestionLost, InFront, IsClosing
  <2> QED
    BY <2>2, <2>3, <2>4, <2>5 DEF Listed
<1>5. CASE LeaveDone(t)
  <2>1. /\ asked' = asked /\ pending' = pending /\ done' = done \cup {question[t]} /\ question' = question
        /\ tpc' = [tpc EXCEPT ![t] = "removing"]
    BY <1>5 DEF LeaveDone
  <2> QED
    BY <1>1, <1>2, <2>1 DEF Listed, NoQuestionLost, InFront, IsClosing
<1>6. CASE LeaveRemoved(t)
  <2>1. /\ asked' = asked /\ pending' = pending \ {question[t]} /\ done' = done
        /\ question' = [question EXCEPT ![t] = None] /\ tpc' = [tpc EXCEPT ![t] = "idle"]
        /\ tpc[t] = "removing"
    BY <1>6 DEF LeaveRemoved
  <2>2. question[t] \in done
    BY <2>1 DEF Listed
  <2>3. ASSUME NEW q \in pending' PROVE \E u \in Threads : question'[u] = q
    <3>1. PICK u \in Threads : question[u] = q
      BY <2>1, <2>3 DEF Listed
    <3>2. u # t
      BY <2>1, <2>3, <3>1
    <3> QED
      BY <1>1, <2>1, <3>1, <3>2
  <2>4. (1 .. asked') \ done' \subseteq pending' /\ shown' \subseteq 1 .. asked'
    BY <1>2, <2>1, <2>2 DEF Listed
  <2>5. \A u \in Threads : tpc'[u] = "removing" => question'[u] \in done'
    BY <1>1, <2>1 DEF Listed
  <2>6. NoQuestionLost => NoQuestionLost'
    BY <1>2, <2>1 DEF NoQuestionLost, InFront, IsClosing
  <2> QED
    BY <2>3, <2>4, <2>5, <2>6 DEF Listed
<1> QED
  BY <1>2, <1>3, <1>4, <1>5, <1>6

\* What is presented to the newest screen is in one of its places, or it is closing; with one
\* thread there is no other question whose place could be taken.
LEMMA MessageLists ==
    ASSUME OneThread, Inv, Listed, NoQuestionLost, RunMessage
    PROVE  Listed' /\ NoQuestionLost'
<1> DEFINE Q == IF Head(inbox) = PresentAll THEN pending ELSE {Head(inbox)}
           new == (Q \ done) \ shown
<1>1. /\ inbox # << >> /\ Present(Q)
      /\ UNCHANGED <<asked, pending, done, open, answer, presenter, threadVars, screen, call>>
  BY DEF RunMessage
<1>2. /\ asked \in Nat /\ inbox \in Seq(Question \cup {PresentAll}) /\ pending \subseteq 1 .. asked
      /\ presenter \in Screen \cup {None} /\ slot \in [Screen -> [Place -> Question \cup {None}]]
  BY DEF Inv, TypeOK, BridgeInv, OnlyAsked
<1>3. Q \subseteq 1 .. asked
  <2>1. CASE Head(inbox) = PresentAll
    BY <1>2, <2>1
  <2>2. CASE Head(inbox) # PresentAll
    <3>1. 1 \in 1 .. Len(inbox) /\ Head(inbox) = inbox[1] /\ Head(inbox) \in Question \cup {PresentAll}
      BY <1>1, <1>2
    <3>2. Head(inbox) <= asked
      BY <3>1 DEF Inv, BridgeInv, OnlyAsked
    <3> QED
      BY <1>2, <2>2, <3>1, <3>2, BridgeAssumption DEF Question
  <2> QED
    BY <2>1, <2>2
<1>4. new \subseteq pending
  BY <1>3 DEF Listed
<1>5. \A q, r \in pending : q = r
  BY DEF Listed, OneThread
<1> HIDE DEF Q, new
<1>6. CASE UNCHANGED <<shown, slot>>
  BY <1>1, <1>6 DEF Listed, NoQuestionLost, InFront, IsClosing, threadVars
<1>7. CASE ~UNCHANGED <<shown, slot>>
  <2>1. presenter # None /\ shown' = shown \cup new
    BY <1>1, <1>7 DEF Present, new
  <2>2. PICK p \in Place, last \in new :
          slot' = IF p = "dialog" /\ screen[presenter] = "finishing" THEN slot
                  ELSE [slot EXCEPT ![presenter][p] = last]
    BY <1>1, <1>7 DEF Present, new
  <2>3. last \in pending /\ presenter \in Screen
    BY <1>2, <1>4, <2>1
  <2>4. InFront(last)' \/ IsClosing
    BY <1>2, <2>2, <2>3 DEF InFront, IsClosing
  <2>5. NoQuestionLost'
    BY <1>1, <1>5, <2>3, <2>4 DEF NoQuestionLost, IsClosing
  <2>6. Listed'
    BY <1>1, <1>2, <1>4, <2>1 DEF Listed, threadVars
  <2> QED
    BY <2>5, <2>6
<1> QED
  BY <1>6, <1>7

\* A screen that is destroyed is the only one, so it is the presenter, and what was shown counts
\* as not shown again.
LEMMA UserLists ==
    ASSUME Inv, Listed, Alone, OneScreen', NoQuestionLost, NEW s \in Screen, User(s)
    PROVE  Listed' /\ Alone' /\ NoQuestionLost'
<1>1. /\ screen \in [Screen -> Life] /\ slot \in [Screen -> [Place -> Question \cup {None}]]
      /\ CreatedInOrder /\ PresenterIsNewest
  BY DEF Inv, TypeOK
<1>2. CASE Create(s)
  <2>1. /\ screen[s] = "new" /\ \A s2 \in Screen : ~Exists(s2)
        /\ screen' = [screen EXCEPT ![s] = "alive"]
        /\ UNCHANGED <<asked, pending, done, shown, threadVars, slot, call>>
    <3>1. /\ screen[s] = "new" /\ screen' = [screen EXCEPT ![s] = "alive"]
          /\ UNCHANGED <<asked, pending, done, shown, threadVars, slot, call>>
      BY <1>2 DEF Create
    <3>2. ASSUME NEW s2 \in Screen PROVE ~Exists(s2)
      <4>1. Exists(s)' /\ ~Exists(s)
        BY <1>1, <3>1 DEF Exists
      <4>2. s2 # s /\ Exists(s2) => Exists(s2)'
        BY <1>1, <3>1 DEF Exists
      <4> QED
        BY <4>1, <4>2 DEF OneScreen
    <3> QED
      BY <3>1, <3>2
  <2>2. Listed'
    BY <2>1 DEF Listed, threadVars
  <2>3. Alone'
    <3> SUFFICES ASSUME NEW s1 \in Screen, NEW s2 \in Screen, Exists(s1)', s1 < s2
                 PROVE  screen'[s2] = "new"
      BY DEF Alone
    <3>1. s1 = s
      BY <1>1, <2>1 DEF Exists
    <3>2. s2 # s /\ screen[s2] = "new"
      BY <1>1, <2>1, <3>1, BridgeAssumption DEF CreatedInOrder, Screen
    <3> QED
      BY <1>1, <2>1, <3>2
  <2>4. NoQuestionLost'
    BY <1>1, <2>1 DEF NoQuestionLost, InFront, IsClosing, Exists
  <2> QED
    BY <2>2, <2>3, <2>4
<1>3. CASE Finish(s)
  <2>1. /\ screen[s] = "alive" /\ screen' = [screen EXCEPT ![s] = "finishing"]
        /\ UNCHANGED <<asked, pending, done, shown, threadVars, slot, call>>
    BY <1>3 DEF Finish, bridgeVars
  <2>2. Listed'
    BY <2>1 DEF Listed, threadVars
  <2>3. Alone'
    BY <1>1, <2>1 DEF Alone, Exists
  <2>4. NoQuestionLost'
    BY <1>1, <2>1 DEF NoQuestionLost, InFront, IsClosing
  <2> QED
    BY <2>2, <2>3, <2>4
<1>4. CASE Destroy(s)
  <2>1. presenter = s
    <3>1. Exists(s) /\ \A s2 \in s + 1 .. MaxScreens : screen[s2] = "new"
      BY <1>4, BridgeAssumption DEF Destroy, Alone, Screen
    <3> QED
      BY <1>1, <3>1 DEF PresenterIsNewest
  <2>2. /\ screen' = [screen EXCEPT ![s] = "gone"] /\ shown' = shown \ pending
        /\ UNCHANGED <<asked, pending, done, threadVars>>
    BY <1>4, <2>1 DEF Destroy, Clears, ShownAfterClear
  <2>3. Listed'
    BY <2>2 DEF Listed, threadVars
  <2>4. Alone'
    BY <1>1, <1>4, <2>2 DEF Alone, Exists, Destroy
  <2>5. NoQuestionLost'
    BY <2>2 DEF NoQuestionLost
  <2> QED
    BY <2>3, <2>4, <2>5
<1>5. ASSUME NEW p \in Place, NEW v \in {"null", "text"}, Answer(s, p, v)
      PROVE  Listed' /\ Alone' /\ NoQuestionLost'
  <2>1. /\ slot' = [slot EXCEPT ![s][p] = None] /\ call = NoCall
        /\ slot[s][p] \notin done => call'.q = slot[s][p]
        /\ UNCHANGED <<asked, pending, done, shown, threadVars, screen>>
    BY <1>5 DEF Answer, MainIsFree, Delivers, bridgeVars
  <2>2. Listed' /\ Alone'
    BY <2>1 DEF Listed, Alone, Exists, threadVars
  <2>3. NoQuestionLost'
    <3> SUFFICES ASSUME NEW q \in (pending \cap shown) \ done, ~IsClosing, call'.q # q
                 PROVE  InFront(q)'
      BY <2>1 DEF NoQuestionLost, IsClosing
    <3>1. q # None
      BY BridgeAssumption DEF Inv, TypeOK, Question, None
    <3>2. PICK s2 \in Screen, p2 \in Place : slot[s2][p2] = q
      BY <2>1, <3>1 DEF NoQuestionLost, InFront, NoCall
    <3>3. slot'[s2][p2] = q
      BY <1>1, <2>1, <3>2
    <3> QED
      BY <3>3 DEF InFront
  <2> QED
    BY <2>2, <2>3
<1> QED
  BY <1>2, <1>3, <1>4, <1>5 DEF User

\* With one thread and screens one after another (rotation), a pending question that was marked as
\* shown is in front of the user, or its screen is closing: destroying a screen with a question in
\* it makes the question one to present again (present, clearPresenter, deliver, request).
THEOREM NoneLost ==
    ASSUME OneThread
    PROVE  Spec /\ []OneScreen => []NoQuestionLost
<1>1. Init => Listed /\ Alone /\ NoQuestionLost
  BY DEF Init, Listed, Alone, Exists, NoQuestionLost
<1>2. ASSUME Inv, Listed, Alone, OneScreen', NoQuestionLost, [Next]_vars
      PROVE  Listed' /\ Alone' /\ NoQuestionLost'
  <2>1. CASE UNCHANGED vars
    BY <1>2, <2>1 DEF vars, bridgeVars, threadVars, uiVars, Listed, Alone, Exists, NoQuestionLost,
                      InFront, IsClosing
  <2>2. CASE RunMessage
    <3>1. Alone'
      BY <1>2, <2>2 DEF RunMessage, Alone, Exists
    <3> QED
      BY <1>2, <2>2, <3>1, MessageLists
  <2>3. ASSUME NEW t \in Threads, Thread(t) PROVE Listed' /\ Alone' /\ NoQuestionLost'
    <3>1. screen' = screen
      BY <2>3 DEF Thread, Ask, PostPresent, Leave, LeaveDone, LeaveRemoved, Interrupt, WakeAnswered,
                  WakeExpired, WakeInterrupted, Leaves, bridgeVars, uiVars
    <3>2. Alone'
      BY <1>2, <3>1 DEF Alone, Exists
    <3> QED
      BY <1>2, <2>3, <3>2, ThreadLists
  <2>4. ASSUME NEW s \in Screen, User(s) PROVE Listed' /\ Alone' /\ NoQuestionLost'
    BY <1>2, <2>4, UserLists
  <2>5. CASE Deliver
    <3>1. /\ done' = done \cup {call.q}
          /\ UNCHANGED <<asked, pending, shown, threadVars, screen, slot>>
      BY <2>5 DEF Deliver
    <3> QED
      BY <1>2, <3>1 DEF Listed, Alone, Exists, NoQuestionLost, InFront, IsClosing, threadVars
  <2> QED
    BY <1>2, <2>1, <2>2, <2>3, <2>4, <2>5 DEF Next
<1> QED
  BY <1>1, <1>2, SpecInv, PTL DEF Spec
=============================================================================
