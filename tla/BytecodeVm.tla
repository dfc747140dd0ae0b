----------------------------- MODULE BytecodeVm -----------------------------
(***************************************************************************)
(* RinVM: the compiler of rin_bcvm_compiler.cpp and the stack machine of   *)
(* rin_bcvm_exec.cpp (Interpreter::vmExecute, vmLoop).  A run of the       *)
(* machine has one stack of values, one of environments, one of call       *)
(* frames, one of exception handlers and one of loop marks; break,         *)
(* continue, achieve, throw and errors cut all of them back.  A statement  *)
(* the compiler delegates (try with finally), the else block of a let and  *)
(* a call made by a helper (a method) leave the machine for C++ code, which*)
(* starts another run; acts is that stack of activations.                  *)
(*                                                                         *)
(* The tree-walker of module TreeWalker is what the machine promises to    *)
(* compute: the header of rin_bcvm.h says the semantics match it literally.*)
(***************************************************************************)
EXTENDS TreeWalker, Integers

CONSTANT Programs        \* the sequences of statements to run

VARIABLES prog,          \* the program that runs
          acts,          \* activations: runs of the machine and the C++ that started them
          res,           \* what the last activation to end hands to the one below
          heap, out, ticks, callDepth

vars == <<prog, acts, res, heap, out, ticks, callDepth>>

-----------------------------------------------------------------------------
(* The compiler.  Jump targets are kept relative to the instruction.       *)
I(op) == [op |-> op]
J(op, a) == [op |-> op, a |-> a]
J2(op, a, b) == [op |-> op, a |-> a, b |-> b]
Tick == <<I("Tick")>>

RECURSIVE Compile(_)
RECURSIVE CompileAll(_)

CompileAll(ns) == IF ns = <<>> THEN <<>> ELSE Compile(Head(ns)) \o CompileAll(Tail(ns))

CompileExpr(n) ==
  CASE n.k = "lit"    -> <<J("Const", n.v)>>
    [] n.k = "lambda" -> <<J("MakeClosure", n.decl)>>
    [] n.k = "var"    -> <<J("LoadVar", n.x)>>
    [] n.k = "assign" -> Compile(n.e) \o <<J("AssignVar", n.x)>>
    [] n.k = "cond"   -> With(<<Compile(n.yes), Compile(n.no)>>, LAMBDA p :
                           Compile(n.cond) \o <<J("JmpFalse", Len(p[1]) + 2)>> \o p[1]
                             \o <<J("Jmp", Len(p[2]) + 1)>> \o p[2])
    [] n.k = "goal"   -> With(CompileAll(n.ss), LAMBDA c :
                           <<J("GoalBegin", Len(c) + 5), I("PushScope")>> \o c
                             \o <<I("PopScope"), I("GoalEnd"), J("Const", Nil)>>)
    [] n.k \in {"or", "and"} -> With(Compile(n.r), LAMBDA c :
                           Compile(n.l) \o <<J(IF n.k = "or" THEN "JmpTrueKeep" ELSE "JmpFalseKeep",
                                               Len(c) + 1)>> \o c)
    [] n.k \in {"add", "less", "eq"} -> Compile(n.l) \o Compile(n.r) \o <<J("Binary", n.k)>>
    [] n.k = "list"   -> CompileAll(n.es) \o <<J("MakeArray", Len(n.es))>>
    [] n.k = "call"   -> CompileAll(n.es) \o <<J2("CallNamed", n.x, Len(n.es))>>
    [] OTHER          -> Compile(n.e) \o CompileAll(n.es)     \* callvalue, method
                           \o <<J(IF n.k = "method" THEN "CallMethod" ELSE "CallValue", Len(n.es))>>

CompileWhile(n) ==
  With(<<Compile(n.cond), Compile(n.body), CompileAll(n.done)>>, LAMBDA p :
    <<J2("LoopEnter", Len(p[1]) + Len(p[2]) + Len(p[3]) + 5, 1)>> \o p[1]
      \o <<J("JmpFalse", Len(p[2]) + 2)>> \o p[2] \o <<J("Jmp", 0 - Len(p[1]) - Len(p[2]) - 1)>>
      \o <<I("LoopLeave")>> \o p[3] \o <<J("Jmp", 2)>>
      \o <<I("LoopLeave")>>)

CompileFor(n) ==
  With(<<Compile(n.cond), Compile(n.body), Compile(n.inc), CompileAll(n.done)>>, LAMBDA p :
    <<I("PushScope")>> \o Compile(n.init)
      \o <<J2("LoopEnter", Len(p[1]) + Len(p[2]) + Len(p[3]) + Len(p[4]) + 10,
                           Len(p[1]) + Len(p[2]) + 4)>>
      \o p[1] \o <<J("JmpFalse", Len(p[2]) + Len(p[3]) + 6)>>
      \o <<I("ForIterBegin"), I("LoopSync")>> \o p[2]
      \o <<I("ForIterEnd")>> \o p[3] \o <<I("Pop")>>
      \o <<J("Jmp", 0 - Len(p[1]) - Len(p[2]) - Len(p[3]) - 5)>>
      \o <<I("LoopLeave"), I("PopScope")>> \o p[4] \o <<J("Jmp", 4)>>
      \o <<I("ForIterEnd"), I("LoopLeave"), I("PopScope")>>)

CompileForIn(n) ==
  With(<<Compile(n.body), CompileAll(n.done)>>, LAMBDA p :
    Compile(n.e) \o <<I("ForInPrep")>>
      \o <<J2("LoopEnter", Len(p[1]) + Len(p[2]) + 8, Len(p[1]) + 3)>>
      \o <<J2("ForInNext", Len(p[1]) + 4, n.x), I("LoopSync")>> \o p[1]
      \o <<I("PopScope"), J("Jmp", 0 - Len(p[1]) - 3)>>
      \o <<I("LoopLeave"), J("PopN", 2)>> \o p[2] \o <<J("Jmp", 4)>>
      \o <<I("PopScope"), I("LoopLeave"), J("PopN", 2)>>)

(* A case of match; rest is the code of the cases after it.                *)
RECURSIVE Tests(_)
Tests(vals) ==
  IF vals = <<>> THEN <<>>
  ELSE With(Tests(Tail(vals)), LAMBDA t :
         Compile(Head(vals)) \o <<I("MatchTest"), J("JmpTrue", Len(t) + 2)>> \o t)
RECURSIVE CompileCases(_, _)
CompileCases(cases, els) ==
  IF cases = <<>>
  THEN <<I("Pop")>> \o (IF els = <<>> THEN <<>>
                        ELSE <<I("PushScope")>> \o CompileAll(els[1]) \o <<I("PopScope")>>)
  ELSE With(<<CompileCases(Tail(cases), els), CompileAll(Head(cases).body),
              Compile(Head(cases).guard)>>, LAMBDA p :
         Tests(Head(cases).vals) \o <<J("Jmp", Len(p[2]) + Len(p[3]) + 6)>>
           \o p[3] \o <<J("JmpFalse", Len(p[2]) + 5)>>
           \o <<I("Pop"), I("PushScope")>> \o p[2] \o <<I("PopScope"), J("Jmp", Len(p[1]) + 1)>>
           \o p[1])

CompileTry(n) ==
  IF n.fin # <<>> \/ n.catch = <<>> THEN <<J("ExecStmt", n)>>
  ELSE With(<<Compile(n.body), Compile(n.catch[1])>>, LAMBDA p :
         Tick \o <<J("TryBegin", Len(p[1]) + 3)>> \o p[1]
           \o <<I("TryEnd"), J("Jmp", Len(p[2]) + 4)>>
           \o <<I("PushScope"), J("CatchBind", n.x)>> \o p[2] \o <<I("PopScope")>>)

CompileStmt(n) ==
  CASE n.k = "expr"     -> Compile(n.e) \o <<I("Pop")>>
    [] n.k = "print"    -> Compile(n.e) \o <<I("PrintEmit")>>
    [] n.k = "let"      -> Compile(n.e) \o <<J("Let", n)>>
    [] n.k = "block"    -> <<I("PushScope")>> \o CompileAll(n.ss) \o <<I("PopScope")>>
    [] n.k = "if"       -> With(<<CompileAll(n.yes), CompileAll(n.no)>>, LAMBDA p :
                             Compile(n.cond) \o <<J("JmpFalse", Len(p[1]) + 2)>> \o p[1]
                               \o <<J("Jmp", Len(p[2]) + 1)>> \o p[2])
    [] n.k = "while"    -> CompileWhile(n)
    [] n.k = "for"      -> CompileFor(n)
    [] n.k = "forin"    -> CompileForIn(n)
    [] n.k = "match"    -> Compile(n.e) \o CompileCases(n.cases, n.els)
    [] n.k = "fun"      -> <<J("FuncDef", n)>>
    [] n.k = "throw"    -> Compile(n.e) \o <<I("Throw")>>
    [] n.k = "achieve"  -> Compile(n.e) \o <<I("Achieve")>>
    [] n.k = "return"   -> Compile(n.e) \o <<I("Return")>>
    [] n.k = "break"    -> <<I("Break")>>
    [] n.k = "continue" -> <<I("Continue")>>

Compile(n) ==
  IF n.k = "try" THEN CompileTry(n)
  ELSE IF n.k \in StmtKinds THEN Tick \o CompileStmt(n) ELSE CompileExpr(n)

(* blockProto, stmtProto.                                                  *)
Proto(ss) == CompileAll(ss) \o <<I("End")>>

-----------------------------------------------------------------------------
(* Activations and what they hand down: a Flow or, with x, an exception.   *)
None == [k |-> "none"]
Flow(kind, v) == [k |-> kind, v |-> v, x |-> FALSE]
Exception(o) == [k |-> o.k, v |-> o.v, x |-> TRUE]

RunOf(ss, e) ==
  [k |-> "run", stack |-> <<>>, envs |-> <<e>>, handlers |-> <<>>, loops |-> <<>>, depth |-> callDepth,
   frames |-> <<[code |-> Proto(ss), pc |-> 1, stack |-> 0, env |-> 0, handlers |-> 0, loops |-> 0,
                 typed |-> FALSE]>>]

R == acts[Len(acts)]
Below == SubSeq(acts, 1, Len(acts) - 1)
TopFrame(r) == r.frames[Len(r.frames)]
In == TopFrame(R).code[TopFrame(R).pc]
Env == R.envs[Len(R.envs)]
Peek(i) == R.stack[Len(R.stack) - i]

First(s, n) == SubSeq(s, 1, n)
Drop(s, n) == SubSeq(s, 1, Len(s) - n)
Jump(r, d) == [r EXCEPT !.frames[Len(r.frames)].pc = @ + d]
Push(r, v) == [r EXCEPT !.stack = Append(@, v)]
Pop(r, n) == [r EXCEPT !.stack = Drop(@, n)]
Enter(r, e) == [r EXCEPT !.envs = Append(@, e)]
Leave(r, n) == [r EXCEPT !.envs = Drop(@, n)]

Running == res = None /\ acts # <<>> /\ R.k = "run"
Instr(op) == Running /\ In.op = op
Resume(r) == acts' = Append(Below, r)
Step(r) == Resume(Jump(r, 1))
Silent == UNCHANGED <<prog, res, heap, out, ticks, callDepth>>
Signal(o) == res' = Exception(o) /\ UNCHANGED <<prog, acts, heap, out, ticks, callDepth>>

(* Leaving vmExecute: DepthRestore puts callDepth back.                    *)
EndRun_KeepsDepth(result) ==
  acts' = Below /\ res' = result /\ UNCHANGED <<prog, heap, out, ticks, callDepth>>
EndRun(result) == /\ acts' = Below
                  /\ res' = result
                  /\ callDepth' = R.depth
                  /\ UNCHANGED <<prog, heap, out, ticks>>

(* popFrameRaw.                                                            *)
PopFrame(r) ==
  [r EXCEPT !.stack = First(@, TopFrame(r).stack), !.envs = First(@, TopFrame(r).env),
            !.handlers = First(@, TopFrame(r).handlers), !.loops = First(@, TopFrame(r).loops),
            !.frames = Drop(@, 1)]

(* unwindToHandler: the innermost handler of the kind wanted, whatever     *)
(* frames, handlers, loops, scopes and values are above it.                *)
Handlers_Any(goal) == DOMAIN R.handlers
Handlers(goal) == {i \in DOMAIN R.handlers : R.handlers[i].goal = goal}
Innermost(S) == CHOOSE i \in S : \A j \in S : j <= i
Unwound(h, i, v) ==
  [R EXCEPT !.frames = [First(@, h.frame) EXCEPT ![h.frame].pc = h.target],
            !.handlers = First(@, i - 1), !.loops = First(@, h.loops),
            !.envs = First(@, h.env), !.stack = Append(First(@, h.stack), v)]
Unwind(goal, v) ==
  \E i \in {Innermost(Handlers(goal))} :
    /\ Resume(Unwound(R.handlers[i], i, v))
    /\ callDepth' = callDepth - (Len(R.frames) - R.handlers[i].frame)

(* applyLoopSignal: the frames that own no loop mark are popped, down to   *)
(* the first frame of the run.                                             *)
LoopsEnd(i) == IF i = Len(R.frames) THEN Len(R.loops) ELSE R.frames[i + 1].loops
Looping == {i \in DOMAIN R.frames : LoopsEnd(i) > R.frames[i].loops}
AtMark_KeepsHandlers(m, i, kind) ==
  [R EXCEPT !.stack = First(@, m.stack), !.envs = First(@, m.env),
            !.loops = First(@, LoopsEnd(i)),
            !.frames = [First(@, i) EXCEPT ![i].pc = IF kind = "break" THEN m.break ELSE m.continue]]
AtMark(m, i, kind) ==
  [R EXCEPT !.stack = First(@, m.stack), !.envs = First(@, m.env), !.handlers = First(@, m.handlers),
            !.loops = First(@, LoopsEnd(i)),
            !.frames = [First(@, i) EXCEPT ![i].pc = IF kind = "break" THEN m.break ELSE m.continue]]
LoopSignal(kind, unmatched) ==
  IF Looping = {} THEN EndRun(unmatched)
  ELSE \E i \in {Innermost(Looping)} :
         /\ Resume(AtMark(R.loops[LoopsEnd(i)], i, kind))
         /\ callDepth' = callDepth - (Len(R.frames) - i)
         /\ res' = None
         /\ UNCHANGED <<prog, heap, out, ticks>>

(* doReturn: the check of the declared type comes after the frame is gone. *)
DoReturn(v) ==
  IF Len(R.frames) = 1 THEN EndRun(Flow("return", v))
  ELSE \E c \in {Checked(TopFrame(R), v)} :
         /\ Resume(IF c.k = "ok" THEN Push(PopFrame(R), v) ELSE PopFrame(R))
         /\ res' = IF c.k = "ok" THEN None ELSE Exception(c)
         /\ callDepth' = callDepth - 1
         /\ UNCHANGED <<prog, heap, out, ticks>>

-----------------------------------------------------------------------------
(* Statements are counted against the budget.                              *)
OpTick == /\ Instr("Tick")
          /\ ticks' = ticks + 1
          /\ IF ticks >= Budget THEN res' = Exception(RinError("limit")) /\ UNCHANGED acts
                                ELSE Step(R) /\ UNCHANGED res
          /\ UNCHANGED <<prog, heap, out, callDepth>>

(* Values and variables.                                                   *)
OpConst == Instr("Const") /\ Step(Push(R, In.a)) /\ Silent
OpMakeClosure == Instr("MakeClosure") /\ Step(Push(R, <<"fun", In.a, Env>>)) /\ Silent
OpPop == Instr("Pop") /\ Step(Pop(R, 1)) /\ Silent
OpPopN == Instr("PopN") /\ Step(Pop(R, In.a)) /\ Silent
OpMakeArray == /\ Instr("MakeArray")
               /\ Step(Push(Pop(R, In.a), <<"list", SubSeq(R.stack, Len(R.stack) - In.a + 1, Len(R.stack))>>))
               /\ Silent
OpMatchTest == Instr("MatchTest") /\ Step(Push(Pop(R, 1), <<"bool", Peek(0) = Peek(1)>>)) /\ Silent
OpBinary == /\ Instr("Binary")
            /\ \E c \in {Binary(In.a, Peek(1), Peek(0))} :
                 IF c.k = "ok" THEN Step(Push(Pop(R, 2), c.v)) /\ Silent ELSE Signal(c)
OpLoadVar == /\ Instr("LoadVar")
             /\ \E w \in {Owner(heap, Env, In.a)} :
                  IF w = 0 THEN Signal(RinError("E0001"))
                  ELSE Step(Push(R, heap[w].vars[In.a])) /\ Silent
OpAssignVar == /\ Instr("AssignVar")
               /\ \E w \in {Owner(heap, Env, In.a)} :
                    IF w = 0 THEN Signal(RinError("E0001"))
                    ELSE /\ heap' = Define(heap, w, In.a, Peek(0))
                         /\ Step(R)
                         /\ UNCHANGED <<prog, res, out, ticks, callDepth>>
OpFuncDef == /\ Instr("FuncDef")
             /\ heap' = Define(heap, Env, In.a.x, <<"fun", In.a.decl, Env>>)
             /\ Step(R)
             /\ UNCHANGED <<prog, res, out, ticks, callDepth>>
OpEmit == /\ Instr("PrintEmit")
               /\ out' = Append(out, Peek(0))
               /\ Step(Pop(R, 1))
               /\ UNCHANGED <<prog, res, heap, ticks, callDepth>>

(* Let: an else block runs in C++ (letRunElse) and must leave the scope.   *)
OpLet == /\ Instr("Let")
         /\ IF In.a.els # <<>> /\ Peek(0) = Nil
            THEN /\ acts' = Append(Below, Jump(Pop(R, 1), 1)) \o <<[k |-> "else"], RunOf(In.a.els, Env)>>
                 /\ UNCHANGED heap
            ELSE /\ heap' = Define(heap, Env, In.a.x, Peek(0))
                 /\ Step(Pop(R, 1))
         /\ UNCHANGED <<prog, res, out, ticks, callDepth>>

(* Scopes.                                                                 *)
OpPushScope == /\ Instr("PushScope")
               /\ heap' = NewEnv(heap, Env, NoVars)
               /\ Step(Enter(R, Len(heap) + 1))
               /\ UNCHANGED <<prog, res, out, ticks, callDepth>>
OpPopScope == Instr("PopScope") /\ Step(Leave(R, 1)) /\ Silent
OpForIterBegin == /\ Instr("ForIterBegin")
                  /\ heap' = NewEnv(heap, heap[Env].up, heap[Env].vars)
                  /\ Step(Enter(R, Len(heap) + 1))
                  /\ UNCHANGED <<prog, res, out, ticks, callDepth>>
OpForIterEnd == /\ Instr("ForIterEnd")
                /\ heap' = CopyBack(heap, Env, R.envs[Len(R.envs) - 1])
                /\ Step(Leave(R, 1))
                /\ UNCHANGED <<prog, res, out, ticks, callDepth>>

(* Jumps.                                                                  *)
OpJmp == Instr("Jmp") /\ Resume(Jump(R, In.a)) /\ Silent
OpJmpIf == /\ Running
           /\ In.op \in {"JmpFalse", "JmpTrue"}
           /\ Resume(Jump(Pop(R, 1), IF Truthy(Peek(0)) = (In.op = "JmpTrue") THEN In.a ELSE 1))
           /\ Silent
OpJmpKeep == /\ Running
             /\ In.op \in {"JmpFalseKeep", "JmpTrueKeep"}
             /\ Resume(IF Truthy(Peek(0)) = (In.op = "JmpTrueKeep") THEN Jump(R, In.a)
                       ELSE Jump(Pop(R, 1), 1))
             /\ Silent

(* Handlers and loop marks remember how high the other stacks are.         *)
OpHandlerBegin ==
  /\ Running
  /\ In.op \in {"TryBegin", "GoalBegin"}
  /\ Step([R EXCEPT !.handlers = Append(@,
       [goal |-> In.op = "GoalBegin", target |-> TopFrame(R).pc + In.a, frame |-> Len(R.frames),
        stack |-> Len(R.stack), env |-> Len(R.envs), loops |-> Len(R.loops)])])
  /\ Silent
OpHandlerEnd == /\ Running
                /\ In.op \in {"TryEnd", "GoalEnd"}
                /\ Step([R EXCEPT !.handlers = Drop(@, 1)])
                /\ Silent
OpCatchBind == /\ Instr("CatchBind")
               /\ heap' = Define(heap, Env, In.a, Peek(0))
               /\ Step(Pop(R, 1))
               /\ UNCHANGED <<prog, res, out, ticks, callDepth>>
OpLoopEnter ==
  /\ Instr("LoopEnter")
  /\ Step([R EXCEPT !.loops = Append(@,
       [break |-> TopFrame(R).pc + In.a, continue |-> TopFrame(R).pc + In.b,
        stack |-> Len(R.stack), env |-> Len(R.envs), handlers |-> Len(R.handlers)])])
  /\ Silent
OpLoopSync == /\ Instr("LoopSync")
              /\ Step([R EXCEPT !.loops[Len(R.loops)].env = Len(R.envs),
                                !.loops[Len(R.loops)].stack = Len(R.stack)])
              /\ Silent
OpLoopLeave == Instr("LoopLeave") /\ Step([R EXCEPT !.loops = Drop(@, 1)]) /\ Silent

(* for..in keeps the items and the index on the stack.                     *)
OpForInPrep == /\ Instr("ForInPrep")
               /\ IF Peek(0)[1] = "list" THEN Step(Push(R, Num(0))) /\ Silent
                  ELSE Signal(RinError("E0004"))
OpForInNext ==
  /\ Instr("ForInNext")
  /\ \E i \in {Peek(0)[2] + 1} :
       IF i > Len(Peek(1)[2]) THEN Resume(Jump(R, In.a)) /\ Silent
       ELSE /\ heap' = NewEnv(heap, Env, [x \in {In.b} |-> Peek(1)[2][i]])
            /\ Step(Enter(Push(Pop(R, 1), Num(i)), Len(heap) + 1))
            /\ UNCHANGED <<prog, res, out, ticks, callDepth>>

(* Calls.  vmEnterCall gives a Rin function a frame of this run; a method  *)
(* goes through callFunction, which starts a run of its own.               *)
Arguments(n) == SubSeq(R.stack, Len(R.stack) - n + 1, Len(R.stack))
EnterCall(fn, args, r) ==
  \E no \in {CallRefused(fn, Len(args), callDepth)} :
    IF no # <<>> THEN Signal(RinError(no[1]))
    ELSE /\ heap' = NewEnv(heap, fn[3], BindArgs(fn[2], args))
         /\ callDepth' = callDepth + 1
         /\ \E caller \in {Jump(r, 1)} :
              Resume([caller EXCEPT !.envs = Append(@, Len(heap) + 1), !.frames = Append(@,
                [code |-> Proto(fn[2].body), pc |-> 1, stack |-> Len(r.stack), env |-> Len(r.envs),
                 handlers |-> Len(r.handlers), loops |-> Len(r.loops), typed |-> fn[2].typed])])
         /\ UNCHANGED <<prog, res, out, ticks>>
OpCallNamed ==
  /\ Instr("CallNamed")
  /\ \E w \in {Owner(heap, Env, In.a)} :
       IF w = 0 THEN Signal(RinError("E0001"))
       ELSE EnterCall(heap[w].vars[In.a], Arguments(In.b), Pop(R, In.b))
OpCallValue == Instr("CallValue") /\ EnterCall(Peek(In.a), Arguments(In.a), Pop(R, In.a + 1))
OpCallMethod ==
  /\ Instr("CallMethod")
  /\ \E no \in {CallRefused(Peek(In.a), In.a, callDepth)}, fn \in {Peek(In.a)} :
       IF no # <<>> THEN Signal(RinError(no[1]))
       ELSE /\ heap' = NewEnv(heap, fn[3], BindArgs(fn[2], Arguments(In.a)))
            /\ callDepth' = callDepth + 1
            /\ acts' = Append(Below, Jump(Pop(R, In.a + 1), 1))
                         \o <<[k |-> "call", typed |-> fn[2].typed],
                              [RunOf(fn[2].body, Len(heap) + 1) EXCEPT !.depth = callDepth + 1]>>
            /\ UNCHANGED <<prog, res, out, ticks>>

(* Leaving.                                                                *)
OpReturn == Instr("Return") /\ DoReturn(Peek(0))
OpEnd == Instr("End") /\ IF Len(R.frames) = 1 THEN EndRun(Flow("ok", Nil)) ELSE DoReturn(Nil)
OpThrow == Instr("Throw") /\ Signal(Raise("throw", Peek(0)))
OpAchieve == Instr("Achieve") /\ Signal(Raise("achieve", Peek(0)))
OpLoopSignal == /\ Running
                /\ \E kind \in {"break", "continue"} :
                     /\ In.op = IF kind = "break" THEN "Break" ELSE "Continue"
                     /\ LoopSignal(kind, Flow(kind, Nil))

(* ExecStmt: exec() of a delegated try, which counts itself and runs the   *)
(* body through vmRunStmt.                                                 *)
OpExecStmt ==
  /\ Instr("ExecStmt")
  /\ ticks' = ticks + 1
  /\ IF ticks >= Budget THEN res' = Exception(RinError("limit")) /\ UNCHANGED acts
     ELSE /\ acts' = Append(Below, Jump(R, 1))
                       \o <<[k |-> "try", n |-> In.a, env |-> Env, phase |-> "body", pending |-> None],
                            RunOf(<<In.a.body>>, Env)>>
          /\ UNCHANGED res
  /\ UNCHANGED <<prog, heap, out, callDepth>>

-----------------------------------------------------------------------------
(* A result arrives at the run that waits for it, or at the run whose own  *)
(* instruction threw.                                                      *)
Arrived(kind) == res # None /\ acts # <<>> /\ R.k = kind
Caught_Requeued ==
  /\ Arrived("run")
  /\ res.x
  /\ res.k \in {"throw", "rin", "achieve"}
  /\ IF Handlers(res.k = "achieve") = {} THEN UNCHANGED vars
     ELSE /\ Unwind(res.k = "achieve", IF res.k = "achieve" THEN res.v ELSE CaughtMap(res))
          /\ res' = None
          /\ UNCHANGED <<prog, heap, out, ticks>>
Caught == /\ Arrived("run")
          /\ res.x
          /\ res.k \in {"throw", "rin", "achieve"}
          /\ IF Handlers(res.k = "achieve") = {} THEN EndRun(res)
             ELSE /\ Unwind(res.k = "achieve", IF res.k = "achieve" THEN res.v ELSE CaughtMap(res))
                  /\ res' = None
                  /\ UNCHANGED <<prog, heap, out, ticks>>
LoopSignalArrives == /\ Arrived("run")
                     /\ res.k \in {"break", "continue"}
                     /\ LoopSignal(res.k, res)

(* A return that comes as a signal is handled outside the try of           *)
(* vmExecute: an error of its type check leaves the run.                   *)
ReturnSignalArrives ==
  /\ Arrived("run")
  /\ res.k = "return"
  /\ res.x
  /\ IF Len(R.frames) = 1 THEN EndRun(Flow("return", res.v))
     ELSE \E c \in {Checked(TopFrame(R), res.v)} :
            IF c.k # "ok" THEN EndRun(Exception(c))
            ELSE /\ Resume(Push(PopFrame(R), res.v))
                 /\ res' = None
                 /\ callDepth' = callDepth - 1
                 /\ UNCHANGED <<prog, heap, out, ticks>>
ReturnFlowArrives == Arrived("run") /\ res.k = "return" /\ ~res.x /\ DoReturn(res.v)
ValueArrives == /\ Arrived("run")
                /\ res.k \in {"ok", "value"}
                /\ Resume(IF res.k = "value" THEN Push(R, res.v) ELSE R)
                /\ res' = None
                /\ UNCHANGED <<prog, heap, out, ticks, callDepth>>

(* The rest of callFunction.                                               *)
CallEnds == /\ Arrived("call")
            /\ acts' = Below
            /\ callDepth' = callDepth - 1
            /\ \E c \in {IF res.k \in {"return", "ok"} THEN Checked(R, res.v) ELSE res} :
                 res' = IF c.k = "ok" THEN Flow("value", c.v) ELSE Exception(c)
            /\ UNCHANGED <<prog, heap, out, ticks>>

(* The rest of letRunElse.                                                 *)
ElseEnds == /\ Arrived("else")
            /\ acts' = Below
            /\ res' = Exception(IF res.k = "ok" THEN RinError("E0048") ELSE res)
            /\ UNCHANGED <<prog, heap, out, ticks, callDepth>>

(* The rest of exec(TryCatchStmt): a catch clause, then finally.           *)
Catches == R.phase = "body" /\ res.k \in {"throw", "rin"} /\ R.n.catch # <<>>
TryCatches == /\ Arrived("try")
              /\ Catches
              /\ heap' = NewEnv(heap, R.env, [x \in {R.n.x} |-> CaughtMap(res)])
              /\ acts' = Below \o <<[R EXCEPT !.phase = "catch"], RunOf(R.n.catch, Len(heap) + 1)>>
              /\ res' = None
              /\ UNCHANGED <<prog, out, ticks, callDepth>>
TryRunsFinally == /\ Arrived("try")
                  /\ ~Catches
                  /\ R.phase # "finally"
                  /\ R.n.fin # <<>>
                  /\ acts' = Below \o <<[R EXCEPT !.phase = "finally", !.pending = res], RunOf(R.n.fin, R.env)>>
                  /\ res' = None
                  /\ UNCHANGED <<prog, heap, out, ticks, callDepth>>
TryEnds == /\ Arrived("try")
           /\ ~Catches
           /\ R.phase = "finally" \/ R.n.fin = <<>>
           /\ acts' = Below
           /\ res' = IF R.phase = "finally" /\ res.k = "ok" THEN R.pending ELSE res
           /\ UNCHANGED <<prog, heap, out, ticks, callDepth>>

-----------------------------------------------------------------------------
(* The host calls a function whose body is the program.                    *)
Init == /\ prog \in Programs
        /\ heap = <<[up |-> 0, vars |-> NoVars]>>
        /\ callDepth = 1
        /\ acts = <<[k |-> "call", typed |-> FALSE], RunOf(prog, 1)>>
        /\ res = None
        /\ out = <<>>
        /\ ticks = 0

Next == \/ OpTick \/ OpConst \/ OpMakeClosure \/ OpPop \/ OpPopN \/ OpMakeArray \/ OpMatchTest
        \/ OpBinary \/ OpLoadVar \/ OpAssignVar \/ OpFuncDef \/ OpEmit \/ OpLet
        \/ OpPushScope \/ OpPopScope \/ OpForIterBegin \/ OpForIterEnd
        \/ OpJmp \/ OpJmpIf \/ OpJmpKeep \/ OpHandlerBegin \/ OpHandlerEnd \/ OpCatchBind
        \/ OpLoopEnter \/ OpLoopSync \/ OpLoopLeave \/ OpForInPrep \/ OpForInNext
        \/ OpCallNamed \/ OpCallValue \/ OpCallMethod
        \/ OpReturn \/ OpEnd \/ OpThrow \/ OpAchieve \/ OpLoopSignal \/ OpExecStmt
        \/ Caught \/ LoopSignalArrives \/ ReturnSignalArrives \/ ReturnFlowArrives \/ ValueArrives
        \/ CallEnds \/ ElseEnds \/ TryCatches \/ TryRunsFinally \/ TryEnds

Spec == Init /\ [][Next]_vars
(* A single thread runs the loop of vmLoop: nothing keeps it from its next *)
(* instruction.                                                            *)
FairSpec == Spec /\ WF_vars(Next)

-----------------------------------------------------------------------------
Done == acts = <<>>

(* The machine prints what the tree-walker prints, ends as it ends, and    *)
(* has counted as many statements: rin_bcvm.h promises that the two agree. *)
SameAsTree ==
  Done => \E t \in {TreeRun(prog)} :
            /\ out = t.s.out
            /\ ticks = t.s.ticks
            /\ IF t.o.k = "ok" THEN res = Flow("value", t.o.v) ELSE res = Exception(t.o)

(* Code that falls off its end has left every scope, handler, loop mark    *)
(* and value it made, and none of its caller's.                            *)
LeavesClean ==
  Running /\ In.op = "End" =>
    /\ Len(R.envs) = TopFrame(R).env + 1
    /\ Len(R.stack) = TopFrame(R).stack
    /\ Len(R.handlers) = TopFrame(R).handlers
    /\ Len(R.loops) = TopFrame(R).loops

(* callDepth counts the calls that are under way, however the ones before  *)
(* them ended: it is what E0035 is decided on.                             *)
RECURSIVE Calls(_)
Calls(as) == IF as = <<>> THEN 0
             ELSE Calls(Tail(as)) + (CASE Head(as).k = "call" -> 1
                                       [] Head(as).k = "run" -> Len(Head(as).frames) - 1
                                       [] OTHER -> 0)
DepthIsCalls == callDepth = Calls(acts)

(* Every program ends: a loop without an end runs into the budget.         *)
Ends == <>Done
=============================================================================
