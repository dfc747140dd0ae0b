----------------------------- MODULE TreeWalker -----------------------------
(***************************************************************************)
(* The tree-walking interpreter of Rin: exec() and evaluateTree() of       *)
(* rin_interpreter.cpp over the control constructs of the language.  It is *)
(* the reference that the bytecode machine (module BytecodeVm) is compared *)
(* with.                                                                   *)
(*                                                                         *)
(* A node of the tree is a record whose field k is its kind.  Walk(n, e, s)*)
(* is the call exec(n, e) or evaluate(n, e) in the interpreter state s; it *)
(* is a result [o |-> how it ended, s |-> the state after it].  The C++    *)
(* returns break, continue and return as a Flow or throws them as signals; *)
(* the two forms meet the same handlers in the tree-walker, so one outcome *)
(* stands for both.  Values are tagged tuples; text, maps, classes and the *)
(* attributes of print are left out.                                       *)
(***************************************************************************)
EXTENDS Naturals, Sequences, TLC

CONSTANTS MaxCallDepth,  \* maxCallDepth_
          Budget         \* execBudget_: statements that may be executed

ASSUME LimitsAreNat == MaxCallDepth \in Nat /\ Budget \in Nat

Nil == <<"nil">>
Num(i) == <<"num", i>>
IsNum(v) == v[1] = "num"
Truthy(v) == v # Nil /\ v # <<"bool", FALSE>>

(* How a statement or an expression ends.                                  *)
Ok(v) == [k |-> "ok", v |-> v]
Ended(kind) == [k |-> kind, v |-> Nil]
Raise(kind, v) == [k |-> kind, v |-> v]
RinError(code) == Raise("rin", <<"code", code>>)

(* The map a catch clause receives for a thrown value or a system error.   *)
CaughtMap(o) == <<"caught", o.k, o.v>>

(***************************************************************************)
(* Environments: heap[e] is the environment e, up the one around it.       *)
(***************************************************************************)
NoVars == [x \in {} |-> Nil]
NewEnv(heap, up, vars) == Append(heap, [up |-> up, vars |-> vars])
Define(heap, e, x, v) ==
  [heap EXCEPT ![e].vars = [y \in DOMAIN @ \cup {x} |-> IF y = x THEN v ELSE @[y]]]

RECURSIVE Owner(_, _, _)
Owner(heap, e, x) == IF e = 0 \/ x \in DOMAIN heap[e].vars THEN e ELSE Owner(heap, heap[e].up, x)

(* The end of an iteration of for: what the body did to the loop variables *)
(* goes back to the environment of the loop.                               *)
CopyBack(heap, from, to) ==
  [heap EXCEPT ![to].vars = [y \in DOMAIN @ |-> IF y \in DOMAIN heap[from].vars
                                               THEN heap[from].vars[y] ELSE @[y]]]

Binary(op, l, r) ==
  IF op = "eq" THEN Ok(<<"bool", l = r>>)
  ELSE IF ~(IsNum(l) /\ IsNum(r)) THEN RinError("E0004")
  ELSE IF op = "add" THEN Ok(Num(l[2] + r[2]))
  ELSE Ok(<<"bool", l[2] < r[2]>>)

(* The two checks callFunction and vmEnterCall make before they enter.     *)
CallRefused(fn, argc, depth) ==
  IF fn[1] # "fun" THEN <<"E0004">>
  ELSE IF argc # Len(fn[2].params) THEN <<"E0007">>
  ELSE IF depth >= MaxCallDepth THEN <<"E0035">>
  ELSE <<>>

(* checkDeclaredType on the value a function with a declared type returns. *)
Checked(decl, v) == IF decl.typed /\ ~IsNum(v) THEN RinError("E0004") ELSE Ok(v)

BindArgs(decl, args) ==
  [x \in {decl.params[i] : i \in DOMAIN decl.params} |->
     args[CHOOSE i \in DOMAIN decl.params : decl.params[i] = x]]

-----------------------------------------------------------------------------
(* Sequencing.  With binds the value of r once.                            *)
With(r, F(_)) == CHOOSE x \in {F(q) : q \in {r}} : TRUE
Then(r, F(_)) == With(r, LAMBDA q : IF q.o.k = "ok" THEN F(q) ELSE q)

StmtKinds == {"expr", "print", "let", "block", "try", "throw", "if", "while", "for",
              "forin", "match", "achieve", "fun", "return", "break", "continue"}

NewScope(s, up, vars) == [s EXCEPT !.heap = NewEnv(@, up, vars)]
Fresh(s) == Len(s.heap) + 1

RECURSIVE Walk(_, _, _)

Statements(ss, e, s) == Walk([k |-> "seq", ss |-> ss], e, s)

(* executeBlock in an environment of its own.                              *)
InScope(ss, up, vars, s) == Statements(ss, Fresh(s), NewScope(s, up, vars))

(* callFunction.                                                           *)
CallFunction(fn, args, s) ==
  With(CallRefused(fn, Len(args), s.depth), LAMBDA no :
    IF no # <<>> THEN [o |-> RinError(no[1]), s |-> s]
    ELSE With(InScope(fn[2].body, fn[3], BindArgs(fn[2], args), [s EXCEPT !.depth = @ + 1]),
           LAMBDA q : [o |-> CASE q.o.k = "return" -> Checked(fn[2], q.o.v)
                               [] q.o.k = "ok" -> Checked(fn[2], Nil)
                               [] OTHER -> q.o,
                       s |-> [q.s EXCEPT !.depth = s.depth]]))

(* The loops.  A result that is break ends the loop without its done block.*)
LoopBody(q, Again(_)) ==
  CASE q.o.k \in {"ok", "continue"} -> Again(q)
    [] q.o.k = "break" -> [q EXCEPT !.o = Ok(Nil)]
    [] OTHER -> q

While(n, e, s) ==
  Then(Walk(n.cond, e, s), LAMBDA c :
    IF ~Truthy(c.o.v) THEN Statements(n.done, e, c.s)
    ELSE With(Walk(n.body, e, c.s), LAMBDA q :
           LoopBody(q, LAMBDA b : Walk([n EXCEPT !.k = "while#"], e, b.s))))

(* n.env is the environment of the loop, made by the caller.               *)
For(n, e, s) ==
  Then(Walk(n.cond, n.env, s), LAMBDA c :
    IF ~Truthy(c.o.v) THEN Statements(n.done, e, c.s)
    ELSE With(Fresh(c.s), LAMBDA it :
      With(IF n.fresh THEN Walk(n.body, it, NewScope(c.s, e, c.s.heap[n.env].vars))
                      ELSE Walk(n.body, n.env, c.s), LAMBDA q :
        With(IF n.fresh /\ q.o.k \in {"ok", "break", "continue"}
             THEN [q EXCEPT !.s.heap = CopyBack(@, it, n.env)] ELSE q, LAMBDA p :
          LoopBody(p, LAMBDA b : Then(Walk(n.inc, n.env, b.s), LAMBDA i :
            Walk(n, e, i.s)))))))

ForIn(n, e, s) ==
  IF n.items = <<>> THEN Statements(n.done, e, s)
  ELSE With(Walk(n.body, Fresh(s), NewScope(s, e, [x \in {n.x} |-> Head(n.items)])), LAMBDA q :
         LoopBody(q, LAMBDA b : Walk([n EXCEPT !.items = Tail(@)], e, b.s)))

(* try / catch / finally: whatever way the first two end, finally runs.    *)
Clauses(n, e, s) ==
  With(Walk(n.body, e, s), LAMBDA q :
    IF q.o.k \in {"throw", "rin"} /\ n.catch # <<>>
    THEN Walk(n.catch[1], Fresh(q.s), NewScope(q.s, e, [x \in {n.x} |-> CaughtMap(q.o)]))
    ELSE q)
Try(n, e, s) ==
  IF n.fin = <<>> THEN Clauses(n, e, s)
  ELSE With(Clauses(n, e, s), LAMBDA q :
         With(Walk(n.fin[1], e, q.s), LAMBDA f :
           IF f.o.k = "ok" THEN [o |-> q.o, s |-> f.s] ELSE f))

(* match: n.subject is evaluated once, then the cases in order; a case     *)
(* whose guard is false falls to the next.                                 *)
Match(n, e, s) ==
  IF n.cases = <<>> THEN IF n.els = <<>> THEN [o |-> Ok(Nil), s |-> s]
                         ELSE InScope(n.els[1], e, NoVars, s)
  ELSE IF Head(n.cases).vals = <<>> THEN Walk([n EXCEPT !.cases = Tail(@)], e, s)
  ELSE Then(Walk(Head(Head(n.cases).vals), e, s), LAMBDA t :
         IF t.o.v # n.subject
         THEN Walk([n EXCEPT !.cases[1].vals = Tail(@)], e, t.s)
         ELSE Then(Walk(Head(n.cases).guard, e, t.s), LAMBDA g :
                IF Truthy(g.o.v) THEN InScope(Head(n.cases).body, e, NoVars, g.s)
                ELSE Walk([n EXCEPT !.cases = Tail(@)], e, g.s)))

Let(n, e, s) ==
  Then(Walk(n.e, e, s), LAMBDA q :
    Then(IF n.els # <<>> /\ q.o.v = Nil
         THEN Then(Walk(n.els[1], e, q.s), LAMBDA r : [r EXCEPT !.o = RinError("E0048")])
         ELSE q, LAMBDA r :
      [o |-> Ok(Nil), s |-> [r.s EXCEPT !.heap = Define(@, e, n.x, q.o.v)]]))

Exec(n, e, s) ==
  CASE n.k = "expr"   -> Walk(n.e, e, s)
    [] n.k = "print"  -> Then(Walk(n.e, e, s), LAMBDA q : [q EXCEPT !.s.out = Append(@, q.o.v)])
    [] n.k = "let"    -> Let(n, e, s)
    [] n.k = "block"  -> InScope(n.ss, e, NoVars, s)
    [] n.k = "try"    -> Try(n, e, s)
    [] n.k \in {"throw", "achieve", "return"} ->
         Then(Walk(n.e, e, s), LAMBDA q : [q EXCEPT !.o = Raise(n.k, q.o.v)])
    [] n.k = "if"     -> Then(Walk(n.cond, e, s), LAMBDA q :
                           Statements(IF Truthy(q.o.v) THEN n.yes ELSE n.no, e, q.s))
    [] n.k = "while"  -> While(n, e, s)
    [] n.k = "for"    -> Then(Walk(n.init, Fresh(s), NewScope(s, e, NoVars)), LAMBDA q :
                           For([env |-> Fresh(s)] @@ [n EXCEPT !.k = "for#"], e, q.s))
    [] n.k = "forin"  -> Then(Walk(n.e, e, s), LAMBDA q :
                           IF q.o.v[1] # "list" THEN [q EXCEPT !.o = RinError("E0004")]
                           ELSE ForIn([items |-> q.o.v[2]] @@ [n EXCEPT !.k = "forin#"], e, q.s))
    [] n.k = "match"  -> Then(Walk(n.e, e, s), LAMBDA q :
                           Match([subject |-> q.o.v] @@ [n EXCEPT !.k = "match#"], e, q.s))
    [] n.k = "fun"    -> [o |-> Ok(Nil), s |-> [s EXCEPT !.heap =
                           Define(@, e, n.x, <<"fun", n.decl, e>>)]]
    [] OTHER          -> [o |-> Ended(n.k), s |-> s]        \* break, continue

(* The arguments of a call, left to right, are a list value.               *)
Args(es, vs, e, s) == Walk([k |-> "args", es |-> es, vs |-> vs], e, s)

Evaluate(n, e, s) ==
  CASE n.k = "lit"    -> [o |-> Ok(n.v), s |-> s]
    [] n.k = "lambda" -> [o |-> Ok(<<"fun", n.decl, e>>), s |-> s]
    [] n.k = "var"    -> With(Owner(s.heap, e, n.x), LAMBDA w :
                           [o |-> IF w = 0 THEN RinError("E0001") ELSE Ok(s.heap[w].vars[n.x]), s |-> s])
    [] n.k = "assign" -> Then(Walk(n.e, e, s), LAMBDA q : With(Owner(q.s.heap, e, n.x), LAMBDA w :
                           IF w = 0 THEN [q EXCEPT !.o = RinError("E0001")]
                           ELSE [q EXCEPT !.s.heap = Define(@, w, n.x, q.o.v)]))
    [] n.k = "cond"   -> Then(Walk(n.cond, e, s), LAMBDA q :
                           Walk(IF Truthy(q.o.v) THEN n.yes ELSE n.no, e, q.s))
    [] n.k = "goal"   -> With(InScope(n.ss, e, NoVars, s), LAMBDA q :
                           CASE q.o.k = "achieve" -> [q EXCEPT !.o = Ok(q.o.v)]
                             [] q.o.k = "ok" -> [q EXCEPT !.o = Ok(Nil)]
                             [] OTHER -> q)
    [] n.k \in {"or", "and"} -> Then(Walk(n.l, e, s), LAMBDA q :
                           IF Truthy(q.o.v) = (n.k = "or") THEN q ELSE Walk(n.r, e, q.s))
    [] n.k \in {"add", "less", "eq"} -> Then(Walk(n.l, e, s), LAMBDA a :
                           Then(Walk(n.r, e, a.s), LAMBDA b : [b EXCEPT !.o = Binary(n.k, a.o.v, b.o.v)]))
    [] n.k = "list"   -> Args(n.es, <<>>, e, s)
    [] n.k = "call"   -> Then(Args(n.es, <<>>, e, s), LAMBDA a :
                           With(Owner(a.s.heap, e, n.x), LAMBDA w :
                             IF w = 0 THEN [a EXCEPT !.o = RinError("E0001")]
                             ELSE CallFunction(a.s.heap[w].vars[n.x], a.o.v[2], a.s)))
    [] n.k \in {"callvalue", "method"} -> Then(Walk(n.e, e, s), LAMBDA f :
                           Then(Args(n.es, <<>>, e, f.s), LAMBDA a : CallFunction(f.o.v, a.o.v[2], a.s)))

Walk(n, e, s) ==
  CASE n.k \in StmtKinds -> IF s.ticks >= Budget
                            THEN [o |-> RinError("limit"), s |-> [s EXCEPT !.ticks = @ + 1]]
                            ELSE Exec(n, e, [s EXCEPT !.ticks = @ + 1])
    [] n.k = "seq"    -> IF n.ss = <<>> THEN [o |-> Ok(Nil), s |-> s]
                         ELSE Then(Walk(Head(n.ss), e, s), LAMBDA q : Statements(Tail(n.ss), e, q.s))
    [] n.k = "args"   -> IF n.es = <<>> THEN [o |-> Ok(<<"list", n.vs>>), s |-> s]
                         ELSE Then(Walk(Head(n.es), e, s), LAMBDA q :
                                Args(Tail(n.es), Append(n.vs, q.o.v), e, q.s))
    [] n.k = "while#" -> While(n, e, s)
    [] n.k = "for#"   -> For(n, e, s)
    [] n.k = "forin#" -> ForIn(n, e, s)
    [] n.k = "match#" -> Match(n, e, s)
    [] OTHER          -> Evaluate(n, e, s)

(* A program is the body of a function that the host calls.                *)
Start == [heap |-> <<>>, out |-> <<>>, ticks |-> 0, depth |-> 0]
Main(ss) == [params |-> <<>>, typed |-> FALSE, body |-> ss]
TreeRun(ss) == CallFunction(<<"fun", Main(ss), 0>>, <<>>, Start)
=============================================================================
