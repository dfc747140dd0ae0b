---------------------------- MODULE MCBytecodeVm ----------------------------
(* Programs for the bytecode machine: every way to leave code, from inside *)
(* every pair of constructs, and the loop headers where a signal can start.*)
EXTENDS BytecodeVm

Lit(i) == [k |-> "lit", v |-> Num(i)]
Yes == [k |-> "lit", v |-> <<"bool", TRUE>>]
NilE == [k |-> "lit", v |-> Nil]
Var(x) == [k |-> "var", x |-> x]
Show(e) == [k |-> "print", e |-> e]
Say(i) == Show(Lit(i))
ExprS(e) == [k |-> "expr", e |-> e]
LetS(x, e) == [k |-> "let", x |-> x, e |-> e, els |-> <<>>]
LetElse(x, e, ss) == [k |-> "let", x |-> x, e |-> e, els |-> <<[k |-> "block", ss |-> ss]>>]
Block(ss) == [k |-> "block", ss |-> ss]
If(c, yes, no) == [k |-> "if", cond |-> c, yes |-> yes, no |-> no]
TryS(ss, x, catch, fin) == [k |-> "try", body |-> Block(ss), x |-> x, catch |-> catch, fin |-> fin]
Goal(ss) == [k |-> "goal", ss |-> ss]
Add(l, r) == [k |-> "add", l |-> l, r |-> r]
Less(l, r) == [k |-> "less", l |-> l, r |-> r]
Assign(x, e) == [k |-> "assign", x |-> x, e |-> e]
WhileS(c, ss, done) == [k |-> "while", cond |-> c, body |-> Block(ss), done |-> done]
ForS(x, n, inc, fresh, ss, done) ==
  [k |-> "for", init |-> LetS(x, Lit(0)), cond |-> Less(Var(x), Lit(n)), inc |-> inc,
   fresh |-> fresh, body |-> Block(ss), done |-> done]
ForInS(x, e, ss, done) == [k |-> "forin", x |-> x, e |-> e, body |-> Block(ss), done |-> done]
Case(vals, guard, ss) == [vals |-> vals, guard |-> guard, body |-> ss]
MatchS(e, cases, els) == [k |-> "match", e |-> e, cases |-> cases, els |-> els]
Decl(params, typed, ss) == [params |-> params, typed |-> typed, body |-> ss]
Lambda(d) == [k |-> "lambda", decl |-> d]
CallV(e, es) == [k |-> "callvalue", e |-> e, es |-> es]
Method(e, es) == [k |-> "method", e |-> e, es |-> es]
CallN(x, es) == [k |-> "call", x |-> x, es |-> es]
FunS(x, d) == [k |-> "fun", x |-> x, decl |-> d]
Stop(kind) == [k |-> kind]
Leave1(kind, e) == [k |-> kind, e |-> e]
Count(x) == Assign(x, Add(Var(x), Lit(1)))

(* The constructs: Wrap(c, ss) runs ss inside c, with a mark after it.     *)
Constructs == {"block", "if", "try", "catch", "finally", "clauses", "infinally", "goal", "while",
               "for", "forin", "match",
               "letelse", "frame", "method"}
Wrap(c, ss) ==
  CASE c = "block"     -> <<Block(ss), Say(10)>>
    [] c = "if"        -> <<If(Yes, <<Block(ss)>>, <<>>), Say(11)>>
    [] c = "try"       -> <<TryS(ss, "e", <<Block(<<Show(Var("e"))>>)>>, <<>>), Say(12)>>
    [] c = "catch"     -> <<TryS(<<Leave1("throw", Lit(5))>>, "e", <<Block(ss)>>, <<>>), Say(13)>>
    [] c = "finally"   -> <<TryS(ss, "e", <<>>, <<Block(<<Say(14)>>)>>), Say(15)>>
    [] c = "clauses"   -> <<TryS(ss \o <<Leave1("throw", Lit(6))>>, "e",
                                 <<Block(<<Show(Var("e"))>> \o ss)>>, <<Block(<<Say(33)>>)>>), Say(34)>>
    [] c = "infinally" -> <<TryS(<<Leave1("throw", Lit(6))>>, "e", <<>>, <<Block(ss)>>), Say(16)>>
    [] c = "goal"      -> <<Show(Goal(ss)), Say(17)>>
    [] c = "while"     -> <<LetS("w", Lit(0)),
                            WhileS(Less(Var("w"), Lit(2)), <<ExprS(Count("w"))>> \o ss,
                                   <<Block(<<Say(18)>>)>>), Say(19)>>
    [] c = "for"       -> <<ForS("j", 2, Count("j"), TRUE, ss, <<Block(<<Say(20)>>)>>), Say(21)>>
    [] c = "forin"     -> <<ForInS("x", [k |-> "list", es |-> <<Lit(7), Lit(8)>>], ss,
                                   <<Block(<<Say(22)>>)>>), Say(23)>>
    [] c = "match"     -> <<MatchS(Var("i"), <<Case(<<Lit(9), Lit(0)>>, Yes, ss),
                                               Case(<<Lit(1)>>, NilE, <<Say(24)>>)>>,
                                   <<<<Say(25)>>>>), Say(26)>>
    [] c = "letelse"   -> <<LetElse("y", NilE, ss), Say(27)>>
    [] c = "frame"     -> <<Show(CallV(Lambda(Decl(<<"p">>, FALSE, ss)), <<Lit(1)>>)), Say(28)>>
    [] OTHER           -> <<Show(Method(Lambda(Decl(<<>>, TRUE, ss)), <<>>)), Say(29)>>

(* The ways to leave; the parser accepts break and continue in a loop,     *)
(* achieve in a goal, of the same function.                                *)
Leaves == {Stop("break"), Stop("continue"), Leave1("achieve", Lit(1)), Leave1("return", Lit(2)),
           Leave1("throw", Lit(3)), ExprS(Var("nowhere")), Say(4)}
Local(l) == l.k \in {"break", "continue", "achieve"}
Function(c) == c \in {"frame", "method"}

(* Twice round a loop, in a goal, in a try; the first time l is met inside *)
(* c2 inside c1.                                                           *)
Nest(c1, c2, l) ==
  <<TryS(<<Show(Goal(<<
      ForS("i", 2, Count("i"), TRUE,
           Wrap(c1, Wrap(c2, <<If(Less(Var("i"), Lit(1)), <<l>>, <<>>)>>)), <<Block(<<Say(30)>>)>>),
      Say(31)>>))>>, "e", <<Block(<<Show(Var("e"))>>)>>, <<>>),
    Say(32)>>
Nests == {Nest(c1, c2, l) : c1 \in Constructs, c2 \in Constructs, l \in Leaves}
LegalNests == {Nest(t[1], t[2], t[3]) : t \in
  {u \in Constructs \X Constructs \X Leaves : Local(u[3]) => ~Function(u[1]) /\ ~Function(u[2])}}

(* Calls: recursion beyond the depth that is allowed, a wrong number of    *)
(* arguments, closures that keep the variable of their iteration, and a    *)
(* value of the wrong type returned through a try.                         *)
Caught1(ss) == TryS(ss, "e", <<Block(<<Show(Var("e"))>>)>>, <<>>)
Calling ==
  { <<FunS("f", Decl(<<>>, FALSE, <<Leave1("return", CallN("f", <<>>))>>)),
      Caught1(<<Show(CallN("f", <<>>))>>), Caught1(<<Show(CallN("f", <<>>))>>)>>,
    <<FunS("f", Decl(<<"p">>, FALSE, <<Leave1("return", Var("p"))>>)),
      Caught1(<<Show(CallN("f", <<>>))>>), Show(CallN("f", <<Lit(1)>>)), Show(CallN("g", <<>>))>>,
    <<LetS("k", NilE),
      ForS("i", 3, Count("i"), TRUE,
           <<If(Less(Var("i"), Lit(1)), <<ExprS(Assign("k", Lambda(Decl(<<>>, FALSE,
               <<Leave1("return", Count("i"))>>))))>>, <<ExprS(Count("i"))>>),
             Show(CallV(Var("k"), <<>>))>>, <<>>),
      Show(CallN("k", <<>>))>>,
    <<FunS("f", Decl(<<>>, TRUE, <<TryS(<<Leave1("return", NilE)>>, "e", <<Block(<<Say(1)>>)>>, <<>>)>>)),
      Caught1(<<Show(CallN("f", <<>>))>>)>>,
    <<WhileS(Yes, <<Caught1(<<Leave1("throw", Lit(1))>>)>>, <<>>)>>,
    <<Show([k |-> "or", l |-> NilE, r |-> Goal(<<Leave1("achieve", [k |-> "and", l |-> NilE, r |-> Lit(1)])>>)]),
      Show([k |-> "cond", cond |-> [k |-> "eq", l |-> Lit(1), r |-> NilE], yes |-> Lit(1),
             no |-> [k |-> "or", l |-> Lit(2), r |-> Lit(3)]]),
      Caught1(<<ForInS("x", Lit(1), <<>>, <<>>)>>),
      Caught1(<<ExprS(Assign("nowhere", Lit(1)))>>),
      Caught1(<<Show(CallV(Lit(1), <<>>))>>),
      Caught1(<<Show(Add(NilE, Lit(1)))>>)>> }

MCPrograms == LegalNests \cup Calling

(* A signal that starts in the header of an inner loop, and a value of the *)
(* wrong type returned by the else block of a let.                         *)
Outer(ss) == <<ForS("k", 2, Count("k"), FALSE, <<Block(<<Show(Var("k"))>> \o ss \o <<Say(40)>>)>>, <<>>), Say(41)>>
HeaderPrograms ==
  { Outer(<<ForS("i", 2, Goal(<<Stop("break")>>), FALSE, <<Show(Var("i"))>>, <<>>)>>),
    Outer(<<WhileS(Goal(<<Stop("break")>>), <<Say(42)>>, <<>>)>>) }
ReturnPrograms ==
  { <<FunS("f", Decl(<<>>, TRUE, <<LetElse("y", NilE, <<Leave1("return", NilE)>>)>>)),
      Caught1(<<Show(CallN("f", <<>>))>>), Say(43)>> }
=============================================================================
