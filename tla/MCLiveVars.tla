----------------------------- MODULE MCLiveVars -----------------------------
(***************************************************************************)
(* Programs for model checking LiveVars.                                   *)
(***************************************************************************)
EXTENDS LiveVars

Lit(k) == [op |-> "lit", v |-> k]
Ref(n) == [op |-> "var", n |-> n]
Add(l, r) == [op |-> "add", l |-> l, r |-> r]
Less(l, r) == [op |-> "less", l |-> l, r |-> r]
Cond(c, t, e) == [op |-> "if", c |-> c, t |-> t, e |-> e]
None == [op |-> "none"]

Plain(n, e) ==
    [name |-> n, kind |-> "plain", expr |-> e, mode |-> "none", lo |-> 0, hi |-> 0, keep |-> 0,
     burns |-> 0, rule |-> None, fallback |-> None, pre |-> None, post |-> None,
     strict |-> FALSE, when |-> None, lazy |-> FALSE, step |-> 1]
Val(n, e) == [Plain(n, e) EXCEPT !.kind = "val"]
Tape(n, e, k) == [Plain(n, e) EXCEPT !.kind = "tape", !.keep = k]

Clamp(d, mode, lo, hi) == [d EXCEPT !.mode = mode, !.lo = lo, !.hi = hi]

\* x -> b, c -> d: the diamond of docs/val.md, b clamped, in a trial.
Diamond == [depth |-> 1,
    stmts |-> {<<"assign", "x">>, <<"undo", "t">>, <<"assign", "t">>},
    decls |-> << Plain("x", Lit(0)), Tape("t", Lit(0), 2),
                 Clamp(Val("b", Add(Ref("x"), Ref("t"))), "clamp", 0, 2),
                 Val("c", Add(Ref("x"), Lit(1))),
                 Val("d", Add(Ref("b"), Ref("c"))) >>]

\* Trials in trials.
Nested == [depth |-> 2,
    stmts |-> {<<"assign", "x">>, <<"undo", "t">>, <<"assign", "t">>},
    decls |-> << Plain("x", Lit(0)), Tape("t", Lit(0), 1), Val("b", Add(Ref("x"), Ref("t"))) >>]

Fuse == [depth |-> 1,
    stmts |-> {<<"show", "f">>, <<"rearm", "f">>, <<"assign", "f">>},
    decls |-> << [Plain("f", Lit(1)) EXCEPT !.kind = "fuse", !.burns = 2] >>]

\* Bells that write: one on a source, one on a val, with a val held back by its `when`.
Bells == [depth |-> 1,
    stmts |-> {<<"assign", "x">>, <<"bell", "x">>, <<"bell", "b">>, <<"bell", "t">>, <<"ban", "t">>,
               <<"touch", "b">>, <<"unval", "b">>},
    decls |-> << Plain("x", Lit(2)), Tape("t", Lit(0), 1),
                 [Val("b", Add(Ref("x"), Lit(1))) EXCEPT !.when = Less(Lit(0), Ref("x"))],
                 Val("c", Add(Ref("b"), Ref("t"))) >>]

\* The guards: a gauge with a history, an accept with a fallback, a contract whose two halves
\* refuse.  A bell on the gauge writes into the accept or into the contract.
Guards == [depth |-> 1,
    stmts |-> {<<"assign", "g">>, <<"undo", "g">>, <<"bell", "g">>, <<"assign", "a">>,
               <<"assign", "p">>, <<"inc", "p">>},
    decls |-> << [Clamp(Tape("g", Lit(1), 1), "wrap", 0, 2) EXCEPT !.kind = "gauge"],
                 [Plain("a", Lit(0)) EXCEPT !.kind = "accept", !.rule = Less(Ref("a"), Lit(2)),
                                            !.fallback = Add(Ref("g"), Ref("g"))],
                 [Plain("p", Lit(0)) EXCEPT !.kind = "gate", !.strict = TRUE,
                      !.pre = Less(Ref("old"), Lit(1)), !.post = Less(Ref("p"), Lit(2))] >>]

\* Moves, a strict gauge, a lens and a lazy val that the lens reads.
Lazy == [depth |-> 0,
    stmts |-> {<<"inc", "x">>, <<"base", "x">>, <<"assign", "t">>, <<"show", "z">>, <<"show", "l">>,
               <<"unval", "z">>},
    decls |-> << [Plain("x", Lit(1)) EXCEPT !.kind = "base"],
                 [Clamp(Plain("t", Lit(0)), "strict", 0, 1) EXCEPT !.kind = "gauge"],
                 [Val("z", Add(Ref("x"), Ref("t"))) EXCEPT !.lazy = TRUE],
                 Val("w", Add(Ref("z"), Lit(1))),
                 [Plain("l", Add(Ref("w"), Lit(1))) EXCEPT !.kind = "lens"] >>]

Static == {Diamond, Nested, Fuse, Bells, Guards, Lazy}
TheRhs == {Lit(0), Lit(2)}
TheHandlers == {[target |-> "t", expr |-> Lit(1)], [target |-> "a", expr |-> Add(Ref("g"), Lit(1))],
                [target |-> "p", expr |-> Add(Ref("g"), Lit(1))]}

\* w is in v only once x is not 0: what v reads changes from one computation to the next.
Dynamic == {[depth |-> 0, stmts |-> {<<"assign", "x">>},
    decls |-> << Plain("x", Lit(0)), Val("w", Add(Ref("x"), Lit(1))),
                 Val("v", Cond(Ref("x"), Ref("w"), Lit(0))) >>]}

\* The program of a trial reads a lazy val that is stale when it begins.
Rolled == {[depth |-> 1, stmts |-> {<<"assign", "x">>, <<"show", "z">>},
    decls |-> << Plain("x", Lit(1)), [Val("z", Add(Ref("x"), Lit(1))) EXCEPT !.lazy = TRUE] >>]}

\* Of the same shape, no lazy val: v reads t only while x is not 0, and a trial sets x to 0.
RolledReads == {[depth |-> 1, stmts |-> {<<"assign", "x">>, <<"assign", "t">>},
    decls |-> << Plain("x", Lit(1)), Plain("t", Lit(0)),
                 Val("v", Cond(Ref("x"), Ref("t"), Lit(0))) >>]}
=============================================================================
