----------------------------- MODULE MCResolver -----------------------------
(***************************************************************************)
(* Small registries for Resolver: three packages with two or three         *)
(* versions, each of which asks for nothing or for one other package, and  *)
(* a few that exercise the forms of constraints.                           *)
(***************************************************************************)
EXTENDS Resolver

MCPkgs == {"a", "b", "c"}
MCRoot == "<root>"

Star == [op |-> "*", parts |-> <<>>, pre |-> 0]
Written(op, parts) == [op |-> op, parts |-> parts, pre |-> 0]
Req(name, spec) == [name |-> name, spec |-> spec]

V(major, minor, patch) == <<major, minor, patch, 0>>
Beta(major, minor, patch) == <<major, minor, patch, 1>>

\* Every graph of one requirement per version: newest or oldest only.
Old == V(1, 0, 0)
New == V(1, 1, 0)
AskFor(p) == {<<>>} \cup {<<Req(q, s)>> : q \in MCPkgs \ {p}, s \in {Star, Written("=", <<1, 0, 0>>)}}
Graphs3 ==
    {[root |-> r,
      versions |-> [p \in MCPkgs |-> {Old, New}],
      deps |-> [a |-> (Old :> ao @@ New :> an), b |-> (Old :> bo @@ New :> bn), c |-> (Old :> co @@ New :> cn)],
      refused |-> {}] :
        r \in {<<Req("a", Star), Req("b", Star)>>, <<Req("a", Star), Req("c", Written("=", <<1, 0, 0>>))>>},
        ao \in AskFor("a"), an \in AskFor("a"),
        bo \in AskFor("b"), bn \in AskFor("b"),
        co \in {<<>>, <<Req("a", Star)>>}, cn \in {<<>>, <<Req("b", Written("=", <<1, 0, 0>>))>>}}

\* Every pair of constraints on one package with versions around the ends.
Many == {V(0, 0, 1), V(0, 0, 2), V(0, 1, 0), V(0, 1, 1), V(0, 2, 0), V(1, 0, 0),
         V(1, 0, 1), V(1, 1, 0), Beta(1, 1, 0), V(2, 0, 0), Beta(2, 0, 0)}
Texts == {Star, [Written("=", <<1, 1, 0>>) EXCEPT !.pre = 1], Written("^", <<1, 0>>), Written(">=", <<1>>)}
         \cup {Written(op, p) : op \in {"^", "~", "x"}, p \in {<<0>>, <<1>>, <<0, 1>>, <<0, 0, 1>>, <<0, 1, 0>>, <<1, 0, 0>>}}
         \cup {Written(op, p) : op \in {">=", "<=", ">", "<", "="}, p \in {<<0, 1, 0>>, <<1, 0, 0>>, <<1, 1, 0>>}}
Pairs ==
    {[root |-> <<Req("a", s), Req("b", Star)>>,
      versions |-> [a |-> Many \ gone, b |-> {Old}, c |-> {}],
      deps |-> [a |-> [v \in Many |-> <<>>], b |-> (Old :> <<Req("a", t)>>), c |-> [v \in {} |-> <<>>]],
      refused |-> {<<"a", Beta(2, 0, 0)>>}] :
        s \in Texts, t \in Texts, gone \in {{}, {V(1, 1, 0), V(0, 1, 1)}}}

Missing ==
    {[root |-> <<Req("a", Star), Req("b", Star)>>,
      versions |-> [a |-> {Old, New}, b |-> {Old}, c |-> {}],
      deps |-> [a |-> (Old :> <<>> @@ New :> <<Req("c", Star)>>), b |-> (Old :> <<Req("a", s)>>), c |-> [v \in {} |-> <<>>]],
      refused |-> {}] : s \in {Star, Written("=", <<1, 0, 0>>)}}

MCUniverses == Graphs3 \cup Pairs \cup Missing
=============================================================================
