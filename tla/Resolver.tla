------------------------------ MODULE Resolver ------------------------------
(***************************************************************************)
(* Dependency resolution of the package manager                            *)
(* (cli/linux/src/pkg/resolver.cpp, Resolver::resolve).                    *)
(*                                                                         *)
(* A queue of dirty names is worked off: for each, the constraints that    *)
(* anyone ever put on it are intersected, the newest version that fits is  *)
(* chosen and, when the choice changed, the dependencies of that version   *)
(* are added as constraints in turn. There is no backtracking, and what a  *)
(* version added stays when another one is chosen in its place.            *)
(***************************************************************************)
EXTENDS Semver, FiniteSets

CONSTANTS
    Pkgs,        \* the names of packages
    Root,        \* "<root>", the project itself
    Universes    \* the registries and manifests a resolution may start from

Request == [name : Pkgs, spec : Text]
Names == Pkgs \cup {Root}

ASSUME RootIsNoPackage == Root \notin Pkgs

\* A registry lists finitely many versions, each with its dependencies.
ASSUME RegistryAssumption ==
    \A u \in Universes :
        /\ u.root \in Seq(Request)
        /\ \A p \in Pkgs : /\ u.versions[p] \subseteq Version /\ IsFiniteSet(u.versions[p])
                           /\ \A v \in u.versions[p] : u.deps[p][v] \in Seq(Request)

VARIABLES
    universe,    \* [root, versions, deps, refused] (never changes)
    reqs,        \* requirementsByName: [Pkgs -> set of [by, spec]]
    edges,       \* who asked for whom: [Names -> Seq(Pkgs)]
    dirty,       \* the names still to be looked at
    resolved,    \* [Pkgs -> version or None]
    asking,      \* [by, left]: whose dependencies are being added, and those not added yet
    stack,       \* the calls of emit, each with the edges it has not followed yet
    order,       \* the order of installation
    outcome      \* "starting", "running", "emitting", "ok", or the error thrown

vars == <<universe, reqs, edges, dirty, resolved, asking, stack, order, outcome>>

None == <<>>
Errors == {"invalid constraint", "not found", "conflict", "refused", "cycle"}

\* Dependencies of the version chosen for a package, as its metadata lists them.
DepsOf(p) == IF resolved[p] = None THEN <<>> ELSE universe.deps[p][resolved[p]]

Init ==
    /\ universe \in Universes
    /\ reqs = [p \in Pkgs |-> {}]
    /\ edges = [n \in Names |-> <<>>]
    /\ dirty = <<>>
    /\ resolved = [p \in Pkgs |-> None]
    /\ asking = [by |-> Root, left |-> <<>>]
    /\ stack = <<>> /\ order = <<>>
    /\ outcome = "starting"

Throw_Swallowed(error) == UNCHANGED vars
Throw(error) ==
    /\ outcome' = error
    /\ UNCHANGED <<universe, reqs, edges, dirty, resolved, asking, stack, order>>

-----------------------------------------------------------------------------
\* addRequirement, for the dependencies of the project and of every version
\* chosen, one after another.

Begin ==
    /\ outcome = "starting"
    /\ outcome' = "running"
    /\ asking' = [by |-> Root, left |-> universe.root]
    /\ UNCHANGED <<universe, reqs, edges, dirty, resolved, stack, order>>

Enqueue_IfNew(queue, name) ==
    IF name \in ToSet(queue) \/ resolved[name] # None THEN queue ELSE Append(queue, name)
Enqueue(queue, name) == IF name \in ToSet(queue) THEN queue ELSE Append(queue, name)

AddRequirement ==
    /\ outcome = "running" /\ asking.left # <<>>
    /\ LET d == Head(asking.left)
       IN  IF ~WellFormed(d.spec)
           THEN Throw("invalid constraint")
           ELSE /\ reqs' = [reqs EXCEPT ![d.name] = @ \cup {[by |-> asking.by, spec |-> d.spec]}]
                /\ edges' = [edges EXCEPT ![asking.by] = Append(@, d.name)]
                /\ dirty' = Enqueue(dirty, d.name)
                /\ asking' = [asking EXCEPT !.left = Tail(@)]
                /\ UNCHANGED <<universe, resolved, stack, order, outcome>>

-----------------------------------------------------------------------------
\* One turn of the loop.

RaisesMin(range, c) ==
    c.min # NoEnd /\ (range.min = NoEnd \/ Older(range.min, c.min) \/ (c.min = range.min /\ range.minIn /\ ~c.minIn))
LowersMax_Strict(range, c) ==
    c.max # NoEnd /\ (range.max = NoEnd \/ Older(c.max, range.max))
LowersMax(range, c) ==
    c.max # NoEnd /\ (range.max = NoEnd \/ Older(c.max, range.max) \/ (c.max = range.max /\ range.maxIn /\ ~c.maxIn))

\* The intersection of all the constraints: each end from one that no other
\* one tightens.
Lowest(cs) == CHOOSE c \in cs : \A d \in cs : ~RaisesMin(c, d)
Highest(cs) == CHOOSE c \in cs : \A d \in cs : ~LowersMax(c, d)
Intersection(cs) ==
    [min |-> Lowest(cs).min, minIn |-> Lowest(cs).minIn,
     max |-> Highest(cs).max, maxIn |-> Highest(cs).maxIn]
Constraints(p) == {AnyVersion} \cup {Parse(r.spec) : r \in reqs[p]}

\* An empty range and a range with no version in it are told apart only by
\* the wording of the error.
Fitting(range, available) == {v \in available : Matches(range, v)}
Newest(vs) == CHOOSE v \in vs : \A w \in vs : NotNewer(w, v)

Choose(name, version) ==
    IF version = resolved[name]
    THEN /\ dirty' = Tail(dirty)
         /\ UNCHANGED <<universe, reqs, edges, resolved, asking, stack, order, outcome>>
    ELSE IF <<name, version>> \in universe.refused THEN Throw("refused")
    ELSE /\ dirty' = Tail(dirty)
         /\ resolved' = [resolved EXCEPT ![name] = version]
         /\ asking' = [by |-> name, left |-> universe.deps[name][version]]
         /\ UNCHANGED <<universe, reqs, edges, stack, order, outcome>>

Pick(name, range) ==
    \E fitting \in {Fitting(range, universe.versions[name])} :
        IF fitting = {} THEN Throw("conflict") ELSE Choose(name, Newest(fitting))

Look ==
    /\ outcome = "running" /\ asking.left = <<>> /\ dirty # <<>>
    /\ IF universe.versions[Head(dirty)] = {}
       THEN Throw("not found")
       ELSE \E range \in {Intersection(Constraints(Head(dirty)))} : Pick(Head(dirty), range)

-----------------------------------------------------------------------------
\* The queue is empty: look for a cycle, then list dependencies first.

Closed(graph, ns) == \A n \in ns : ToSet(graph[n]) \subseteq ns
Reached(graph, from) ==
    {n \in Names : \A ns \in SUBSET Names : from \subseteq ns /\ Closed(graph, ns) => n \in ns}

Circular == \E n \in Reached(edges, {Root}) \ {Root} : n \in Reached(edges, ToSet(edges[n]))

Call(n) == [node |-> n, left |-> edges[n]]

Finish ==
    /\ outcome = "running" /\ asking.left = <<>> /\ dirty = <<>>
    /\ IF Circular
       THEN Throw("cycle")
       ELSE /\ outcome' = "emitting"
            /\ stack' = <<Call(Root)>>
            /\ UNCHANGED <<universe, reqs, edges, dirty, resolved, asking, order>>

\* A name counts as emitted from the moment its call begins.
Emitted == ToSet(order) \cup {stack[k].node : k \in DOMAIN stack}

EmitNext ==
    /\ outcome = "emitting" /\ Last(stack).left # <<>>
    /\ LET next == Head(Last(stack).left)
           rest == [stack EXCEPT ![Len(stack)].left = Tail(@)]
       IN  stack' = IF next \in Emitted THEN rest ELSE Append(rest, Call(next))
    /\ UNCHANGED <<universe, reqs, edges, dirty, resolved, asking, order, outcome>>

EmitReturn ==
    /\ outcome = "emitting" /\ Last(stack).left = <<>>
    /\ stack' = Front(stack)
    /\ order' = IF Last(stack).node = Root THEN order ELSE Append(order, Last(stack).node)
    /\ outcome' = IF Len(stack) = 1 THEN "ok" ELSE "emitting"
    /\ UNCHANGED <<universe, reqs, edges, dirty, resolved, asking>>

Next == Begin \/ AddRequirement \/ Look \/ Finish \/ EmitNext \/ EmitReturn

Spec == Init /\ [][Next]_vars
\* The resolution is a loop of one thread: it takes its next turn.
FairSpec == Spec /\ WF_vars(Next)

-----------------------------------------------------------------------------
\* Properties.

\* Names queue once, versions are ones the registry has, and a name that is
\* in nobody's requirements has no version (resolver.cpp:94-103, 146-147).
TypeOK ==
    /\ outcome \in {"starting", "running", "emitting", "ok"} \cup Errors
    /\ reqs \in [Pkgs -> SUBSET [by : Names, spec : Text]]
    /\ edges \in [Names -> Seq(Pkgs)]
    /\ dirty \in Seq(Pkgs) /\ IsInjective(dirty)
    /\ asking \in [by : Names, left : Seq(Request)]
    /\ stack \in Seq([node : Names, left : Seq(Pkgs)]) /\ order \in Seq(Pkgs)
    /\ \A p \in Pkgs : /\ resolved[p] \in universe.versions[p] \cup {None}
                       /\ resolved[p] # None => reqs[p] # {}
                       /\ \A r \in reqs[p] : WellFormed(r.spec) /\ p \in ToSet(edges[r.by])

\* What is resolved can be installed: the constraints of the project and of
\* every package in the order hold for the versions chosen, and a package
\* comes after everything it depends on (resolver.cpp:209-230).
Sound ==
    outcome = "ok" =>
        /\ \A i \in DOMAIN universe.root :
              /\ universe.root[i].name \in ToSet(order)
              /\ Matches(Parse(universe.root[i].spec), resolved[universe.root[i].name])
        /\ \A k \in DOMAIN order : \A i \in DOMAIN DepsOf(order[k]) :
              \E j \in 1 .. k - 1 :
                  /\ order[j] = DepsOf(order[k])[i].name
                  /\ Matches(Parse(DepsOf(order[k])[i].spec), resolved[order[j]])

\* A name that is not waiting has the newest version that every constraint
\* put on it so far accepts, one at a time, by the matches of semver.cpp and
\* not by the intersection the resolver keeps (resolver.cpp:33-70).
Accepted(p) == {v \in universe.versions[p] : \A r \in reqs[p] : Matches(Parse(r.spec), v)}
NewestOfAccepted ==
    outcome \in {"running", "emitting", "ok"} =>
        \A p \in Pkgs : resolved[p] # None /\ p \notin ToSet(dirty) =>
            /\ resolved[p] \in Accepted(p)
            /\ \A v \in Accepted(p) : NotNewer(v, resolved[p])

\* A caret never lets in a release that changes the leftmost number of the
\* constraint that is not zero (semver.cpp:138-158).
Leading(v) == IF v[1] > 0 THEN 1 ELSE IF v[2] > 0 THEN 2 ELSE 3
CaretKeepsLeading ==
    outcome = "ok" =>
        \A p \in Pkgs : \A r \in reqs[p] : r.spec.op = "^" /\ resolved[p][4] = 0 =>
            LET base == Padded(r.spec.parts)
            IN  \A i \in 1 .. Leading(base) : resolved[p][i] = base[i]

\* Every resolution ends, though it may come back to a name many times, in a list or in an error (resolver.cpp:108-182).
Ends == <>(outcome \in {"ok"} \cup Errors)

\* resolver.cpp:87 calls edges the actual structure of dependencies after
\* the resolution: who asks for whom, for the versions chosen. The edges of
\* a version that was given up stay in it.
EdgesAreActual ==
    outcome \in {"ok", "cycle"} =>
        \A p \in Pkgs : ToSet(edges[p]) = {DepsOf(p)[i].name : i \in DOMAIN DepsOf(p)}
=============================================================================
