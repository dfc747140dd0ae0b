------------------------------ MODULE LiveVars ------------------------------
(***************************************************************************)
(* Living variables of the interpreter (rin_interpreter.cpp): variables    *)
(* with a range (gauge), a history (tape), a limited number of reads       *)
(* (fuse), a rule (accept), a transition contract (pre, post), a base      *)
(* line, bells that run a statement on change, `lens` and `val` variables  *)
(* that are computed from others, and `trial` blocks that roll back.       *)
(*                                                                         *)
(* One action is one statement of a program.  A statement calls deep into  *)
(* the interpreter (a write fires bells, a bell writes, a write recomputes *)
(* every val that reads it), so each function of the code is an operator   *)
(* from one working state to the next; an exception is the field ok.       *)
(***************************************************************************)
EXTENDS Integers, Sequences, SequencesExt, TLC

CONSTANTS
    Programs,    \* the programs: their declarations, their statements, the depth of their trials
    Rhs,         \* right-hand sides a program may assign
    Handlers,    \* statements `target = expr` a bell may run
    BellLimit,   \* nesting of bells, 16 in the code
    ValLimit,    \* nesting of propagations, 64 in the code
    MaxJournal,  \* bound on the entries of all open journals
    MaxBells,    \* bound on the bells of a variable
    MaxValue     \* bound on what inc reaches

Nil == -1

VARIABLES
    prog,    \* the program that runs; it never changes
    val,     \* the value of each variable
    meta,    \* LiveMeta of each variable, with what its declaration fixed
    trials,  \* trialStack_: one journal for each open trial
    failed,  \* an exception is on its way up
    runs,    \* how often the statement computed each val
    saved,   \* history: val and the tapes when each open trial began
    torn     \* history: an exception has cut a statement short

vars == <<prog, val, meta, trials, failed, runs, saved, torn>>
Names == DOMAIN val
AllNames == UNION {{p.decls[i].name : i \in DOMAIN p.decls} : p \in Programs}

\* The statements of the program that runs are pairs of a form and a variable.
May(form, n) == <<form, n>> \in prog.stmts

(***************************************************************************)
(* Working state.                                                          *)
(***************************************************************************)
NoTracker == [on |-> FALSE, reads |-> <<>>]
NoBinding == [x \in {} |-> Nil]
Work == [val |-> val, m |-> meta, jr |-> trials, ok |-> TRUE, trk |-> NoTracker,
         busy |-> {}, bells |-> 0, vals |-> 0, runs |-> [n \in Names |-> 0]]

Ret(s, v) == [s |-> s, v |-> v]
Fail(s) == [s EXCEPT !.ok = FALSE]
Truthy(v) == v \notin {Nil, 0}
Track(s, n) == IF s.trk.on THEN [s EXCEPT !.trk.reads = Append(@, n)] ELSE s
Drop(list, n) == SelectSeq(list, LAMBDA x : x # n)

\* Evaluating and assigning call each other through everything below: a read may recompute, a
\* write may ring, a bell may write.  Both go through Call, the one recursive operator.
RECURSIVE Call(_, _)
Eval(s, b, e) == Call(s, [fn |-> "evaluate", b |-> b, e |-> e])
LiveAssign(s, n, v) == Call(s, [fn |-> "liveAssign", n |-> n, v |-> v])

(***************************************************************************)
(* Ranges, rules and contracts.                                            *)
(***************************************************************************)
InRange(m, v) == m.lo <= v /\ v <= m.hi
ApplyRange(s, n, v) ==
    LET d == s.m[n] IN
    CASE d.mode = "none"                       -> Ret(s, v)
      [] v = Nil                               -> Ret(Fail(s), v)
      [] d.mode = "strict" /\ ~InRange(d, v)   -> Ret(Fail(s), v)
      [] d.mode = "wrap"                       -> Ret(s, d.lo + ((v - d.lo) % (d.hi - d.lo)))
      [] OTHER -> Ret(s, IF v < d.lo THEN d.lo ELSE IF v > d.hi THEN d.hi ELSE v)

\* The rule of accept sees the candidate under the name of the variable.
Test(s, n, v) == Eval(s, n :> v, s.m[n].rule)
Taken(s, v) == [s |-> s, v |-> v, take |-> TRUE]
Kept(s, v) == [s |-> s, v |-> v, take |-> FALSE]

\* fb is the value of `else`, t the rule's answer about it.
Substitute_Unasked(fb, t) == Taken(fb.s, fb.v)
Substitute(fb, t) == IF t.s.ok /\ Truthy(t.v) THEN Taken(t.s, fb.v) ELSE Kept(Fail(t.s), fb.v)
SubstituteFor(n, fb) == Substitute(fb, Test(fb.s, n, fb.v))

Judged(n, v, initial, t) ==
    LET rejected == [t.s EXCEPT !.m[n].ok = FALSE] IN
    CASE ~t.s.ok                   -> Kept(t.s, v)
      [] t.s.ok /\ Truthy(t.v)     -> Taken([t.s EXCEPT !.m[n].ok = TRUE], v)
      [] t.s.ok /\ ~Truthy(t.v) /\ t.s.m[n].fallback.op # "none" ->
             SubstituteFor(n, Eval(rejected, n :> v, t.s.m[n].fallback))
      [] OTHER -> Kept(IF t.s.m[n].strict \/ initial THEN Fail(rejected) ELSE rejected, v)
CheckAccept(s, n, v, initial) == Judged(n, v, initial, Test(s, n, v))

GateEnv(n, old, new, post) == (n :> IF post THEN new ELSE old) @@ ("old" :> old) @@ ("new" :> new)
GateEval(s, n, rule, old, new, post) ==
    IF rule.op = "none" THEN Ret(s, 1) ELSE Eval(s, GateEnv(n, old, new, post), rule)

GateRefuse(s, n) ==
    IF s.m[n].strict THEN Fail([s EXCEPT !.m[n].ok = FALSE]) ELSE [s EXCEPT !.m[n].ok = FALSE]

\* pre sees the old value in place, post the new one; then the old one is put back.
PassesPre(s, n, old, v) == GateEval(s, n, s.m[n].pre, old, v, FALSE)
PutOld(n, old, r) == Ret([r.s EXCEPT !.val[n] = old], r.v)
PassesPost(s, n, old, v) ==
    PutOld(n, old, GateEval([s EXCEPT !.val[n] = v], n, s.m[n].post, old, v, TRUE))

Answered(n, r) ==
    CASE ~r.s.ok -> Kept(r.s, Nil)
      [] r.s.ok /\ Truthy(r.v) -> Taken([r.s EXCEPT !.m[n].ok = TRUE], Nil)
      [] OTHER -> Kept(GateRefuse(r.s, n), Nil)
GatePost(n, old, v, pre) ==
    IF pre.s.ok /\ Truthy(pre.v) THEN Answered(n, PassesPost(pre.s, n, old, v)) ELSE Answered(n, pre)
Gate(s, n, old, v) ==
    IF s.m[n].kind # "gate" THEN Taken(s, v) ELSE GatePost(n, old, v, PassesPre(s, n, old, v))

(***************************************************************************)
(* Journal and bells.                                                      *)
(***************************************************************************)
Entry(s, n) == [n |-> n, old |-> s.val[n], snap |-> s.m[n]]
Journal(s, n) ==
    IF s.jr = <<>> THEN s
    ELSE [s EXCEPT !.jr[Len(s.jr)] = Append(@, Entry(s, n))]

FireBell(s, h, r) == IF s.ok THEN LiveAssign(r.s, h.target, r.v) ELSE s
FireBells(s, n) ==
    FoldLeft(LAMBDA w, h : FireBell(w, h, Eval(w, NoBinding, h.expr)), s, s.m[n].bells)

Ring(s, n) ==
    IF s.m[n].bells = <<>> THEN s
    ELSE IF s.bells + 1 > BellLimit THEN Fail(s)
    ELSE [FireBells([s EXCEPT !.bells = @ + 1], n) EXCEPT !.bells = s.bells]

(***************************************************************************)
(* Values that compute themselves.                                         *)
(***************************************************************************)
Unsubscribe(s, n) ==
    [s EXCEPT !.m = [x \in DOMAIN s.m |->
        IF x \in ToSet(s.m[n].deps) THEN [s.m[x] EXCEPT !.dependents = Drop(@, n)] ELSE s.m[x]],
              !.m[n].deps = <<>>]

Subscribe(s, n, d) ==
    IF d = n \/ Contains(s.m[n].deps, d) THEN s
    ELSE [s EXCEPT !.m[d].live = TRUE,
                   !.m[d].dependents = Append(@, n),
                   !.m[n].deps = Append(@, d)]
Resubscribe_KeepsOld(s, n, reads) == FoldLeft(LAMBDA w, d : Subscribe(w, n, d), s, reads)
Resubscribe(s, n, reads) ==
    FoldLeft(LAMBDA w, d : Subscribe(w, n, d), Unsubscribe(s, n), reads)

\* valCompute: got is FALSE when the `when` condition holds the value back.
Untracked(s, before) == [s EXCEPT !.trk = before.trk, !.busy = before.busy]
Computed(before, n, hold, r) ==
    IF ~r.s.ok THEN [s |-> Untracked(r.s, before), v |-> Nil, got |-> FALSE]
    ELSE [s |-> [Resubscribe(Untracked(r.s, before), n, r.s.trk.reads)
                     EXCEPT !.m[n].held = hold, !.runs[n] = @ + 1],
          v |-> r.v, got |-> ~hold]
Computing(before, n, c) ==
    IF Truthy(c.v) THEN Computed(before, n, FALSE, Eval(c.s, NoBinding, c.s.m[n].expr))
    ELSE Computed(before, n, TRUE, c)
When(s, n) == IF s.m[n].when.op = "none" THEN Ret(s, 1) ELSE Eval(s, NoBinding, s.m[n].when)
Compute(s, n) ==
    IF n \in s.busy THEN [s |-> Fail(s), v |-> Nil, got |-> FALSE]
    ELSE Computing(s, n, When([s EXCEPT !.trk = [on |-> TRUE, reads |-> <<>>],
                                        !.busy = @ \cup {n}], n))

\* valApply, from the range (r) on.
Applied(n, r) ==
    IF ~r.s.ok \/ r.s.val[n] = r.v THEN [s |-> r.s, changed |-> FALSE]
    ELSE [s |-> Ring([Journal(r.s, n) EXCEPT !.val[n] = r.v], n), changed |-> TRUE]
Apply(s, n, nv) == Applied(n, ApplyRange(s, n, nv))
ApplyGot(c, n) == IF c.s.ok /\ c.got THEN Apply(c.s, n, c.v) ELSE [s |-> c.s, changed |-> FALSE]

Mirror(n, busy, r) ==
    Ret(IF r.s.ok THEN [r.s EXCEPT !.val[n] = r.v, !.busy = busy] ELSE [r.s EXCEPT !.busy = busy], r.v)
ReadLens(s, n) ==
    IF n \in s.busy THEN Ret(Fail(s), Nil)
    ELSE Mirror(n, s.busy, Eval([s EXCEPT !.busy = @ \cup {n}], NoBinding, s.m[n].expr))

Held(s, n) == Ret(s, s.val[n])
ReadVal(s, n) ==
    IF n \in s.busy THEN Ret(Fail(s), Nil)
    ELSE Held(IF s.m[n].stale THEN ApplyGot(Compute([s EXCEPT !.m[n].stale = FALSE], n), n).s
              ELSE s, n)

ReadFuse(s, n) ==
    IF s.m[n].left = 0 THEN Ret(s, Nil)
    ELSE Ret([s EXCEPT !.m[n].left = @ - 1,
                       !.val[n] = IF s.m[n].left = 1 THEN Nil ELSE @], s.val[n])

Read(s, n) ==
    CASE s.m[n].kind = "lens"            -> ReadLens(s, n)
      [] s.m[n].reactive               -> ReadVal(s, n)
      [] s.m[n].kind = "fuse"            -> ReadFuse(s, n)
      [] OTHER                         -> Ret(s, s.val[n])

Binary(op, l, r) == IF op = "add" THEN l + r ELSE IF l < r THEN 1 ELSE 0
Joined(op, l, r) == IF ~r.s.ok \/ Nil \in {l, r.v} THEN Ret(Fail(r.s), Nil)
                    ELSE Ret(r.s, Binary(op, l, r.v))
Right(b, e, l) == Joined(e.op, l.v, Eval(l.s, b, e.r))
Branch(b, e, c) == Eval(c.s, b, IF Truthy(c.v) THEN e.t ELSE e.e)
Evaluate(s, b, e) ==
    CASE ~s.ok -> Ret(s, Nil)
      [] s.ok /\ e.op = "lit" -> Ret(s, e.v)
      [] s.ok /\ e.op = "var" ->
             IF e.n \in DOMAIN b THEN Ret(s, b[e.n]) ELSE Read(Track(s, e.n), e.n)
      [] s.ok /\ e.op = "if"  -> Branch(b, e, Eval(s, b, e.c))
      [] OTHER -> Right(b, e, Eval(s, b, e.l))

Skipped_Plain(s, a, d) == ~s.m[d].reactive
Skipped(s, a, d) == ~s.m[d].reactive \/ d \in a.seen
RECURSIVE Visit(_, _, _)
Visit(s, n, acc) ==
    LET step(a, d) ==
            IF Skipped(s, a, d) THEN a
            ELSE LET b == Visit(s, d, [a EXCEPT !.seen = @ \cup {d}])
                 IN  [b EXCEPT !.post = Append(@, d)]
    IN  FoldLeft(step, acc, s.m[n].dependents)

Affected(s, n, changed) == \E d \in ToSet(s.m[n].deps) : d \in changed
Mark(acc, n) == [s |-> [acc.s EXCEPT !.m[n].stale = TRUE], changed |-> acc.changed \cup {n}]
Grow(acc, n, a) == [s |-> a.s, changed |-> IF a.changed THEN acc.changed \cup {n} ELSE acc.changed]
Refresh(acc, n) ==
    IF ~acc.s.ok \/ ~acc.s.m[n].reactive \/ ~Affected(acc.s, n, acc.changed) THEN acc
    ELSE IF acc.s.m[n].lazy THEN Mark(acc, n)
    ELSE Grow(acc, n, ApplyGot(Compute(acc.s, n), n))

Order_PostOrder(post) == post
Order(post) == Reverse(post)
Reached(s, n) == Order(Visit(s, n, [seen |-> {}, post |-> <<>>]).post)
Propagate(s, n) ==
    IF s.m[n].dependents = <<>> THEN s
    ELSE IF s.vals + 1 > ValLimit THEN Fail(s)
    ELSE [FoldLeft(Refresh, [s |-> [s EXCEPT !.vals = @ + 1], changed |-> {n}], Reached(s, n)).s
              EXCEPT !.vals = s.vals]

(***************************************************************************)
(* Assignment.                                                             *)
(***************************************************************************)
Writable(s, n) == ~s.m[n].frozen /\ ~s.m[n].reactive /\ s.m[n].kind # "lens"
Taped(m) == m.keep > 0
LastOf(k, list) == IF Len(list) > k THEN Tail(list) ELSE list

Remember(s, n, old, v) ==
    CASE Taped(s.m[n]) /\ old # v -> [s EXCEPT !.m[n].past = LastOf(s.m[n].keep, Append(@, old)),
                                         !.m[n].future = <<>>]
      [] s.m[n].kind = "fuse" -> [s EXCEPT !.m[n].armed = v, !.m[n].left = s.m[n].burns]
      [] OTHER              -> s

\* Bells first, then the vals that read n.
PropagateUnless(s, n) == IF s.ok THEN Propagate(s, n) ELSE s
Changed(s, n) == PropagateUnless(Ring(s, n), n)
Store(n, old, v, g) ==
    IF ~g.take THEN g.s
    ELSE IF old = v THEN Remember(g.s, n, old, v)
    ELSE Changed([Remember(g.s, n, old, v) EXCEPT !.val[n] = v], n)
Write(s, n, v) == Store(n, s.val[n], v, Gate(Journal(s, n), n, s.val[n], v))
WriteTaken(n, a) == IF a.take THEN Write(a.s, n, a.v) ELSE a.s

AssignLive(s, n, v) ==
    IF ~s.ok THEN s
    ELSE IF ~Writable(s, n) THEN Fail(s)
    ELSE IF s.m[n].kind = "accept" THEN WriteTaken(n, CheckAccept(Journal(s, n), n, v, FALSE))
    ELSE LET r == ApplyRange(s, n, v) IN IF r.s.ok THEN Write(r.s, n, r.v) ELSE r.s

Call(s, c) == IF c.fn = "evaluate" THEN Evaluate(s, c.b, c.e) ELSE AssignLive(s, c.n, c.v)

(***************************************************************************)
(* The program: its declarations, then any statements.                     *)
(***************************************************************************)
NewMeta(d, v) == d @@
    [frozen |-> d.kind = "stone", reactive |-> d.kind = "val", live |-> d.kind # "plain",
     stale |-> d.kind = "val" /\ d.lazy, held |-> FALSE, ok |-> TRUE, past |-> <<>>,
     future |-> <<>>, left |-> d.burns, armed |-> v, base |-> v, bells |-> <<>>,
     deps |-> <<>>, dependents |-> <<>>]

FirstValue(d, e) ==
    LET a == CheckAccept(e.s, d.name, e.v, TRUE)
        p == PassesPost(e.s, d.name, e.v, e.v)
    IN  CASE d.kind = "gauge"  -> ApplyRange(e.s, d.name, e.v)
          [] d.kind = "accept" -> Ret(IF a.take THEN a.s ELSE Fail(a.s), a.v)
          [] d.kind = "gate"   -> Ret(IF Truthy(p.v) THEN p.s ELSE Fail(p.s), e.v)
          [] OTHER             -> e
Define(d, f) == [f.s EXCEPT !.val[d.name] = f.v, !.m[d.name] = NewMeta(d, f.v)]
FirstRun(n, c) ==
    IF ~c.got THEN c.s
    ELSE LET r == ApplyRange(c.s, n, c.v) IN [r.s EXCEPT !.val[n] = r.v]

DeclareVal(s, d) == IF d.lazy THEN s ELSE FirstRun(d.name, Compute(s, d.name))
Declare(s, d) ==
    IF ~s.ok THEN s
    ELSE IF d.kind \in {"val", "lens"} THEN
        IF d.kind = "val" THEN DeclareVal(Define(d, Ret(s, Nil)), d) ELSE Define(d, Ret(s, Nil))
    ELSE Define(d, FirstValue(d, Eval(s, NoBinding, d.expr)))

\* Before its declarations run, a program has its names and nothing in them.
Blank(p) ==
    LET d(n) == p[CHOOSE i \in DOMAIN p : p[i].name = n]
        ns   == {p[i].name : i \in DOMAIN p}
    IN  [val |-> [n \in ns |-> Nil], m |-> [n \in ns |-> NewMeta(d(n), Nil)],
         jr |-> <<>>, ok |-> TRUE, trk |-> NoTracker, busy |-> {}, bells |-> 0, vals |-> 0,
         runs |-> [n \in ns |-> 0]]

Init == \E p \in Programs : LET s == FoldLeft(Declare, Blank(p.decls), p.decls) IN
    /\ s.ok /\ prog = p
    /\ val = s.val /\ meta = s.m /\ trials = <<>>
    /\ failed = FALSE /\ runs = [n \in DOMAIN s.val |-> 0] /\ saved = <<>> /\ torn = FALSE

Room == ~failed /\ Len(FlattenSeq(trials)) < MaxJournal

\* A statement ends in s: its writes stay even when it ends with an exception.
Statement(s) ==
    /\ Room
    /\ val' = s.val /\ meta' = s.m /\ trials' = s.jr /\ runs' = s.runs
    /\ failed' = ~s.ok
    /\ torn' = (torn \/ (~s.ok /\ <<s.val, s.m>> # <<val, meta>>))
    /\ UNCHANGED <<prog, saved>>

AssignAll(n, r) == Statement(LiveAssign(r.s, n, r.v))
Assign(n, e) == May("assign", n) /\ AssignAll(n, Eval(Work, NoBinding, e))

Show(n) == May("show", n) /\ Statement(Read(Work, n).s)

BumpBy(n, d) ==
    /\ val[n] # Nil => val[n] + d \in 0 .. MaxValue
    /\ Statement(IF val[n] = Nil THEN Fail(Work) ELSE LiveAssign(Work, n, val[n] + d))
Bump(n, k) ==
    May("inc", n) /\ BumpBy(n, IF meta[n].kind = "base" THEN k * meta[n].step ELSE k)

Rebase(n) == May("base", n) /\ Statement([Work EXCEPT !.m[n].base = val[n]])
Rewind(n) == May("base", n) /\ Statement(LiveAssign(Work, n, meta[n].base))

\* One step of undo or redo: h is [cur, from, to], moved up to k times.
RECURSIVE Shift(_, _, _)
Shift(h, keep, k) ==
    IF k = 0 \/ h.from = <<>> THEN h
    ELSE Shift([cur |-> Last(h.from), from |-> Front(h.from),
                to |-> LastOf(keep, Append(h.to, h.cur))], keep, k - 1)
Undone_NoRedo(h, keep, k) == [Shift(h, keep, k) EXCEPT !.to = <<>>]
Undone(h, keep, k) == Shift(h, keep, k)
Redone(h, keep, k) == Shift(h, keep, k)

Moved(s, n, cur) ==
    IF cur = s.val[n] THEN s ELSE Changed([s EXCEPT !.val[n] = cur], n)
Journaled(n) == Journal(Work, n)

UndoTo(n, h) == Statement(Moved([Journaled(n) EXCEPT !.m[n].past = h.from, !.m[n].future = h.to], n, h.cur))
Undo(n) == May("undo", n) /\ meta[n].past # <<>> /\ \E k \in 1 .. meta[n].keep :
    UndoTo(n, Undone([cur |-> val[n], from |-> meta[n].past, to |-> meta[n].future],
              meta[n].keep, k))

RedoTo(n, h) == Statement(Moved([Journaled(n) EXCEPT !.m[n].future = h.from, !.m[n].past = h.to], n, h.cur))
Redo(n) == May("undo", n) /\ meta[n].future # <<>> /\ \E k \in 1 .. meta[n].keep :
    RedoTo(n, Redone([cur |-> val[n], from |-> meta[n].future, to |-> meta[n].past],
              meta[n].keep, k))

Rearm(n) == /\ May("rearm", n)
            /\ Statement([Journal(Work, n) EXCEPT !.m[n].left = meta[n].burns,
                                                  !.val[n] = meta[n].armed])

TouchAfter(n, a) == Statement(IF a.s.ok /\ a.changed THEN Propagate(a.s, n) ELSE a.s)
Touch(n) ==
    /\ May("touch", n) /\ meta[n].reactive
    /\ TouchAfter(n, ApplyGot(Compute([Work EXCEPT !.m[n].stale = FALSE], n), n))

Plainly(s, n) == [Unsubscribe(s, n) EXCEPT !.m[n].reactive = FALSE, !.m[n].stale = FALSE,
                                           !.m[n].held = FALSE]
\* A stale lazy val is computed a last time.
LastRun(n, c) ==
    IF ~c.s.ok THEN c.s ELSE Plainly(IF c.got THEN [c.s EXCEPT !.val[n] = c.v] ELSE c.s, n)
Unval(n) ==
    /\ May("unval", n) /\ meta[n].reactive
    /\ Statement(IF meta[n].stale
                 THEN LastRun(n, Compute([Unsubscribe(Journaled(n), n) EXCEPT !.m[n].stale = FALSE], n))
                 ELSE Plainly(Journaled(n), n))

Ban(n) == /\ May("ban", n) /\ meta[n].kind # "lens" /\ ~meta[n].frozen
          /\ Statement([Work EXCEPT !.m[n].frozen = TRUE, !.m[n].live = TRUE])

AddBell(n, h) ==
    /\ May("bell", n) /\ h.target \in Names /\ Len(meta[n].bells) < MaxBells
    /\ Statement([Work EXCEPT !.m[n].live = TRUE, !.m[n].bells = Append(@, h)])

Unbell(n) == May("bell", n) /\ meta[n].bells # <<>> /\ Statement([Work EXCEPT !.m[n].bells = <<>>])

(***************************************************************************)
(* trial: the writes of the block are undone when it fails or aborts.      *)
(***************************************************************************)
Snapshot == [val |-> val, torn |-> torn,
             tape |-> [n \in Names |-> <<meta[n].past, meta[n].future>>]]

BeginTrial ==
    /\ ~failed /\ Len(trials) < prog.depth
    /\ trials' = Append(trials, <<>>) /\ saved' = Append(saved, Snapshot)
    /\ UNCHANGED <<prog, val, meta, failed, runs, torn>>

Inherited(ts) ==
    LET up == Front(ts) IN
    IF up = <<>> THEN up ELSE [up EXCEPT ![Len(up)] = @ \o Last(ts)]

CommitTrial ==
    /\ ~failed /\ trials # <<>>
    /\ trials' = Inherited(trials) /\ saved' = Front(saved)
    /\ UNCHANGED <<prog, val, meta, failed, runs, torn>>

PutBack(e, s) ==
    [s EXCEPT !.val[e.n] = e.old,
              !.m[e.n] = IF e.snap.live THEN e.snap ELSE @]
Undoing_Forwards(j, s) == FoldLeft(LAMBDA w, e : PutBack(e, w), s, j)
Undoing(j, s) == FoldRight(PutBack, j, s)

Resync(s, n) == IF s.m[n].reactive THEN Resubscribe(s, n, s.m[n].deps) ELSE s

RolledBack ==
    FoldLeft(LAMBDA w, e : Resync(w, e.n), Undoing(Last(trials), Work),
             SelectSeq(Reverse(Last(trials)), LAMBDA e : e.snap.live /\ e.snap.reactive))

Rollback(stillFailed) ==
    /\ trials # <<>>
    /\ LET s == RolledBack IN val' = s.val /\ meta' = s.m
    /\ trials' = Front(trials) /\ saved' = Front(saved)
    /\ failed' = stillFailed /\ torn' = Last(saved).torn
    /\ runs' = [n \in Names |-> 0]
    /\ UNCHANGED prog

Abort == ~failed /\ Rollback(FALSE)
TrialFails == failed /\ \E rethrown \in BOOLEAN : Rollback(rethrown)

\* A try of the program catches the exception before it reaches a trial.
Catch == failed /\ failed' = FALSE /\ UNCHANGED <<prog, val, meta, trials, runs, saved, torn>>

Next ==
    \/ \E n \in AllNames :
          \/ \E e \in Rhs : Assign(n, e)
          \/ \E k \in {-1, 1} : Bump(n, k)
          \/ \E h \in Handlers : AddBell(n, h)
          \/ Undo(n) \/ Redo(n) \/ Unbell(n) \/ Show(n) \/ Rebase(n) \/ Rewind(n)
          \/ Rearm(n) \/ Touch(n) \/ Unval(n) \/ Ban(n)
    \/ BeginTrial \/ CommitTrial \/ Abort \/ TrialFails \/ Catch

Spec == Init /\ [][Next]_vars

(***************************************************************************)
(* Properties.                                                             *)
(***************************************************************************)
\* Values stay small numbers or nil, histories within their cap, and no journal outlives its trial.
TypeOK ==
    /\ \A n \in Names : val[n] \in Int /\ meta[n].deps \in Seq(Names) /\ meta[n].dependents \in Seq(Names)
    /\ \A n \in Names : meta[n].left \in 0 .. meta[n].burns /\ Len(meta[n].past) <= meta[n].keep
    /\ Len(saved) = Len(trials) /\ Len(trials) <= prog.depth
    /\ failed \in BOOLEAN /\ torn \in BOOLEAN

\* What the expression of n yields now, its range applied; got is FALSE while `when` holds it.
Ranged(n, c) == LET r == ApplyRange(c.s, n, c.v) IN [ok |-> r.s.ok, got |-> c.got, v |-> r.v]
Now(n) == Ranged(n, Compute(Work, n))
Agrees(n, now) == (now.ok /\ now.got) => val[n] = now.v

\* Whatever was written, by a statement, a bell, an undo or a rollback, a val that is not marked
\* stale holds what its expression yields (valPropagate refreshes in dependency order).  It fails
\* for vals that change what they read, alone or in a trial, and after a trial that read a lazy
\* val which was stale when it began: Dynamic, RolledReads and Rolled of MCLiveVars.
ValsFresh ==
    (~failed /\ ~torn) =>
        \A n \in Names : (meta[n].reactive /\ ~meta[n].stale) => Agrees(n, Now(n))

\* deps of a val and dependents of what it reads are the two ends of one relation, each edge once,
\* through recomputation, unval and rollback (valResubscribe, liveResyncVals).
SubscriptionsMatch ==
    \A n, d \in Names :
        LET ends == SelectSeq(meta[d].dependents, LAMBDA x : x = n)
            deps == SelectSeq(meta[n].deps, LAMBDA x : x = d)
        IN  Len(ends) = Len(deps) /\ Len(ends) <= 1

\* One change recomputes a val at most once, however many paths lead to it, while no bell writes.
OncePerChange ==
    (\A n \in Names : meta[n].bells = <<>>) => \A n \in Names : runs[n] <= 1

\* A gauge never leaves its range, an accept variable never breaks its rule and a variable with a
\* `post` contract on the value alone never breaks that, through undo, inc, fallbacks, bells on a
\* guarded variable and into one, and rollback.
RulesHold ==
    \A n \in Names : LET d == meta[n] IN
        /\ d.kind = "gauge" => InRange(d, val[n])
        /\ d.kind = "accept" => Truthy(Eval(Work, n :> val[n], d.rule).v)
        /\ d.kind = "gate" => Truthy(PassesPost(Work, n, val[n], val[n]).v)

\* undo and redo share one cap and lose nothing: after k steps back, k steps forward restore the
\* value and both histories.
UndoRedoInverse ==
    \A n \in Names : Taped(meta[n]) =>
        \A k \in 1 .. Len(meta[n].past) :
            LET h == Undone([cur |-> val[n], from |-> meta[n].past, to |-> meta[n].future],
                            meta[n].keep, k)
                r == Redone([cur |-> h.cur, from |-> h.to, to |-> h.from], meta[n].keep, k)
            IN  r = [cur |-> val[n], from |-> meta[n].future, to |-> meta[n].past]

\* A trial that aborts or fails restores every value and every tape to what they were when it
\* began, the writes of bells, of propagation and of committed inner trials included.  A read
\* burns a fuse and refreshes a lens without a journal entry, so those are left out.
RollbackRestores ==
    [][Abort \/ TrialFails =>
          \A n \in Names : meta[n].kind \notin {"fuse", "lens"} =>
              /\ val'[n] = Last(saved).val[n]
              /\ <<meta'[n].past, meta'[n].future>> = Last(saved).tape[n]]_vars
=============================================================================
