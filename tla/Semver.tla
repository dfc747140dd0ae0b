------------------------------- MODULE Semver -------------------------------
(***************************************************************************)
(* Versions and version constraints of the package manager                 *)
(* (cli/linux/src/pkg/semver.cpp).                                         *)
(*                                                                         *)
(* A version is <<major, minor, patch, pre>>: pre is 0 for a release and   *)
(* otherwise the place of the pre-release text in the order of strings.    *)
(* The text of a constraint is a record: op is the form it is written in,  *)
(* parts the numbers written (one to three of them, pre-release apart).    *)
(***************************************************************************)
EXTENDS Integers, Sequences, SequencesExt

Version == Nat \X Nat \X Nat \X Nat
Release(parts) == <<parts[1], parts[2], parts[3], 0>>

\* The number before the first difference decides; a release is newer than
\* its own pre-releases.
Older(v, w) ==
    LET rank == IF v[4] = 0 \/ w[4] = 0 THEN v[4] > w[4] ELSE v[4] < w[4]
    IN  \/ v[1] < w[1]
        \/ v[1] = w[1] /\ v[2] < w[2]
        \/ v[1] = w[1] /\ v[2] = w[2] /\ v[3] < w[3]
        \/ v[1] = w[1] /\ v[2] = w[2] /\ v[3] = w[3] /\ rank

NotNewer(v, w) == v = w \/ Older(v, w)

\* A constraint is an interval: an end that is not there is <<>>.
NoEnd == <<>>
Constraint ==
    [min : Version \cup {NoEnd}, minIn : BOOLEAN, max : Version \cup {NoEnd}, maxIn : BOOLEAN]
AnyVersion == [min |-> NoEnd, minIn |-> TRUE, max |-> NoEnd, maxIn |-> FALSE]
Between(lo, hi) == [AnyVersion EXCEPT !.min = lo, !.max = hi]

Padded(parts) == Release(parts \o <<0, 0>>)
NextMajor(parts) == <<parts[1] + 1, 0, 0, 0>>
NextMinor(parts) == <<parts[1], Padded(parts)[2] + 1, 0, 0>>
NextPatch(parts) == <<parts[1], Padded(parts)[2], Padded(parts)[3] + 1, 0>>

CaretEnd_Major(parts) == NextMajor(parts)
CaretEnd(parts) ==
    IF parts[1] > 0 THEN NextMajor(parts)
    ELSE IF Padded(parts)[2] > 0 THEN NextMinor(parts)
    ELSE NextPatch(parts)

Forms == {"^", "~", "x", ">=", "<=", ">", "<", "=", "*"}
Text == [op : Forms, parts : Seq(Nat), pre : Nat]

\* Which texts tryParseConstraint accepts: only the comparisons and the exact
\* form take a pre-release, and they want all three numbers.
WellFormed(spec) ==
    \/ spec.op \in {"^", "~"} /\ Len(spec.parts) \in 1 .. 3 /\ spec.pre = 0
    \/ spec.op = "x" /\ Len(spec.parts) \in 0 .. 2 /\ spec.pre = 0
    \/ spec.op \in {">=", "<=", ">", "<", "="} /\ Len(spec.parts) = 3
    \/ spec.op = "*"

Exactly(spec) == <<spec.parts[1], spec.parts[2], spec.parts[3], spec.pre>>

\* A lone x comes out as 0.x: major stays zero (semver.cpp:113-135).
XRange(parts) ==
    CASE Len(parts) = 0 -> Between(<<0, 0, 0, 0>>, <<1, 0, 0, 0>>)
      [] Len(parts) = 1 -> Between(Padded(parts), NextMajor(parts))
      [] OTHER -> Between(Padded(parts), NextMinor(parts))

Parse(spec) ==
    CASE spec.op = "*" -> AnyVersion
      [] spec.op = "x" -> XRange(spec.parts)
      [] spec.op = "^" -> Between(Padded(spec.parts), CaretEnd(spec.parts))
      [] spec.op = "~" ->
            Between(Padded(spec.parts),
                    IF Len(spec.parts) = 1 THEN NextMajor(spec.parts) ELSE NextMinor(spec.parts))
      [] spec.op = ">=" -> [AnyVersion EXCEPT !.min = Exactly(spec)]
      [] spec.op = ">" -> [AnyVersion EXCEPT !.min = Exactly(spec), !.minIn = FALSE]
      [] spec.op = "<=" -> [AnyVersion EXCEPT !.max = Exactly(spec), !.maxIn = TRUE]
      [] spec.op = "<" -> [AnyVersion EXCEPT !.max = Exactly(spec)]
      [] OTHER -> [min |-> Exactly(spec), minIn |-> TRUE, max |-> Exactly(spec), maxIn |-> TRUE]

AboveMin(c, v) == c.min # NoEnd => IF c.minIn THEN NotNewer(c.min, v) ELSE Older(c.min, v)
BelowMax(c, v) == c.max # NoEnd => IF c.maxIn THEN NotNewer(v, c.max) ELSE Older(v, c.max)
Matches(c, v) == AboveMin(c, v) /\ BelowMax(c, v)
=============================================================================
