--------------------------- MODULE ResolverProofs ---------------------------
(***************************************************************************)
(* What a dependency resolution promises, for every set of packages and    *)
(* every registry with finitely many versions of each.                     *)
(*                                                                         *)
(* Four invariants carry it. Typed: the shapes, and that a name is asked   *)
(* for exactly when it waits or has a version. NewestOfAccepted, which     *)
(* needs that the intersection of constraints, folded end by end, accepts  *)
(* what each of them accepts. Heard: no request of a version chosen is     *)
(* lost. Walk and Listed: emit walks a path and lists a package after all  *)
(* it asked for, which holds because there is no cycle.                    *)
(***************************************************************************)
EXTENDS Resolver, WellOrder, SequenceTheorems

\* A finite set that is not empty has an element that no other one exceeds,
\* in any strict order.
LEMMA NoneExceeds ==
    ASSUME NEW S, IsFiniteSet(S), S # {}, NEW R,
           \A x, y, z \in S : <<x, y>> \in R /\ <<y, z>> \in R => <<x, z>> \in R,
           \A x \in S : <<x, x>> \notin R
    PROVE  \E m \in S : \A y \in S : <<m, y>> \notin R
<1> DEFINE Above(x) == {y \in S : <<x, y>> \in R}
           T == {Above(x) : x \in S}
<1>1. IsWellFoundedOn(StrictSubsetOrdering(S), FiniteSubsetsOf(S))
  BY FS_StrictSubsetOrderingWellFounded
<1>2. T \subseteq FiniteSubsetsOf(S) /\ T # {}
  <2>1. \A x \in S : Above(x) \in SUBSET S /\ IsFiniteSet(Above(x))
    BY FS_Subset
  <2>2. ASSUME NEW t \in T PROVE t \in FiniteSubsetsOf(S)
    <3>1. PICK x \in S : t = Above(x)
      OBVIOUS
    <3> HIDE DEF Above
    <3> QED
      BY <2>1, <3>1 DEF FiniteSubsetsOf
  <2>3. PICK x \in S : TRUE
    OBVIOUS
  <2>4. Above(x) \in T
    OBVIOUS
  <2> HIDE DEF T
  <2> QED
    BY <2>2, <2>4
<1>3. PICK a \in T : \A b \in T : <<b, a>> \notin StrictSubsetOrdering(S)
  BY <1>1, <1>2, WFMin
<1>4. PICK m \in S : a = Above(m)
  OBVIOUS
<1>5. ASSUME NEW y \in S, <<m, y>> \in R PROVE FALSE
  <2>1. Above(y) \in T /\ Above(y) \subseteq Above(m)
    <3>1. Above(y) \in T
      OBVIOUS
    <3>2. \A z \in S : <<y, z>> \in R => <<m, z>> \in R
      BY <1>5
    <3> QED
      BY <3>1, <3>2
  <2>2. y \in Above(m) /\ y \notin Above(y)
    BY <1>5
  <2>3. <<Above(y), Above(m)>> \in StrictSubsetOrdering(S)
    BY <2>1, <2>2 DEF StrictSubsetOrdering
  <2> QED
    BY <1>3, <1>4, <2>1, <2>3
<1> QED
  BY <1>5

-----------------------------------------------------------------------------
(* Versions and constraints                                                *)

\* The order of versions is strict and total.
LEMMA OlderIrreflexive == ASSUME NEW v \in Version PROVE ~Older(v, v)
BY DEF Version, Older

\* Older than what is older.
LEMMA OlderTransitive ==
    ASSUME NEW u \in Version, NEW v \in Version, NEW w \in Version, Older(u, v), Older(v, w)
    PROVE  Older(u, w)
BY DEF Version, Older

\* Two versions are the same or one is older.
LEMMA OlderTotal ==
    ASSUME NEW v \in Version, NEW w \in Version
    PROVE  v = w \/ Older(v, w) \/ Older(w, v)
BY DEF Version, Older

\* No version is the mark of a missing one.
LEMMA VersionIsNotNone == ASSUME NEW v \in Version PROVE v # <<>>
<1>1. PICK a, b, c, d \in Nat : v = <<a, b, c, d>>
  BY DEF Version
<1>2. Len(v) = 4 /\ Len(<<>>) = 0
  BY <1>1
<1> QED
  BY <1>2

\* What pickBest returns: the versions of a registry are finitely many.
LEMMA NewestIsNewest ==
    ASSUME NEW vs, vs \subseteq Version, IsFiniteSet(vs), vs # {}
    PROVE  Newest(vs) \in vs /\ \A w \in vs : NotNewer(w, Newest(vs))
<1> DEFINE R == {p \in vs \X vs : Older(p[1], p[2])}
<1>1. PICK m \in vs : \A w \in vs : <<m, w>> \notin R
  <2>1. \A x, y \in vs : <<x, y>> \in R <=> Older(x, y)
    OBVIOUS
  <2>2. \A x, y, z \in vs : Older(x, y) /\ Older(y, z) => Older(x, z)
    BY OlderTransitive
  <2>3. \A x \in vs : ~Older(x, x)
    BY OlderIrreflexive
  <2> HIDE DEF R
  <2> QED
    BY <2>1, <2>2, <2>3, NoneExceeds
<1>2. \A w \in vs : NotNewer(w, m)
  BY <1>1, OlderTotal DEF NotNewer
<1> QED
  BY <1>2 DEF Newest

\* A constraint whose end no other one tightens says at that end what all of
\* them say (intersectInto, matches).
LEMMA LowestSuffices ==
    ASSUME NEW c \in Constraint, NEW d \in Constraint, ~RaisesMin(c, d), NEW v \in Version, AboveMin(c, v)
    PROVE  AboveMin(d, v)
<1>1. CASE d.min = NoEnd
  BY <1>1 DEF AboveMin
<1>2. CASE d.min # NoEnd
  <2>1. c.min # NoEnd /\ ~Older(c.min, d.min) /\ ~(d.min = c.min /\ c.minIn /\ ~d.minIn)
    BY <1>2 DEF RaisesMin
  <2>2. PICK x \in Version, y \in Version : x = c.min /\ y = d.min
    BY <1>2, <2>1 DEF Constraint
  <2>3. x = y \/ Older(y, x)
    BY <2>1, <2>2, OlderTotal
  <2>4. IF c.minIn THEN x = v \/ Older(x, v) ELSE Older(x, v)
    BY <2>1, <2>2 DEF AboveMin, NotNewer
  <2>5. CASE x = y
    BY <2>1, <2>2, <2>4, <2>5 DEF AboveMin, NotNewer
  <2>6. CASE Older(y, x)
    <3>1. Older(y, v)
      BY <2>4, <2>6, OlderTransitive
    <3> QED
      BY <2>2, <3>1 DEF AboveMin, NotNewer
  <2> QED
    BY <2>3, <2>5, <2>6
<1> QED
  BY <1>1, <1>2

\* The same at the other end.
LEMMA HighestSuffices ==
    ASSUME NEW c \in Constraint, NEW d \in Constraint, ~LowersMax(c, d), NEW v \in Version, BelowMax(c, v)
    PROVE  BelowMax(d, v)
<1>1. CASE d.max = NoEnd
  BY <1>1 DEF BelowMax
<1>2. CASE d.max # NoEnd
  <2>1. c.max # NoEnd /\ ~Older(d.max, c.max) /\ ~(d.max = c.max /\ c.maxIn /\ ~d.maxIn)
    BY <1>2 DEF LowersMax
  <2>2. PICK x \in Version, y \in Version : x = c.max /\ y = d.max
    BY <1>2, <2>1 DEF Constraint
  <2>3. x = y \/ Older(x, y)
    BY <2>1, <2>2, OlderTotal
  <2>4. IF c.maxIn THEN v = x \/ Older(v, x) ELSE Older(v, x)
    BY <2>1, <2>2 DEF BelowMax, NotNewer
  <2>5. CASE x = y
    BY <2>1, <2>2, <2>4, <2>5 DEF BelowMax, NotNewer
  <2>6. CASE Older(x, y)
    <3>1. Older(v, y)
      BY <2>4, <2>6, OlderTransitive
    <3> QED
      BY <2>2, <3>1 DEF BelowMax, NotNewer
  <2> QED
    BY <2>3, <2>5, <2>6
<1> QED
  BY <1>1, <1>2

\* To tighten an end is a strict order, so the intersection has its ends.
LEMMA EndsExist ==
    ASSUME NEW cs, cs \subseteq Constraint, IsFiniteSet(cs), cs # {}
    PROVE  /\ Lowest(cs) \in cs /\ \A d \in cs : ~RaisesMin(Lowest(cs), d)
           /\ Highest(cs) \in cs /\ \A d \in cs : ~LowersMax(Highest(cs), d)
<1>1. /\ \A x, y, z \in cs : RaisesMin(x, y) /\ RaisesMin(y, z) => RaisesMin(x, z)
      /\ \A x \in cs : ~RaisesMin(x, x)
  <2>1. ASSUME NEW x \in cs, NEW y \in cs, NEW z \in cs, RaisesMin(x, y), RaisesMin(y, z)
        PROVE  RaisesMin(x, z)
    <3>1. PICK a \in Version \cup {NoEnd}, b \in Version, c \in Version :
             a = x.min /\ b = y.min /\ c = z.min
      BY <2>1 DEF RaisesMin, Constraint
    <3>2. Older(b, c) \/ (b = c /\ y.minIn /\ ~z.minIn)
      BY <2>1, <3>1 DEF RaisesMin
    <3>3. CASE a = NoEnd
      BY <2>1, <3>1, <3>3 DEF RaisesMin
    <3>4. CASE a \in Version
      <4>1. a # NoEnd /\ c # NoEnd
        BY <3>4, VersionIsNotNone DEF NoEnd
      <4>2. Older(a, b) \/ (a = b /\ x.minIn /\ ~y.minIn)
        BY <2>1, <3>1, <4>1 DEF RaisesMin
      <4>3. Older(a, c)
        BY <3>2, <3>4, <4>2, OlderTransitive
      <4> QED
        BY <3>1, <4>1, <4>3 DEF RaisesMin
    <3> QED
      BY <3>3, <3>4
  <2>2. ASSUME NEW x \in cs, RaisesMin(x, x) PROVE FALSE
    BY <2>2, OlderIrreflexive DEF RaisesMin, Constraint
  <2> QED
    BY <2>1, <2>2
<1>2. /\ \A x, y, z \in cs : LowersMax(x, y) /\ LowersMax(y, z) => LowersMax(x, z)
      /\ \A x \in cs : ~LowersMax(x, x)
  <2>1. ASSUME NEW x \in cs, NEW y \in cs, NEW z \in cs, LowersMax(x, y), LowersMax(y, z)
        PROVE  LowersMax(x, z)
    <3>1. PICK a \in Version \cup {NoEnd}, b \in Version, c \in Version :
             a = x.max /\ b = y.max /\ c = z.max
      BY <2>1 DEF LowersMax, Constraint
    <3>2. Older(c, b) \/ (b = c /\ y.maxIn /\ ~z.maxIn)
      BY <2>1, <3>1 DEF LowersMax
    <3>3. CASE a = NoEnd
      BY <2>1, <3>1, <3>3 DEF LowersMax
    <3>4. CASE a \in Version
      <4>1. a # NoEnd /\ c # NoEnd
        BY <3>4, VersionIsNotNone DEF NoEnd
      <4>2. Older(b, a) \/ (a = b /\ x.maxIn /\ ~y.maxIn)
        BY <2>1, <3>1, <4>1 DEF LowersMax
      <4>3. Older(c, a)
        BY <3>2, <3>4, <4>2, OlderTransitive
      <4> QED
        BY <3>1, <4>1, <4>3 DEF LowersMax
    <3> QED
      BY <3>3, <3>4
  <2>2. ASSUME NEW x \in cs, LowersMax(x, x) PROVE FALSE
    BY <2>2, OlderIrreflexive DEF LowersMax, Constraint
  <2> QED
    BY <2>1, <2>2
<1>3. \E c \in cs : \A d \in cs : ~RaisesMin(c, d)
  <2> DEFINE R == {p \in cs \X cs : RaisesMin(p[1], p[2])}
  <2>1. \A x, y \in cs : <<x, y>> \in R <=> RaisesMin(x, y)
    OBVIOUS
  <2> HIDE DEF R
  <2>2. \E c \in cs : \A d \in cs : <<c, d>> \notin R
    BY <1>1, <2>1, NoneExceeds
  <2> QED
    BY <2>1, <2>2
<1>4. \E c \in cs : \A d \in cs : ~LowersMax(c, d)
  <2> DEFINE R == {p \in cs \X cs : LowersMax(p[1], p[2])}
  <2>1. \A x, y \in cs : <<x, y>> \in R <=> LowersMax(x, y)
    OBVIOUS
  <2> HIDE DEF R
  <2>2. \E c \in cs : \A d \in cs : <<c, d>> \notin R
    BY <1>2, <2>1, NoneExceeds
  <2> QED
    BY <2>1, <2>2
<1> QED
  BY <1>3, <1>4 DEF Lowest, Highest

\* The range that resolve keeps accepts what every constraint accepts, and
\* nothing else.
LEMMA IntersectionMatches ==
    ASSUME NEW cs, cs \subseteq Constraint, IsFiniteSet(cs), cs # {}, NEW v \in Version
    PROVE  Matches(Intersection(cs), v) <=> \A c \in cs : Matches(c, v)
<1>1. PICK lo \in cs, hi \in cs : /\ lo = Lowest(cs) /\ \A d \in cs : ~RaisesMin(lo, d)
                                  /\ hi = Highest(cs) /\ \A d \in cs : ~LowersMax(hi, d)
  BY EndsExist
<1>2. Matches(Intersection(cs), v) <=> AboveMin(lo, v) /\ BelowMax(hi, v)
  BY <1>1 DEF Matches, Intersection, AboveMin, BelowMax
<1>3. AboveMin(lo, v) => \A c \in cs : AboveMin(c, v)
  BY <1>1, LowestSuffices
<1>4. BelowMax(hi, v) => \A c \in cs : BelowMax(c, v)
  BY <1>1, HighestSuffices
<1> QED
  BY <1>2, <1>3, <1>4 DEF Matches

\* The numbers that are not written are zero (semver.cpp, parseLoose).
LEMMA PaddedNumbers ==
    ASSUME NEW parts \in Seq(Nat), Len(parts) \in 1 .. 3
    PROVE  \E a, b, c \in Nat : /\ Padded(parts) = <<a, b, c, 0>>
                                /\ parts[1] = a
<1>1. PICK n \in 1 .. 3 : n = Len(parts)
  OBVIOUS
<1>2. DEFINE q == parts \o <<0, 0>>
<1>3. \A i \in 1 .. 3 : q[i] \in Nat
  <2>1. ASSUME NEW i \in 1 .. 3, i <= n PROVE q[i] \in Nat
    BY <1>1, <2>1
  <2>2. ASSUME NEW i \in 1 .. 3, i > n PROVE q[i] \in Nat
    <3>1. q[i] = <<0, 0>>[i - n] /\ i - n \in 1 .. 2
      <4>1. Len(<<0, 0>>) = 2 /\ <<0, 0>> \in Seq(Nat)
        OBVIOUS
      <4>2. q = parts \o <<0, 0>>
        OBVIOUS
      <4> HIDE DEF q
      <4> QED
        BY <1>1, <2>2, <4>1, <4>2, ConcatProperties
    <3>2. <<0, 0>>[1] = 0 /\ <<0, 0>>[2] = 0
      OBVIOUS
    <3>3. PICK k \in {1, 2} : k = i - n
      BY <3>1
    <3>4. q[i] = <<0, 0>>[k]
      BY <3>1, <3>3
    <3>5. <<0, 0>>[k] = 0
      BY <3>2
    <3> HIDE DEF q
    <3> QED
      BY <3>4, <3>5
  <2> QED
    BY <1>1, <2>1, <2>2
<1>4. q[1] = parts[1]
  BY <1>1
<1> QED
  BY <1>3, <1>4 DEF Padded, Release

\* Two versions bound a constraint.
LEMMA BetweenIsConstraint ==
    ASSUME NEW lo \in Version, NEW hi \in Version
    PROVE  Between(lo, hi) \in Constraint
BY DEF Between, AnyVersion, Constraint

\* The wildcards are such intervals.
LEMMA XRangeIsConstraint ==
    ASSUME NEW parts \in Seq(Nat), Len(parts) \in 0 .. 2
    PROVE  XRange(parts) \in Constraint
<1>1. PICK n \in 0 .. 2 : n = Len(parts)
  OBVIOUS
<1>2. CASE n = 0
  <2>1. XRange(parts) = Between(<<0, 0, 0, 0>>, <<1, 0, 0, 0>>)
    BY <1>1, <1>2 DEF XRange
  <2>2. <<0, 0, 0, 0>> \in Version /\ <<1, 0, 0, 0>> \in Version
    BY DEF Version
  <2> QED
    BY <2>1, <2>2, BetweenIsConstraint
<1>3. CASE n # 0
  <2>1. PICK a, b, c \in Nat : Padded(parts) = <<a, b, c, 0>> /\ parts[1] = a
    <3>1. Len(parts) \in 1 .. 3
      BY <1>1, <1>3
    <3> QED
      BY <3>1, PaddedNumbers
  <2>2. Padded(parts) \in Version /\ NextMajor(parts) \in Version /\ NextMinor(parts) \in Version
    <3>1. PICK v \in Version : v = Padded(parts)
      BY <2>1 DEF Version
    <3>2. v[2] = b
      BY <2>1, <3>1
    <3>3. NextMajor(parts) = <<a + 1, 0, 0, 0>> /\ NextMinor(parts) = <<a, b + 1, 0, 0>>
      BY <2>1, <3>1, <3>2 DEF NextMajor, NextMinor
    <3> QED
      BY <3>1, <3>3 DEF Version
  <2>3. XRange(parts) = Between(Padded(parts), NextMajor(parts))
        \/ XRange(parts) = Between(Padded(parts), NextMinor(parts))
    BY <1>1, <1>3 DEF XRange
  <2> QED
    BY <2>2, <2>3, BetweenIsConstraint
<1> QED
  BY <1>2, <1>3

\* What a well-formed text parses to is an interval of versions.
LEMMA ParsedIsConstraint ==
    ASSUME NEW s \in Text, WellFormed(s)
    PROVE  Parse(s) \in Constraint
<1>1. PICK op \in Forms, parts \in Seq(Nat), pre \in Nat :
         op = s.op /\ parts = s.parts /\ pre = s.pre
  BY DEF Text
<1>2. \A lo, hi \in Version : Between(lo, hi) \in Constraint
  BY BetweenIsConstraint
<1>3. AnyVersion \in Constraint
  BY DEF AnyVersion, Constraint
<1>4. CASE Len(parts) \in 1 .. 3
  <2>1. PICK a, b, c \in Nat : Padded(parts) = <<a, b, c, 0>> /\ parts[1] = a
    BY <1>4, PaddedNumbers
  <2>2. /\ Padded(parts) \in Version /\ NextMajor(parts) \in Version
        /\ NextMinor(parts) \in Version /\ NextPatch(parts) \in Version
    BY <2>1 DEF Version, NextMajor, NextMinor, NextPatch
  <2>3. CaretEnd(parts) \in Version
    BY <2>2 DEF CaretEnd
  <2>4. CASE op \in {"^", "~", "x", "*"}
    <3>1. CASE op = "^"
      BY <1>1, <1>2, <2>2, <2>3, <3>1 DEF Parse
    <3>2. CASE op = "~"
      BY <1>1, <1>2, <2>2, <3>2 DEF Parse
    <3>3. CASE op = "x"
      BY <1>1, <3>3, XRangeIsConstraint DEF WellFormed, Parse
    <3>4. CASE op = "*"
      BY <1>1, <1>3, <3>4 DEF Parse
    <3> QED
      BY <2>4, <3>1, <3>2, <3>3, <3>4
  <2>5. CASE op \in {">=", "<=", ">", "<", "="}
    <3>1. Len(parts) = 3
      BY <1>1, <2>5 DEF WellFormed
    <3>2. parts[1] \in Nat /\ parts[2] \in Nat /\ parts[3] \in Nat
      BY <1>1, <3>1
    <3>3. Exactly(s) \in Version
      BY <1>1, <3>2 DEF Exactly, Version
    <3>4. PICK e \in Version : e = Exactly(s)
      BY <3>3
    <3>5. Parse(s) \in
            {[AnyVersion EXCEPT !.min = e], [AnyVersion EXCEPT !.min = e, !.minIn = FALSE],
             [AnyVersion EXCEPT !.max = e, !.maxIn = TRUE], [AnyVersion EXCEPT !.max = e],
             [min |-> e, minIn |-> TRUE, max |-> e, maxIn |-> TRUE]}
      BY <1>1, <2>5, <3>4 DEF Parse
    <3>6. [AnyVersion EXCEPT !.min = e] \in Constraint /\ [AnyVersion EXCEPT !.max = e] \in Constraint
      BY DEF Constraint, AnyVersion
    <3>7. /\ [AnyVersion EXCEPT !.min = e, !.minIn = FALSE] \in Constraint
          /\ [AnyVersion EXCEPT !.max = e, !.maxIn = TRUE] \in Constraint
          /\ [min |-> e, minIn |-> TRUE, max |-> e, maxIn |-> TRUE] \in Constraint
      BY DEF Constraint, AnyVersion
    <3> QED
      BY <3>5, <3>6, <3>7
  <2> QED
    BY <2>4, <2>5 DEF Forms
<1>5. CASE Len(parts) \notin 1 .. 3
  <2>1. op = "*" \/ (op = "x" /\ Len(parts) = 0)
    BY <1>1, <1>5 DEF WellFormed
  <2>2. CASE op = "*"
    BY <1>1, <1>3, <2>2 DEF Parse
  <2>3. CASE op = "x" /\ Len(parts) = 0
    BY <1>1, <2>3, XRangeIsConstraint DEF Parse
  <2> QED
    BY <2>1, <2>2, <2>3
<1> QED
  BY <1>4, <1>5

\* A caret never lets in a release that changes the leftmost number of the
\* constraint that is not zero (semver.cpp:138-158).
LEMMA CaretBounds ==
    ASSUME NEW s \in Text, WellFormed(s), s.op = "^",
           NEW v \in Version, v[4] = 0, Matches(Parse(s), v)
    PROVE  \A i \in 1 .. Leading(Padded(s.parts)) : v[i] = Padded(s.parts)[i]
<1>1. Len(s.parts) \in 1 .. 3 /\ s.parts \in Seq(Nat)
  <2>1. s.parts \in Seq(Nat)
    BY DEF Text
  <2>2. Len(s.parts) \in 1 .. 3
    BY DEF WellFormed
  <2> QED
    BY <2>1, <2>2
<1>2. PICK a, b, c \in Nat : Padded(s.parts) = <<a, b, c, 0>> /\ s.parts[1] = a
  BY <1>1, PaddedNumbers
<1>3. PICK x, y, z \in Nat : v = <<x, y, z, 0>>
  BY DEF Version
<1>4. PICK e \in Version : /\ e = CaretEnd(s.parts)
                           /\ e = IF a > 0 THEN <<a + 1, 0, 0, 0>>
                                  ELSE IF b > 0 THEN <<a, b + 1, 0, 0>> ELSE <<a, b, c + 1, 0>>
  <2>1. CaretEnd(s.parts) = IF a > 0 THEN <<a + 1, 0, 0, 0>>
                            ELSE IF b > 0 THEN <<a, b + 1, 0, 0>> ELSE <<a, b, c + 1, 0>>
    BY <1>2 DEF CaretEnd, NextMajor, NextMinor, NextPatch
  <2> QED
    BY <2>1 DEF Version
<1>5. Parse(s) = [min |-> <<a, b, c, 0>>, minIn |-> TRUE, max |-> e, maxIn |-> FALSE]
  BY <1>2, <1>4 DEF Parse, Between, AnyVersion
<1>6. <<a, b, c, 0>> # NoEnd /\ e # NoEnd
  <2>1. <<a, b, c, 0>> \in Version
    BY DEF Version
  <2> QED
    BY <2>1, VersionIsNotNone DEF NoEnd
<1>7. NotNewer(<<a, b, c, 0>>, <<x, y, z, 0>>) /\ Older(<<x, y, z, 0>>, e)
  BY <1>3, <1>5, <1>6 DEF Matches, AboveMin, BelowMax
<1>8. /\ x > a \/ (x = a /\ y > b) \/ (x = a /\ y = b /\ z >= c)
      /\ \/ x < e[1]
         \/ x = e[1] /\ y < e[2]
         \/ x = e[1] /\ y = e[2] /\ z < e[3]
  <2>1. x > a \/ (x = a /\ y > b) \/ (x = a /\ y = b /\ z >= c)
    BY <1>7 DEF NotNewer, Older
  <2>2. e[4] = 0
    BY <1>4
  <2> QED
    BY <1>7, <2>1, <2>2 DEF Older
<1>9. CASE a > 0
  <2>1. x = a
    BY <1>4, <1>8, <1>9
  <2>2. Leading(Padded(s.parts)) = 1
    BY <1>2, <1>9 DEF Leading
  <2> QED
    BY <1>2, <1>3, <2>1, <2>2
<1>10. CASE a = 0 /\ b > 0
  <2>1. x = a /\ y = b
    BY <1>4, <1>8, <1>10
  <2>2. Leading(Padded(s.parts)) = 2
    BY <1>2, <1>10 DEF Leading
  <2> QED
    BY <1>2, <1>3, <2>1, <2>2
<1>11. CASE a = 0 /\ b = 0
  <2>1. x = a /\ y = b /\ z = c
    BY <1>4, <1>8, <1>11
  <2>2. Leading(Padded(s.parts)) = 3
    BY <1>2, <1>11 DEF Leading
  <2> QED
    BY <1>2, <1>3, <2>1, <2>2
<1> QED
  BY <1>9, <1>10, <1>11

-----------------------------------------------------------------------------
(* Queues and lists                                                        *)

\* What a list holds.
LEMMA SetOfList ==
    ASSUME NEW S, NEW s \in Seq(S)
    PROVE  /\ ToSet(s) \subseteq S
           /\ \A x : x \in ToSet(s) <=> \E i \in 1 .. Len(s) : s[i] = x
           /\ Len(s) \in Nat /\ DOMAIN s = 1 .. Len(s)
BY DEF ToSet

\* What a list holds after one more.
LEMMA OneMore ==
    ASSUME NEW S, NEW s \in Seq(S), NEW e \in S
    PROVE  /\ Append(s, e) \in Seq(S) /\ ToSet(Append(s, e)) = ToSet(s) \cup {e}
           /\ Len(Append(s, e)) = Len(s) + 1
           /\ \A i \in 1 .. Len(s) : Append(s, e)[i] = s[i]
           /\ Append(s, e)[Len(s) + 1] = e
           /\ IsInjective(s) /\ e \notin ToSet(s) => IsInjective(Append(s, e))
<1>1. PICK n \in Nat : n = Len(s) /\ DOMAIN s = 1 .. n
  BY SetOfList
<1>2. PICK t \in Seq(S) : t = Append(s, e)
  BY AppendProperties
<1>3. /\ Len(t) = n + 1 /\ DOMAIN t = 1 .. n + 1 /\ t[n + 1] = e
      /\ \A i \in 1 .. n : t[i] = s[i]
  BY <1>1, <1>2, AppendProperties, LenProperties
<1>4. \A x : x \in ToSet(t) <=> x \in ToSet(s) \/ x = e
  <2>1. \A i \in 1 .. n + 1 : i \in 1 .. n \/ i = n + 1
    OBVIOUS
  <2>2. n + 1 \in 1 .. n + 1 /\ 1 .. n \subseteq 1 .. n + 1
    OBVIOUS
  <2> QED
    BY <1>1, <1>3, <2>1, <2>2, Zenon DEF ToSet
<1>5. ASSUME IsInjective(s), e \notin ToSet(s) PROVE IsInjective(t)
  <2> SUFFICES ASSUME NEW a \in 1 .. n + 1, NEW b \in 1 .. n + 1, t[a] = t[b] PROVE a = b
    BY <1>3 DEF IsInjective
  <2>1. \A i \in 1 .. n : s[i] # e
    BY <1>1, <1>5 DEF ToSet
  <2>2. \A i, j \in 1 .. n : s[i] = s[j] => i = j
    BY <1>1, <1>5 DEF IsInjective
  <2> QED
    BY <1>3, <2>1, <2>2
<1> QED
  BY <1>1, <1>2, <1>3, <1>4, <1>5

\* What a list holds without its first.
LEMMA OneLess ==
    ASSUME NEW S, NEW s \in Seq(S), s # <<>>
    PROVE  /\ Head(s) \in S /\ Tail(s) \in Seq(S)
           /\ ToSet(s) = ToSet(Tail(s)) \cup {Head(s)}
           /\ IsInjective(s) => IsInjective(Tail(s)) /\ Head(s) \notin ToSet(Tail(s))
<1>1. PICK n \in Nat : Len(s) = n + 1 /\ DOMAIN s = 1 .. n + 1 /\ Head(s) = s[1] /\ s[1] \in S
  <2>1. Len(s) \in Nat \ {0}
    BY EmptySeq, LenProperties
  <2>2. PICK n \in Nat : Len(s) = n + 1
    <3>1. Len(s) - 1 \in Nat /\ (Len(s) - 1) + 1 = Len(s)
      BY <2>1
    <3> QED
      BY <3>1
  <2>3. DOMAIN s = 1 .. n + 1
    BY <2>2, LenProperties
  <2>4. Head(s) = s[1]
    OBVIOUS
  <2>5. s[1] \in S
    BY <2>4, HeadTailProperties
  <2> QED
    BY <2>2, <2>3, <2>4, <2>5
<1>2. PICK t \in Seq(S) : t = Tail(s)
  BY HeadTailProperties
<1>3. Len(t) = n /\ DOMAIN t = 1 .. n /\ \A i \in 1 .. n : t[i] = s[i + 1]
  BY <1>1, <1>2, HeadTailProperties, LenProperties
<1>4. \A i \in 1 .. n + 1 : i = 1 \/ (i - 1 \in 1 .. n /\ s[i] = t[i - 1])
  <2> SUFFICES ASSUME NEW i \in 1 .. n + 1, i # 1 PROVE i - 1 \in 1 .. n /\ s[i] = t[i - 1]
    OBVIOUS
  <2>1. i - 1 \in 1 .. n /\ (i - 1) + 1 = i
    OBVIOUS
  <2> QED
    BY <1>3, <2>1
<1>5. \A x : x \in ToSet(s) <=> x \in ToSet(t) \/ x = s[1]
  <2>1. \A i \in 1 .. n : i + 1 \in 1 .. n + 1
    OBVIOUS
  <2>2. 1 \in 1 .. n + 1
    OBVIOUS
  <2>3. ASSUME NEW x \in ToSet(t) PROVE x \in ToSet(s)
    BY <1>1, <1>3, <2>1 DEF ToSet
  <2>4. ASSUME NEW x \in ToSet(s) PROVE x \in ToSet(t) \/ x = s[1]
    <3>1. PICK i \in 1 .. n + 1 : s[i] = x
      BY <1>1, <2>4 DEF ToSet
    <3>2. CASE i = 1
      BY <3>1, <3>2
    <3>3. CASE i # 1
      <4>1. i - 1 \in 1 .. n /\ t[i - 1] = x
        BY <1>4, <3>1, <3>3
      <4> QED
        BY <1>3, <4>1 DEF ToSet
    <3> QED
      BY <3>2, <3>3
  <2>5. s[1] \in ToSet(s)
    BY <1>1, <2>2 DEF ToSet
  <2> QED
    BY <2>3, <2>4, <2>5
<1>6. ASSUME IsInjective(s) PROVE IsInjective(t) /\ s[1] \notin ToSet(t)
  <2>1. \A i, j \in 1 .. n + 1 : s[i] = s[j] => i = j
    BY <1>1, <1>6 DEF IsInjective
  <2>2. \A i \in 1 .. n : s[i + 1] # s[1]
    BY <2>1
  <2>3. \A i, j \in 1 .. n : t[i] = t[j] => i = j
    <3> SUFFICES ASSUME NEW i \in 1 .. n, NEW j \in 1 .. n, s[i + 1] = s[j + 1] PROVE i = j
      BY <1>3
    <3>1. i + 1 = j + 1
      BY <2>1
    <3> QED
      BY <3>1
  <2> QED
    BY <1>3, <2>2, <2>3 DEF ToSet, IsInjective
<1> QED
  BY <1>1, <1>2, <1>5, <1>6

\* What a list keeps without its last.
LEMMA LastGone ==
    ASSUME NEW S, NEW s \in Seq(S), s # <<>>
    PROVE  \E n \in Nat \ {0} :
              /\ n = Len(s) /\ Last(s) = s[n] /\ s[n] \in S
              /\ Front(s) \in Seq(S) /\ Len(Front(s)) = n - 1
              /\ \A i \in 1 .. n - 1 : Front(s)[i] = s[i]
<1>1. PICK n \in Nat \ {0} : n = Len(s) /\ \A i \in 1 .. n : s[i] \in S
  BY EmptySeq, LenProperties, ElementOfSeq
<1>2. \A i \in 1 .. n - 1 : s[i] \in S
  BY <1>1
<1>3. /\ SubSeq(s, 1, n - 1) \in Seq(S)
      /\ Len(SubSeq(s, 1, n - 1)) = IF 1 <= n - 1 THEN n - 1 - 1 + 1 ELSE 0
      /\ \A i \in 1 .. n - 1 - 1 + 1 : SubSeq(s, 1, n - 1)[i] = s[1 + i - 1]
  BY <1>1, <1>2, SubSeqProperties
<1>4. PICK t \in Seq(S) : t = SubSeq(s, 1, n - 1)
  BY <1>3
<1>5. Len(t) = n - 1
  BY <1>3, <1>4
<1>6. \A i \in 1 .. n - 1 : t[i] = s[i]
  <2> SUFFICES ASSUME NEW i \in 1 .. n - 1 PROVE t[i] = s[i]
    OBVIOUS
  <2>1. i \in 1 .. n - 1 - 1 + 1 /\ 1 + i - 1 = i
    OBVIOUS
  <2> QED
    BY <1>3, <1>4, <2>1
<1>7. Front(s) = t /\ Last(s) = s[n] /\ s[n] \in S
  BY <1>1, <1>4 DEF Front, Last
<1> QED
  BY <1>1, <1>5, <1>6, <1>7

\* A name is asked for exactly when it waits or has a version.
Queued == \A p \in Pkgs : reqs[p] # {} <=> resolved[p] # None \/ p \in ToSet(dirty)

\* What each stage of a resolution has not begun with or is done with.
Stages ==
    /\ outcome = "starting" => asking.left = <<>> /\ dirty = <<>> /\ \A p \in Pkgs : resolved[p] = None
    /\ outcome \in {"starting", "running"} => order = <<>>
    /\ outcome \in {"emitting", "ok"} => asking.left = <<>> /\ dirty = <<>>
    /\ outcome = "emitting" => stack # <<>>

Shape ==
    /\ TypeOK
    /\ universe \in Universes
    /\ resolved \in [Pkgs -> Version \cup {None}]
    /\ \A p \in Pkgs : IsFiniteSet(reqs[p])

\* The constraints on a package are finitely many intervals.
LEMMA ConstraintsAreFinite ==
    ASSUME Shape, NEW p \in Pkgs
    PROVE  Constraints(p) \subseteq Constraint /\ IsFiniteSet(Constraints(p)) /\ AnyVersion \in Constraints(p)
<1>1. AnyVersion \in Constraint
  BY DEF AnyVersion, Constraint
<1>2. ASSUME NEW r \in reqs[p] PROVE Parse(r.spec) \in Constraint
  <2>1. r.spec \in Text /\ WellFormed(r.spec)
    BY DEF Shape, TypeOK
  <2> QED
    BY <2>1, ParsedIsConstraint
<1>3. IsFiniteSet({Parse(r.spec) : r \in reqs[p]})
  <2>1. IsFiniteSet(reqs[p])
    BY DEF Shape
  <2>2. PICK f \in [reqs[p] -> Constraint] : f = [r \in reqs[p] |-> Parse(r.spec)]
    BY <1>2
  <2>3. {Parse(r.spec) : r \in reqs[p]} = Range(f)
    BY <2>2 DEF Range
  <2>4. f \in Surjection(reqs[p], Range(f))
    BY <2>2 DEF Surjection, Range
  <2> QED
    BY <2>1, <2>3, <2>4, FS_Surjection
<1>4. IsFiniteSet(Constraints(p))
  BY <1>3, FS_Singleton, FS_Union DEF Constraints
<1> QED
  BY <1>1, <1>2, <1>4 DEF Constraints

\* The range kept by the resolver fits the versions that every constraint
\* accepts (resolver.cpp:33-70).
LEMMA FittingIsAccepted ==
    ASSUME Shape, NEW p \in Pkgs
    PROVE  /\ Fitting(Intersection(Constraints(p)), universe.versions[p]) = Accepted(p)
           /\ Accepted(p) \subseteq Version /\ IsFiniteSet(Accepted(p))
<1>1. universe.versions[p] \subseteq Version /\ IsFiniteSet(universe.versions[p])
  BY RegistryAssumption DEF Shape
<1>2. ASSUME NEW v \in universe.versions[p]
      PROVE  Matches(Intersection(Constraints(p)), v) <=> \A r \in reqs[p] : Matches(Parse(r.spec), v)
  <2>1. v \in Version
    BY <1>1
  <2>2. Matches(Intersection(Constraints(p)), v) <=> \A c \in Constraints(p) : Matches(c, v)
    BY <2>1, ConstraintsAreFinite, IntersectionMatches
  <2>3. Matches(AnyVersion, v)
    BY DEF Matches, AboveMin, BelowMax, AnyVersion
  <2> QED
    BY <2>2, <2>3 DEF Constraints
<1>3. Accepted(p) \subseteq universe.versions[p]
  BY DEF Accepted
<1> QED
  BY <1>1, <1>2, <1>3, FS_Subset DEF Fitting, Accepted

\* A turn of the loop throws, or takes the newest version accepted.
LEMMA LookTakesNewest ==
    ASSUME Shape, Look
    PROVE  \/ \E error \in Errors : Throw(error)
           \/ /\ Head(dirty) \in Pkgs
              /\ Accepted(Head(dirty)) # {}
              /\ Choose(Head(dirty), Newest(Accepted(Head(dirty))))
<1>1. Head(dirty) \in Pkgs
  BY OneLess DEF Look, Shape, TypeOK
<1>2. PICK n \in Pkgs : n = Head(dirty)
  BY <1>1
<1>3. CASE universe.versions[n] = {}
  BY <1>2, <1>3 DEF Look, Errors
<1>4. CASE universe.versions[n] # {}
  <2>1. Pick(n, Intersection(Constraints(n)))
    BY <1>2, <1>4 DEF Look
  <2>2. IF Accepted(n) = {} THEN Throw("conflict") ELSE Choose(n, Newest(Accepted(n)))
    BY <2>1, FittingIsAccepted DEF Pick
  <2> QED
    BY <1>2, <2>2 DEF Errors
<1> QED
  BY <1>3, <1>4

\* addRequirement adds one request to the three places that remember it.
LEMMA RequestHeard ==
    ASSUME Shape, AddRequirement
    PROVE  \/ Throw("invalid constraint")
           \/ \E d \in Request, r \in [by : Names, spec : Text] :
                 /\ r = [by |-> asking.by, spec |-> d.spec] /\ WellFormed(d.spec)
                 /\ \A p \in Pkgs : reqs'[p] = IF p = d.name THEN reqs[p] \cup {r} ELSE reqs[p]
                 /\ reqs' \in [Pkgs -> SUBSET [by : Names, spec : Text]]
                 /\ \A n \in Names : ToSet(edges'[n]) = IF n = asking.by THEN ToSet(edges[n]) \cup {d.name}
                                                        ELSE ToSet(edges[n])
                 /\ edges' \in [Names -> Seq(Pkgs)]
                 /\ dirty' \in Seq(Pkgs) /\ IsInjective(dirty')
                 /\ ToSet(dirty') = ToSet(dirty) \cup {d.name}
                 /\ asking' \in [by : Names, left : Seq(Request)] /\ asking'.by = asking.by
                 /\ ToSet(asking.left) = ToSet(asking'.left) \cup {d}
                 /\ UNCHANGED <<universe, resolved, stack, order, outcome>>
<1>1. PICK d \in Request : d = Head(asking.left)
  BY OneLess DEF AddRequirement, Shape, TypeOK
<1>2. CASE ~WellFormed(d.spec)
  BY <1>1, <1>2 DEF AddRequirement
<1>3. CASE WellFormed(d.spec)
  <2>1. /\ reqs' = [reqs EXCEPT ![d.name] = @ \cup {[by |-> asking.by, spec |-> d.spec]}]
        /\ edges' = [edges EXCEPT ![asking.by] = Append(@, d.name)]
        /\ dirty' = Enqueue(dirty, d.name)
        /\ asking' = [asking EXCEPT !.left = Tail(@)]
        /\ UNCHANGED <<universe, resolved, stack, order, outcome>>
    BY <1>1, <1>3 DEF AddRequirement
  <2>2. d.name \in Pkgs /\ d.spec \in Text /\ asking.by \in Names /\ asking.left \in Seq(Request)
    BY DEF Request, Shape, TypeOK
  <2>3. PICK r \in [by : Names, spec : Text] : r = [by |-> asking.by, spec |-> d.spec]
    BY <2>2
  <2>4. /\ \A p \in Pkgs : reqs'[p] = IF p = d.name THEN reqs[p] \cup {r} ELSE reqs[p]
        /\ reqs' \in [Pkgs -> SUBSET [by : Names, spec : Text]]
    BY <2>1, <2>2, <2>3 DEF Shape, TypeOK
  <2>5. /\ \A n \in Names : edges'[n] = IF n = asking.by THEN Append(edges[n], d.name) ELSE edges[n]
        /\ \A n \in Names : edges[n] \in Seq(Pkgs)
    BY <2>1, <2>2 DEF Shape, TypeOK
  <2>6. /\ \A n \in Names : ToSet(edges'[n]) = IF n = asking.by THEN ToSet(edges[n]) \cup {d.name}
                                               ELSE ToSet(edges[n])
        /\ \A n \in Names : edges'[n] \in Seq(Pkgs)
    <3>1. ASSUME NEW n \in Names
          PROVE  /\ Append(edges[n], d.name) \in Seq(Pkgs)
                 /\ ToSet(Append(edges[n], d.name)) = ToSet(edges[n]) \cup {d.name}
      BY <2>2, <2>5, OneMore
    <3> QED
      BY <2>5, <3>1
  <2>7. edges' \in [Names -> Seq(Pkgs)]
    <3>1. Append(edges[asking.by], d.name) \in Seq(Pkgs) /\ edges \in [Names -> Seq(Pkgs)]
      BY <2>2, <2>5, <2>6, OneMore DEF Shape, TypeOK
    <3> QED
      BY <2>1, <2>2, <3>1
  <2>8. /\ dirty' \in Seq(Pkgs) /\ IsInjective(dirty')
        /\ ToSet(dirty') = ToSet(dirty) \cup {d.name}
    BY <2>1, <2>2, OneMore DEF Enqueue, Shape, TypeOK
  <2>9. asking' \in [by : Names, left : Seq(Request)] /\ asking'.by = asking.by /\ asking'.left = Tail(asking.left)
    <3>1. asking \in [by : Names, left : Seq(Request)] /\ Tail(asking.left) \in Seq(Request)
      BY <2>2, OneLess DEF AddRequirement, Shape, TypeOK
    <3> QED
      BY <2>1, <3>1
  <2>10. ToSet(asking.left) = ToSet(asking'.left) \cup {d}
    BY <1>1, <2>2, <2>9, OneLess DEF AddRequirement
  <2> QED
    BY <1>3, <2>1, <2>3, <2>4, <2>6, <2>7, <2>8, <2>9, <2>10
<1> QED
  BY <1>2, <1>3

\* A turn that does not throw takes a version from the queue's first name, the newest accepted.
LEMMA VersionTaken ==
    ASSUME Shape, Look
    PROVE  \/ \E error \in Errors : Throw(error)
           \/ \E n \in Pkgs, v \in Version :
                 /\ n \in ToSet(dirty) /\ dirty' \in Seq(Pkgs) /\ IsInjective(dirty')
                 /\ ToSet(dirty') = ToSet(dirty) \ {n}
                 /\ v \in Accepted(n) /\ \A w \in Accepted(n) : NotNewer(w, v)
                 /\ resolved' = [resolved EXCEPT ![n] = v]
                 /\ \/ asking' = asking /\ v = resolved[n]
                    \/ asking' = [by |-> n, left |-> universe.deps[n][v]]
                 /\ UNCHANGED <<universe, reqs, edges, stack, order, outcome>>
<1> SUFFICES ASSUME \A error \in Errors : ~Throw(error)
             PROVE  \E n \in Pkgs, v \in Version :
                       /\ n \in ToSet(dirty) /\ dirty' \in Seq(Pkgs) /\ IsInjective(dirty')
                       /\ ToSet(dirty') = ToSet(dirty) \ {n}
                       /\ v \in Accepted(n) /\ \A w \in Accepted(n) : NotNewer(w, v)
                       /\ resolved' = [resolved EXCEPT ![n] = v]
                       /\ \/ asking' = asking /\ v = resolved[n]
                          \/ asking' = [by |-> n, left |-> universe.deps[n][v]]
                       /\ UNCHANGED <<universe, reqs, edges, stack, order, outcome>>
  OBVIOUS
<1>1. PICK n \in Pkgs : n = Head(dirty) /\ Accepted(n) # {} /\ Choose(n, Newest(Accepted(n)))
  BY LookTakesNewest
<1>2. Accepted(n) \subseteq Version /\ IsFiniteSet(Accepted(n))
  BY FittingIsAccepted
<1>3. PICK v \in Version : /\ v = Newest(Accepted(n)) /\ v \in Accepted(n)
                           /\ \A w \in Accepted(n) : NotNewer(w, v)
  BY <1>1, <1>2, NewestIsNewest
<1>4. dirty \in Seq(Pkgs) /\ IsInjective(dirty) /\ dirty # <<>>
  BY DEF Look, Shape, TypeOK
<1>5. /\ Tail(dirty) \in Seq(Pkgs) /\ IsInjective(Tail(dirty)) /\ n \in ToSet(dirty)
      /\ ToSet(Tail(dirty)) = ToSet(dirty) \ {n}
  BY <1>1, <1>4, OneLess
<1>6. ~Throw("refused")
  BY DEF Errors
<1>7. CASE v = resolved[n]
  <2>1. dirty' = Tail(dirty) /\ UNCHANGED <<universe, reqs, edges, resolved, asking, stack, order, outcome>>
    BY <1>1, <1>3, <1>7 DEF Choose
  <2>2. resolved' = [resolved EXCEPT ![n] = v]
    BY <1>7, <2>1 DEF Shape
  <2> QED
    BY <1>3, <1>5, <1>7, <2>1, <2>2
<1>8. CASE v # resolved[n]
  <2>1. /\ dirty' = Tail(dirty)
        /\ resolved' = [resolved EXCEPT ![n] = v]
        /\ asking' = [by |-> n, left |-> universe.deps[n][v]]
        /\ UNCHANGED <<universe, reqs, edges, stack, order, outcome>>
    BY <1>1, <1>3, <1>6, <1>8 DEF Choose
  <2> QED
    BY <1>3, <1>5, <2>1
<1> QED
  BY <1>7, <1>8

Typed == Shape /\ Queued /\ Stages

\* A resolution begins with nothing asked and nothing chosen.
LEMMA InitTyped == Init => Typed
<1> SUFFICES ASSUME Init PROVE Typed
  OBVIOUS
<1>1. /\ \A p \in Pkgs : reqs[p] = {} /\ resolved[p] = None
      /\ dirty = <<>> /\ order = <<>> /\ stack = <<>> /\ ToSet(dirty) = {} /\ asking.left = <<>>
      /\ outcome = "starting"
  BY DEF Init, ToSet
<1>2. TypeOK
  <2>1. Root \in Names /\ <<>> \in Seq(Request) /\ IsInjective(dirty)
    BY <1>1 DEF Names, IsInjective
  <2>2. reqs \in [Pkgs -> SUBSET [by : Names, spec : Text]] /\ edges \in [Names -> Seq(Pkgs)]
    BY DEF Init
  <2> QED
    BY <1>1, <2>1, <2>2 DEF Init, TypeOK
<1>3. Shape
  <2>1. resolved \in [Pkgs -> Version \cup {None}] /\ universe \in Universes
    BY DEF Init
  <2> QED
    BY <1>1, <1>2, <2>1, FS_EmptySet DEF Shape
<1>4. Queued /\ Stages
  BY <1>1 DEF Queued, Stages
<1> QED
  BY <1>3, <1>4 DEF Typed

\* Every step keeps the shapes, and what waits or is chosen was asked for.
LEMMA NextTyped == Typed /\ [Next]_vars => Typed'
<1> SUFFICES ASSUME Typed, [Next]_vars PROVE Typed'
  OBVIOUS
<1>a. TypeOK /\ Shape /\ Queued /\ Stages
  BY DEF Typed, Shape
<1>1. ASSUME UNCHANGED <<universe, reqs, edges, dirty, resolved, asking, stack, order>>, outcome' \in Errors
      PROVE  Typed'
  <2>1. TypeOK'
    BY <1>a, <1>1 DEF TypeOK
  <2>2. Shape'
    BY <1>a, <1>1, <2>1 DEF Shape
  <2>3. Queued' /\ Stages'
    BY <1>a, <1>1 DEF Queued, Stages, Errors
  <2> QED
    BY <2>2, <2>3 DEF Typed
<1>2. CASE Begin
  <2>1. asking' \in [by : Names, left : Seq(Request)]
    <3>1. universe.root \in Seq(Request) /\ Root \in Names
      BY <1>a, RegistryAssumption DEF Shape, Names
    <3> QED
      BY <1>2, <3>1 DEF Begin
  <2>2. /\ UNCHANGED <<universe, reqs, edges, dirty, resolved, stack, order>>
        /\ outcome = "starting" /\ outcome' = "running"
    BY <1>2 DEF Begin
  <2>3. TypeOK'
    BY <1>a, <2>1, <2>2 DEF TypeOK
  <2>4. Shape'
    BY <1>a, <2>2, <2>3 DEF Shape
  <2>5. Queued' /\ Stages'
    BY <1>a, <2>2 DEF Queued, Stages
  <2> QED
    BY <2>4, <2>5 DEF Typed
<1>3. CASE AddRequirement
  <2>1. CASE Throw("invalid constraint")
    BY <1>1, <2>1 DEF Throw, Errors
  <2>2. ASSUME NEW d \in Request, NEW r \in [by : Names, spec : Text],
               /\ r = [by |-> asking.by, spec |-> d.spec] /\ WellFormed(d.spec)
               /\ \A p \in Pkgs : reqs'[p] = IF p = d.name THEN reqs[p] \cup {r} ELSE reqs[p]
               /\ reqs' \in [Pkgs -> SUBSET [by : Names, spec : Text]]
               /\ \A n \in Names : ToSet(edges'[n]) = IF n = asking.by THEN ToSet(edges[n]) \cup {d.name}
                                                      ELSE ToSet(edges[n])
               /\ edges' \in [Names -> Seq(Pkgs)]
               /\ dirty' \in Seq(Pkgs) /\ IsInjective(dirty')
               /\ ToSet(dirty') = ToSet(dirty) \cup {d.name}
               /\ asking' \in [by : Names, left : Seq(Request)] /\ asking'.by = asking.by
               /\ ToSet(asking.left) = ToSet(asking'.left) \cup {d}
               /\ UNCHANGED <<universe, resolved, stack, order, outcome>>
        PROVE  Typed'
    <3>1. d.name \in Pkgs /\ r.by = asking.by /\ r.spec = d.spec /\ outcome = "running"
      BY <1>3, <2>2 DEF Request, AddRequirement
    <3>2. ASSUME NEW p \in Pkgs
          PROVE  /\ resolved'[p] \in universe'.versions[p] \cup {None}
                 /\ resolved'[p] # None => reqs'[p] # {}
                 /\ \A q \in reqs'[p] : WellFormed(q.spec) /\ p \in ToSet(edges'[q.by])
      <4>1. resolved'[p] \in universe'.versions[p] \cup {None} /\ (resolved'[p] # None => reqs'[p] # {})
        BY <1>a, <2>2 DEF TypeOK
      <4>2. ASSUME NEW q \in reqs'[p] PROVE WellFormed(q.spec) /\ p \in ToSet(edges'[q.by])
        <5>1. q.by \in Names
          BY <2>2
        <5>2. CASE q \in reqs[p]
          <6>1. WellFormed(q.spec) /\ p \in ToSet(edges[q.by])
            BY <1>a, <5>2 DEF TypeOK
          <6> QED
            BY <2>2, <5>1, <6>1
        <5>3. CASE q = r /\ p = d.name
          BY <2>2, <3>1, <5>1, <5>3
        <5> QED
          BY <2>2, <4>2, <5>2, <5>3
      <4> QED
        BY <4>1, <4>2
    <3>3. TypeOK'
      BY <1>a, <2>2, <3>2 DEF TypeOK
    <3>4. \A p \in Pkgs : IsFiniteSet(reqs'[p])
      <4>1. \A p \in Pkgs : IsFiniteSet(reqs[p]) /\ IsFiniteSet(reqs[p] \cup {r})
        BY <1>a, FS_AddElement DEF Shape
      <4> QED
        BY <2>2, <4>1
    <3>5. Shape'
      BY <1>a, <2>2, <3>3, <3>4 DEF Shape
    <3>6. Queued'
      <4> SUFFICES ASSUME NEW p \in Pkgs
                   PROVE  reqs'[p] # {} <=> resolved'[p] # None \/ p \in ToSet(dirty')
        BY DEF Queued
      <4>1. reqs[p] # {} <=> resolved[p] # None \/ p \in ToSet(dirty)
        BY <1>a DEF Queued
      <4>2. CASE p = d.name
        BY <2>2, <4>2
      <4>3. CASE p # d.name
        BY <2>2, <4>1, <4>3
      <4> QED
        BY <4>2, <4>3
    <3>7. Stages'
      BY <1>a, <2>2, <3>1 DEF Stages
    <3> QED
      BY <3>5, <3>6, <3>7 DEF Typed
  <2> QED
    BY <1>a, <1>3, <2>1, <2>2, RequestHeard
<1>4. CASE Look
  <2>1. CASE \E error \in Errors : Throw(error)
    BY <1>1, <2>1 DEF Throw
  <2>2. ASSUME NEW n \in Pkgs, NEW v \in Version,
               /\ n \in ToSet(dirty) /\ dirty' \in Seq(Pkgs) /\ IsInjective(dirty')
               /\ ToSet(dirty') = ToSet(dirty) \ {n}
               /\ v \in Accepted(n)
               /\ resolved' = [resolved EXCEPT ![n] = v]
               /\ \/ asking' = asking /\ v = resolved[n]
                  \/ asking' = [by |-> n, left |-> universe.deps[n][v]]
               /\ UNCHANGED <<universe, reqs, edges, stack, order, outcome>>
        PROVE  Typed'
    <3>1. v \in universe.versions[n] /\ v # None
      BY <2>2, VersionIsNotNone DEF Accepted, None
    <3>2. asking' \in [by : Names, left : Seq(Request)]
      <4>1. universe.deps[n][v] \in Seq(Request) /\ n \in Names
        BY <1>a, <3>1, RegistryAssumption DEF Shape, Names
      <4>2. asking \in [by : Names, left : Seq(Request)]
        BY <1>a DEF TypeOK
      <4> QED
        BY <2>2, <4>1, <4>2
    <3>3. /\ \A p \in Pkgs : resolved'[p] = IF p = n THEN v ELSE resolved[p]
          /\ resolved' \in [Pkgs -> Version \cup {None}]
      BY <1>a, <2>2 DEF Shape
    <3>4. reqs[n] # {}
      BY <1>a, <2>2 DEF Queued
    <3>5. \A p \in Pkgs : /\ resolved'[p] \in universe'.versions[p] \cup {None}
                          /\ resolved'[p] # None => reqs'[p] # {}
                          /\ \A q \in reqs'[p] : WellFormed(q.spec) /\ p \in ToSet(edges'[q.by])
      BY <1>a, <2>2, <3>1, <3>3, <3>4 DEF TypeOK
    <3>6. TypeOK'
      BY <1>a, <2>2, <3>2, <3>5 DEF TypeOK
    <3>7. Shape'
      BY <1>a, <2>2, <3>3, <3>6 DEF Shape
    <3>8. Queued'
      BY <1>a, <2>2, <3>1, <3>3, <3>4 DEF Queued
    <3>9. Stages'
      BY <1>4, <1>a, <2>2 DEF Stages, Look
    <3> QED
      BY <3>7, <3>8, <3>9 DEF Typed
  <2> QED
    BY <1>a, <1>4, <2>1, <2>2, VersionTaken
<1>5. ASSUME stack' \in Seq([node : Names, left : Seq(Pkgs)]), order' \in Seq(Pkgs),
             outcome' \in {"emitting", "ok"}, outcome' = "emitting" => stack' # <<>>,
             asking.left = <<>>, dirty = <<>>,
             UNCHANGED <<universe, reqs, edges, dirty, resolved, asking>>
      PROVE  Typed'
  <2>1. TypeOK'
    BY <1>a, <1>5 DEF TypeOK
  <2>2. Shape'
    BY <1>a, <1>5, <2>1 DEF Shape
  <2>3. Queued' /\ Stages'
    BY <1>a, <1>5 DEF Queued, Stages
  <2> QED
    BY <2>2, <2>3 DEF Typed
<1>6. CASE Finish
  <2>1. CASE Throw("cycle")
    BY <1>1, <2>1 DEF Throw, Errors
  <2>2. CASE ~Throw("cycle")
    <3>1. /\ outcome' = "emitting" /\ stack' = <<Call(Root)>> /\ asking.left = <<>> /\ dirty = <<>>
          /\ UNCHANGED <<universe, reqs, edges, dirty, resolved, asking, order>>
      BY <1>6, <2>2 DEF Finish
    <3>2. Call(Root) \in [node : Names, left : Seq(Pkgs)]
      BY <1>a DEF Call, TypeOK, Names
    <3>3. stack' \in Seq([node : Names, left : Seq(Pkgs)]) /\ stack' # <<>>
      BY <3>1, <3>2
    <3> QED
      BY <1>5, <1>a, <3>1, <3>3 DEF TypeOK
  <2> QED
    BY <2>1, <2>2
<1>7. CASE EmitNext
  <2>1. stack \in Seq([node : Names, left : Seq(Pkgs)]) /\ stack # <<>> /\ asking.left = <<>> /\ dirty = <<>>
    BY <1>7, <1>a DEF EmitNext, Stages, TypeOK
  <2> DEFINE next == Head(Last(stack).left)
             rest == [stack EXCEPT ![Len(stack)].left = Tail(@)]
  <2>2. PICK n \in Nat \ {0} : n = Len(stack) /\ Last(stack) = stack[n] /\ stack[n] \in [node : Names, left : Seq(Pkgs)]
    BY <2>1, LastGone
  <2>3. next \in Pkgs /\ Tail(stack[n].left) \in Seq(Pkgs)
    BY <1>7, <2>2, OneLess DEF EmitNext
  <2>4. rest \in Seq([node : Names, left : Seq(Pkgs)]) /\ Len(rest) = n
    <3>1. PICK top \in [node : Names, left : Seq(Pkgs)] : top = [stack[n] EXCEPT !.left = Tail(@)]
      BY <2>2, <2>3
    <3>2. rest = [stack EXCEPT ![n] = top]
      BY <2>2, <3>1
    <3> QED
      BY <2>1, <2>2, <3>1, <3>2
  <2>5. Call(next) \in [node : Names, left : Seq(Pkgs)]
    BY <1>a, <2>3 DEF Call, TypeOK, Names
  <2>6. stack' = rest \/ stack' = Append(rest, Call(next))
    BY <1>7 DEF EmitNext
  <2>7. outcome' = "emitting" /\ UNCHANGED <<universe, reqs, edges, dirty, resolved, asking, order>>
    BY <1>7 DEF EmitNext
  <2> HIDE DEF next, rest
  <2>8. stack' \in Seq([node : Names, left : Seq(Pkgs)]) /\ stack' # <<>>
    <3>1. CASE stack' = rest
      BY <2>2, <2>4, <3>1, EmptySeq
    <3>2. CASE stack' = Append(rest, Call(next))
      BY <2>4, <2>5, <3>2, AppendProperties
    <3> QED
      BY <2>6, <3>1, <3>2
  <2> QED
    BY <1>5, <1>a, <2>1, <2>7, <2>8 DEF TypeOK
<1>8. CASE EmitReturn
  <2>1. stack \in Seq([node : Names, left : Seq(Pkgs)]) /\ stack # <<>> /\ asking.left = <<>> /\ dirty = <<>>
    BY <1>8, <1>a DEF EmitReturn, Stages, TypeOK
  <2>2. PICK n \in Nat \ {0} :
           /\ n = Len(stack) /\ Last(stack) = stack[n] /\ stack[n] \in [node : Names, left : Seq(Pkgs)]
           /\ Front(stack) \in Seq([node : Names, left : Seq(Pkgs)]) /\ Len(Front(stack)) = n - 1
    <3>1. PICK S : S = [node : Names, left : Seq(Pkgs)]
      OBVIOUS
    <3>2. stack \in Seq(S)
      BY <2>1, <3>1
    <3>3. \E n \in Nat \ {0} :
             /\ n = Len(stack) /\ Last(stack) = stack[n] /\ stack[n] \in S
             /\ Front(stack) \in Seq(S) /\ Len(Front(stack)) = n - 1
      BY <2>1, <3>2, LastGone
    <3> QED
      BY <3>1, <3>3
  <2>3. /\ stack' = Front(stack) /\ outcome' = (IF n = 1 THEN "ok" ELSE "emitting")
        /\ order' = (IF stack[n].node = Root THEN order ELSE Append(order, stack[n].node))
        /\ UNCHANGED <<universe, reqs, edges, dirty, resolved, asking>>
    BY <1>8, <2>2 DEF EmitReturn
  <2>4. order' \in Seq(Pkgs)
    <3>1. stack[n].node \in Names /\ order \in Seq(Pkgs)
      BY <1>a, <2>2 DEF TypeOK
    <3> QED
      BY <2>3, <3>1, AppendProperties DEF Names
  <2>5. outcome' = "emitting" => stack' # <<>>
    BY <2>2, <2>3, EmptySeq
  <2>6. outcome' \in {"emitting", "ok"}
    BY <2>3
  <2> QED
    BY <1>5, <2>1, <2>2, <2>3, <2>4, <2>5, <2>6
<1>9. CASE UNCHANGED vars
  <2>1. TypeOK'
    BY <1>a, <1>9 DEF TypeOK, vars
  <2>2. Shape'
    BY <1>a, <1>9, <2>1 DEF Shape, vars
  <2>3. Queued' /\ Stages'
    BY <1>a, <1>9 DEF Queued, Stages, vars
  <2> QED
    BY <2>2, <2>3 DEF Typed
<1> QED
  BY <1>2, <1>3, <1>4, <1>6, <1>7, <1>8, <1>9 DEF Next

\* Names queue once, versions are the registry's, and every requirement
\* recorded is well formed and has its edge (resolver.cpp:94-103, 146-147).
THEOREM ResolverTypes == Spec => []TypeOK
<1>1. Typed => TypeOK
  BY DEF Typed, Shape
<1> QED
  BY <1>1, InitTyped, NextTyped, PTL DEF Spec

\* Nothing is chosen at first.
LEMMA InitNewest == Init => NewestOfAccepted
BY DEF Init, NewestOfAccepted

\* A new request sends its name back to the queue; a turn takes the newest.
LEMMA NextNewest == Typed /\ NewestOfAccepted /\ [Next]_vars => NewestOfAccepted'
<1> SUFFICES ASSUME Typed, NewestOfAccepted, [Next]_vars PROVE NewestOfAccepted'
  OBVIOUS
<1>a. Shape /\ Queued /\ Stages
  BY DEF Typed
<1> DEFINE Best(p) == resolved[p] \in Accepted(p) /\ \A w \in Accepted(p) : NotNewer(w, resolved[p])
<1>b. ASSUME outcome \in {"running", "emitting", "ok"}, NEW p \in Pkgs, resolved[p] # None, p \notin ToSet(dirty)
      PROVE  Best(p)
  BY <1>b DEF NewestOfAccepted
<1>c. SUFFICES ASSUME NEW p \in Pkgs, outcome' \in {"running", "emitting", "ok"},
                      resolved'[p] # None, p \notin ToSet(dirty')
               PROVE  Best(p)'
  BY DEF NewestOfAccepted
<1>d. UNCHANGED <<universe, reqs>> => Accepted(p)' = Accepted(p)
  BY DEF Accepted
<1>1. CASE UNCHANGED <<universe, reqs, dirty, resolved>> /\ outcome \in {"running", "emitting", "ok"}
  <2>1. Best(p)
    BY <1>1, <1>b, <1>c
  <2> QED
    BY <1>1, <1>d, <2>1
<1>2. CASE Begin
  BY <1>2, <1>a, <1>c DEF Begin, Stages
<1>3. CASE AddRequirement
  <2>1. CASE Throw("invalid constraint")
    BY <1>c, <2>1 DEF Throw
  <2>2. ASSUME NEW d \in Request, NEW r \in [by : Names, spec : Text],
               \A q \in Pkgs : reqs'[q] = IF q = d.name THEN reqs[q] \cup {r} ELSE reqs[q],
               ToSet(dirty') = ToSet(dirty) \cup {d.name},
               UNCHANGED <<universe, resolved, stack, order, outcome>>
        PROVE  Best(p)'
    <3>1. p # d.name /\ p \notin ToSet(dirty) /\ resolved[p] # None
      BY <1>c, <2>2
    <3>2. reqs'[p] = reqs[p] /\ universe' = universe /\ resolved'[p] = resolved[p]
      BY <2>2, <3>1
    <3>3. Accepted(p)' = Accepted(p)
      BY <3>2 DEF Accepted
    <3>4. Best(p)
      BY <1>b, <1>c, <2>2, <3>1
    <3> QED
      BY <3>2, <3>3, <3>4
  <2> QED
    BY <1>a, <1>3, <2>1, <2>2, RequestHeard
<1>4. CASE Look
  <2>1. CASE \E error \in Errors : Throw(error)
    BY <1>c, <2>1 DEF Throw, Errors
  <2>2. ASSUME NEW n \in Pkgs, NEW v \in Version,
               ToSet(dirty') = ToSet(dirty) \ {n},
               v \in Accepted(n) /\ \A w \in Accepted(n) : NotNewer(w, v),
               resolved' = [resolved EXCEPT ![n] = v],
               UNCHANGED <<universe, reqs, edges, stack, order, outcome>>
        PROVE  Best(p)'
    <3>1. resolved'[p] = IF p = n THEN v ELSE resolved[p]
      BY <1>a, <2>2 DEF Shape
    <3>2. Accepted(p)' = Accepted(p)
      BY <1>d, <2>2
    <3>3. CASE p = n
      BY <2>2, <3>1, <3>2, <3>3
    <3>4. CASE p # n
      <4>1. Best(p)
        BY <1>b, <1>c, <2>2, <3>1, <3>4
      <4> QED
        BY <3>1, <3>2, <3>4, <4>1
    <3> QED
      BY <3>3, <3>4
  <2> QED
    BY <1>a, <1>4, <2>1, <2>2, VersionTaken
<1>5. CASE Finish
  <2>1. CASE Throw("cycle")
    BY <1>c, <2>1 DEF Throw
  <2>2. CASE ~Throw("cycle")
    BY <1>1, <1>5, <2>2 DEF Finish
  <2> QED
    BY <2>1, <2>2
<1>6. CASE EmitNext
  BY <1>1, <1>6 DEF EmitNext
<1>7. CASE EmitReturn
  BY <1>1, <1>7 DEF EmitReturn
<1>8. CASE UNCHANGED vars
  BY <1>1, <1>8, <1>c DEF vars
<1> QED
  BY <1>2, <1>3, <1>4, <1>5, <1>6, <1>7, <1>8 DEF Next

\* After every step, a name that is not waiting has the newest version that
\* all the constraints put on it so far accept: the intersection, an interval
\* folded together end by end, loses nothing and lets nothing in
\* (resolver.cpp:33-70, 147-180).
THEOREM ChosenIsNewest == Spec => []NewestOfAccepted
<1> QED
  BY InitTyped, NextTyped, InitNewest, NextNewest, PTL DEF Spec

\* A resolution that succeeds never takes, for a caret constraint, a release
\* with another leading number (semver.cpp:138-158).
THEOREM CaretsHold == Spec => []CaretKeepsLeading
<1>1. Typed /\ NewestOfAccepted => CaretKeepsLeading
  <2> SUFFICES ASSUME Typed, NewestOfAccepted, outcome = "ok", NEW p \in Pkgs, NEW r \in reqs[p],
                      r.spec.op = "^", resolved[p][4] = 0
               PROVE  \A i \in 1 .. Leading(Padded(r.spec.parts)) : resolved[p][i] = Padded(r.spec.parts)[i]
    BY DEF CaretKeepsLeading
  <2>1. r.spec \in Text /\ WellFormed(r.spec)
    BY DEF Typed, Shape, TypeOK
  <2>2. resolved[p] # None /\ p \notin ToSet(dirty)
    BY DEF Typed, Queued, Stages, ToSet
  <2>3. resolved[p] \in Accepted(p)
    BY <2>2 DEF NewestOfAccepted
  <2>4. resolved[p] \in Version /\ Matches(Parse(r.spec), resolved[p])
    BY <2>2, <2>3 DEF Accepted, Typed, Shape
  <2> QED
    BY <2>1, <2>4, CaretBounds
<1> QED
  BY <1>1, InitTyped, NextTyped, InitNewest, NextNewest, PTL DEF Spec

-----------------------------------------------------------------------------
(* Nothing that a chosen version asks for is forgotten                     *)

HeardOf(n, d) == [by |-> n, spec |-> d.spec] \in reqs[d.name] \/ (asking.by = n /\ d \in ToSet(asking.left))

\* The requests of the project and of every version chosen are recorded, or
\* are among those still to be added.
Heard ==
    /\ outcome # "starting" => \A i \in DOMAIN universe.root : HeardOf(Root, universe.root[i])
    /\ \A p \in Pkgs : \A i \in DOMAIN DepsOf(p) : HeardOf(p, DepsOf(p)[i])

\* Nothing is asked before the project's requests are read.
LEMMA InitHeard == Init => Heard
BY DEF Init, Heard, DepsOf

\* A list of requests is one of the registry's.
LEMMA DepsAreRequests ==
    ASSUME Shape
    PROVE  /\ universe.root \in Seq(Request)
           /\ \A p \in Pkgs : DepsOf(p) \in Seq(Request)
<1>1. universe \in Universes
  BY DEF Shape
<1>2. ASSUME NEW p \in Pkgs PROVE DepsOf(p) \in Seq(Request)
  <2>1. CASE resolved[p] = None
    BY <2>1 DEF DepsOf
  <2>2. CASE resolved[p] # None
    <3>1. resolved[p] \in universe.versions[p]
      BY <2>2 DEF Shape, TypeOK
    <3> QED
      BY <1>1, <2>2, <3>1, RegistryAssumption DEF DepsOf
  <2> QED
    BY <2>1, <2>2
<1> QED
  BY <1>1, <1>2, RegistryAssumption

\* A step adds the requests of what it chose, or moves one to its place.
LEMMA NextHeard == Typed /\ Heard /\ [Next]_vars => Heard'
<1> SUFFICES ASSUME Typed, Heard, [Next]_vars PROVE Heard'
  OBVIOUS
<1>a. Shape /\ Stages
  BY DEF Typed
<1>b. universe.root \in Seq(Request) /\ \A p \in Pkgs : DepsOf(p) \in Seq(Request)
  BY <1>a, DepsAreRequests
<1>1. ASSUME UNCHANGED <<universe, reqs, resolved, asking>>, outcome # "starting" \/ outcome' = outcome
      PROVE  Heard'
  BY <1>1 DEF Heard, HeardOf, DepsOf
<1>2. CASE Begin
  <2>1. /\ asking.left = <<>> /\ asking'.by = Root /\ asking'.left = universe.root
        /\ UNCHANGED <<universe, reqs, resolved>> /\ \A p \in Pkgs : resolved[p] = None
    BY <1>2, <1>a DEF Begin, Stages
  <2>2. \A i \in DOMAIN universe.root : universe.root[i] \in ToSet(asking'.left)
    BY <2>1 DEF ToSet
  <2>3. \A p \in Pkgs : DepsOf(p)' = <<>>
    BY <2>1 DEF DepsOf
  <2> QED
    BY <2>1, <2>2, <2>3 DEF Heard, HeardOf
<1>3. CASE AddRequirement
  <2>1. CASE Throw("invalid constraint")
    BY <1>1, <1>3, <2>1 DEF Throw, AddRequirement
  <2>2. ASSUME NEW d \in Request, NEW r \in [by : Names, spec : Text],
               r = [by |-> asking.by, spec |-> d.spec],
               \A p \in Pkgs : reqs'[p] = IF p = d.name THEN reqs[p] \cup {r} ELSE reqs[p],
               asking'.by = asking.by, ToSet(asking.left) = ToSet(asking'.left) \cup {d},
               UNCHANGED <<universe, resolved, stack, order, outcome>>
        PROVE  Heard'
    <3>1. ASSUME NEW n, NEW e \in Request, HeardOf(n, e) PROVE HeardOf(n, e)'
      <4>1. e.name \in Pkgs
        BY DEF Request
      <4>2. CASE [by |-> n, spec |-> e.spec] \in reqs[e.name]
        BY <2>2, <4>1, <4>2 DEF HeardOf
      <4>3. CASE asking.by = n /\ e \in ToSet(asking'.left)
        BY <2>2, <4>3 DEF HeardOf
      <4>4. CASE asking.by = n /\ e = d
        BY <2>2, <4>1, <4>4 DEF HeardOf
      <4> QED
        BY <2>2, <3>1, <4>2, <4>3, <4>4 DEF HeardOf
    <3>2. outcome' # "starting" => \A i \in DOMAIN universe'.root : HeardOf(Root, universe.root[i])'
      <4>1. \A i \in DOMAIN universe.root : universe.root[i] \in Request
        BY <1>b
      <4> QED
        BY <2>2, <3>1, <4>1 DEF Heard
    <3>3. ASSUME NEW p \in Pkgs, NEW i \in DOMAIN DepsOf(p)' PROVE HeardOf(p, DepsOf(p)[i])'
      <4>1. DepsOf(p)' = DepsOf(p)
        BY <2>2 DEF DepsOf
      <4>2. PICK e \in Request : e = DepsOf(p)[i]
        BY <1>b, <3>3, <4>1
      <4>3. HeardOf(p, e)
        BY <3>3, <4>1, <4>2 DEF Heard
      <4>4. HeardOf(p, e)'
        BY <3>1, <4>3
      <4> QED
        BY <4>1, <4>2, <4>4 DEF HeardOf
    <3> QED
      BY <2>2, <3>2, <3>3 DEF Heard, HeardOf
  <2> QED
    BY <1>a, <1>3, <2>1, <2>2, RequestHeard
<1>4. CASE Look
  <2>1. asking.left = <<>> /\ outcome = "running"
    BY <1>4 DEF Look
  <2>2. CASE \E error \in Errors : Throw(error)
    BY <1>1, <2>1, <2>2 DEF Throw
  <2>3. ASSUME NEW n \in Pkgs, NEW v \in Version,
               resolved' = [resolved EXCEPT ![n] = v],
               \/ asking' = asking /\ v = resolved[n]
               \/ asking' = [by |-> n, left |-> universe.deps[n][v]],
               UNCHANGED <<universe, reqs, edges, stack, order, outcome>>
        PROVE  Heard'
    <3>1. \A p \in Pkgs : resolved'[p] = IF p = n THEN v ELSE resolved[p]
      BY <1>a, <2>3 DEF Shape
    <3>2. ASSUME NEW m, NEW e, HeardOf(m, e) PROVE HeardOf(m, e)'
      BY <2>1, <2>3, <3>2 DEF HeardOf, ToSet
    <3>3. outcome' # "starting" => \A i \in DOMAIN universe'.root : HeardOf(Root, universe.root[i])'
      BY <2>3, <3>2 DEF Heard
    <3>4. ASSUME NEW p \in Pkgs, NEW i \in DOMAIN DepsOf(p)' PROVE HeardOf(p, DepsOf(p)[i])'
      <4>1. CASE resolved'[p] = resolved[p]
        <5>1. DepsOf(p)' = DepsOf(p)
          BY <2>3, <4>1 DEF DepsOf
        <5>2. PICK e : e = DepsOf(p)[i]
          OBVIOUS
        <5>3. HeardOf(p, e)'
          BY <3>2, <3>4, <5>1, <5>2 DEF Heard
        <5> QED
          BY <5>1, <5>2, <5>3 DEF HeardOf
      <4>2. CASE resolved'[p] # resolved[p]
        <5>1. p = n /\ resolved'[p] = v /\ asking' = [by |-> n, left |-> universe.deps[n][v]]
          BY <2>3, <3>1, <4>2
        <5>2. DepsOf(p)' = asking'.left
          BY <2>3, <5>1, VersionIsNotNone DEF DepsOf, None
        <5>3. DepsOf(p)'[i] \in ToSet(asking'.left)
          BY <3>4, <5>2 DEF ToSet
        <5> QED
          BY <5>1, <5>3 DEF HeardOf
      <4> QED
        BY <4>1, <4>2
    <3> QED
      BY <2>3, <3>3, <3>4 DEF Heard, HeardOf
  <2> QED
    BY <1>a, <1>4, <2>2, <2>3, VersionTaken
<1>5. CASE Finish
  BY <1>1, <1>5 DEF Finish, Throw
<1>6. CASE EmitNext
  BY <1>1, <1>6 DEF EmitNext
<1>7. CASE EmitReturn
  BY <1>1, <1>7 DEF EmitReturn
<1>8. CASE UNCHANGED vars
  BY <1>1, <1>8 DEF vars
<1> QED
  BY <1>2, <1>3, <1>4, <1>5, <1>6, <1>7, <1>8 DEF Next

-----------------------------------------------------------------------------
(* The walk lists dependencies first                                       *)

\* What leads where: every name of a set, and on along every edge.
LEMMA ReachedGoesOn ==
    ASSUME NEW graph \in [Names -> Seq(Pkgs)], NEW from, from \subseteq Names
    PROVE  /\ from \subseteq Reached(graph, from) /\ Reached(graph, from) \subseteq Names
           /\ \A n \in Reached(graph, from) : ToSet(graph[n]) \subseteq Reached(graph, from)
<1>1. from \subseteq Reached(graph, from) /\ Reached(graph, from) \subseteq Names
  BY DEF Reached
<1>2. ASSUME NEW n \in Reached(graph, from), NEW m \in ToSet(graph[n]) PROVE m \in Reached(graph, from)
  <2>1. n \in Names /\ m \in Names
    BY <1>1, SetOfList DEF Names
  <2>2. ASSUME NEW ns \in SUBSET Names, from \subseteq ns, Closed(graph, ns) PROVE m \in ns
    BY <2>2 DEF Reached, Closed
  <2> QED
    BY <2>1, <2>2 DEF Reached
<1> QED
  BY <1>1, <1>2

\* The calls of emit in progress are a path from the project on, and what a
\* call has left behind is listed or on that path.
OnPath(graph, calls, list, k) ==
    /\ k = 1 <=> calls[k].node = Root
    /\ calls[k].node \in Reached(graph, {Root})
    /\ ToSet(calls[k].left) \subseteq ToSet(graph[calls[k].node])
    /\ \A l \in 1 .. k - 1 : calls[k].node \in Reached(graph, ToSet(graph[calls[l].node]))
    /\ \A m \in ToSet(graph[calls[k].node]) :
          \/ m \in ToSet(calls[k].left) \cup ToSet(list)
          \/ \E l \in k + 1 .. Len(calls) : calls[l].node = m
Walk ==
    outcome = "emitting" =>
        ~Circular /\ \A k \in 1 .. Len(stack) : OnPath(edges, stack, order, k)

\* A package is listed after everything it asked for, and at the end nothing
\* the project asked for is missing.
AfterItsOwn(graph, list) ==
    \A k \in 1 .. Len(list) : \A m \in ToSet(graph[list[k]]) : \E j \in 1 .. k - 1 : list[j] = m
Listed == AfterItsOwn(edges, order) /\ (outcome = "ok" => ToSet(edges[Root]) \subseteq ToSet(order))

\* Nothing on the path from the project to a name asks for the name again.
LEMMA NoWayBack ==
    ASSUME Shape, ~Circular, NEW n \in Names, n \in Reached(edges, {Root}),
           NEW a \in Names, n = a \/ n \in Reached(edges, ToSet(edges[a]))
    PROVE  a \notin ToSet(edges[n])
<1> SUFFICES ASSUME a \in ToSet(edges[n]) PROVE FALSE
  OBVIOUS
<1>1. edges \in [Names -> Seq(Pkgs)] /\ Root \in Names
  BY DEF Shape, TypeOK, Names
<1>2. a \in Pkgs /\ ToSet(edges[a]) \subseteq Names
  BY <1>1, SetOfList DEF Names
<1>3. a \in Reached(edges, {Root})
  BY <1>1, ReachedGoesOn
<1>4. a \in Reached(edges, ToSet(edges[a]))
  BY <1>1, <1>2, ReachedGoesOn
<1> QED
  BY <1>2, <1>3, <1>4, RootIsNoPackage DEF Circular

\* Nothing is walked or listed at first.
LEMMA InitWalk == Init => Walk /\ Listed
BY DEF Init, Walk, Listed, AfterItsOwn

\* A call of emit goes on along the path, or lists its package.
LEMMA NextWalk == Typed /\ Walk /\ Listed /\ [Next]_vars => Walk' /\ Listed'
<1> SUFFICES ASSUME Typed, Walk, Listed, [Next]_vars PROVE Walk' /\ Listed'
  OBVIOUS
<1>a. Shape /\ Stages /\ edges \in [Names -> Seq(Pkgs)] /\ order \in Seq(Pkgs)
  BY DEF Typed, Shape, TypeOK
<1>1. ASSUME outcome' \notin {"emitting", "ok"}, UNCHANGED <<edges, order>> \/ order' = <<>>
      PROVE  Walk' /\ Listed'
  <2>1. Walk'
    BY <1>1 DEF Walk
  <2>2. AfterItsOwn(edges', order')
    <3>1. CASE UNCHANGED <<edges, order>>
      BY <3>1 DEF Listed
    <3>2. CASE order' = <<>>
      BY <3>2 DEF AfterItsOwn
    <3> QED
      BY <1>1, <3>1, <3>2
  <2> QED
    BY <1>1, <2>1, <2>2 DEF Listed
<1>2. CASE Begin
  BY <1>1, <1>2 DEF Begin
<1>3. CASE AddRequirement
  <2>1. outcome = "running" /\ order = <<>>
    BY <1>3, <1>a DEF AddRequirement, Stages
  <2>2. order' = order /\ outcome' \notin {"emitting", "ok"}
    BY <1>3, <2>1 DEF AddRequirement, Throw
  <2> QED
    BY <1>1, <2>1, <2>2
<1>4. CASE Look
  <2>1. CASE \E error \in Errors : Throw(error)
    BY <1>1, <2>1 DEF Throw, Errors
  <2>2. CASE UNCHANGED <<universe, reqs, edges, stack, order, outcome>>
    BY <1>1, <1>4, <2>2 DEF Look
  <2> QED
    BY <1>a, <1>4, <2>1, <2>2, VersionTaken
<1>5. CASE Finish
  <2>1. CASE Circular
    BY <1>1, <1>5, <2>1 DEF Finish, Throw
  <2>2. CASE ~Circular
    <3>1. outcome' = "emitting" /\ stack' = <<Call(Root)>> /\ UNCHANGED <<edges, order>>
      BY <1>5, <2>2 DEF Finish
    <3>2. Len(stack') = 1 /\ stack'[1].node = Root /\ stack'[1].left = edges[Root]
      BY <3>1 DEF Call
    <3>3. Root \in Reached(edges, {Root})
      BY <1>a, ReachedGoesOn DEF Names
    <3>4. ~Circular'
      BY <2>2, <3>1 DEF Circular
    <3>5. Walk'
      BY <3>1, <3>2, <3>3, <3>4 DEF Walk, OnPath
    <3>6. Listed'
      BY <3>1 DEF Listed
    <3> QED
      BY <3>5, <3>6
  <2> QED
    BY <2>1, <2>2
<1>b. ASSUME outcome = "emitting"
      PROVE  \E n \in Nat \ {0} :
                /\ n = Len(stack) /\ Last(stack) = stack[n]
                /\ \A k \in 1 .. n : stack[k].node \in Names /\ stack[k].left \in Seq(Pkgs)
                /\ Front(stack) \in Seq([node : Names, left : Seq(Pkgs)]) /\ Len(Front(stack)) = n - 1
                /\ \A i \in 1 .. n - 1 : Front(stack)[i] = stack[i]
  <2>1. PICK S : S = [node : Names, left : Seq(Pkgs)]
    OBVIOUS
  <2>2. stack \in Seq(S) /\ stack # <<>>
    BY <1>a, <1>b, <2>1 DEF Stages, Shape, TypeOK
  <2>3. \E n \in Nat \ {0} :
           /\ n = Len(stack) /\ Last(stack) = stack[n]
           /\ Front(stack) \in Seq(S) /\ Len(Front(stack)) = n - 1
           /\ \A i \in 1 .. n - 1 : Front(stack)[i] = stack[i]
    BY <2>2, LastGone
  <2>4. \A k \in 1 .. Len(stack) : stack[k] \in S
    BY <2>2
  <2> QED
    BY <2>1, <2>3, <2>4
<1>6. CASE EmitNext
  <2>1. outcome = "emitting" /\ outcome' = "emitting" /\ UNCHANGED <<edges, order>>
    BY <1>6 DEF EmitNext
  <2>2. PICK n \in Nat \ {0} :
           /\ n = Len(stack) /\ Last(stack) = stack[n]
           /\ \A k \in 1 .. n : stack[k].node \in Names /\ stack[k].left \in Seq(Pkgs)
    BY <1>b, <2>1
  <2>a. stack[n].left # <<>> /\ stack[n].left \in Seq(Pkgs) /\ n \in 1 .. Len(stack)
    <3>1. Last(stack).left # <<>>
      BY <1>6 DEF EmitNext
    <3>2. n \in 1 .. n
      OBVIOUS
    <3> QED
      BY <2>2, <3>1, <3>2
  <2>3. PICK next \in Pkgs : /\ next = Head(stack[n].left)
                             /\ ToSet(stack[n].left) = ToSet(Tail(stack[n].left)) \cup {next}
    <3>1. PICK list \in Seq(Pkgs) : list = stack[n].left /\ list # <<>>
      BY <2>a
    <3>2. Head(list) \in Pkgs /\ ToSet(list) = ToSet(Tail(list)) \cup {Head(list)}
      BY <3>1, OneLess
    <3> QED
      BY <3>1, <3>2
  <2>b. PICK top : top = [stack[n] EXCEPT !.left = Tail(@)]
    OBVIOUS
  <2>4. top.node = stack[n].node /\ top.left = Tail(stack[n].left) /\ top \in [node : Names, left : Seq(Pkgs)]
    <3>1. stack[n] \in [node : Names, left : Seq(Pkgs)]
      <4>1. stack \in Seq([node : Names, left : Seq(Pkgs)])
        BY <1>a DEF Shape, TypeOK
      <4>2. PICK S : S = [node : Names, left : Seq(Pkgs)]
        OBVIOUS
      <4>3. stack \in Seq(S)
        BY <4>1, <4>2
      <4>4. stack[n] \in S
        BY <2>a, <4>3, ElementOfSeq
      <4> QED
        BY <4>2, <4>4
    <3>2. Tail(stack[n].left) \in Seq(Pkgs)
      BY <2>a, OneLess
    <3> QED
      BY <2>b, <3>1, <3>2
  <2>5. PICK rest \in Seq([node : Names, left : Seq(Pkgs)]) :
           /\ rest = [stack EXCEPT ![n] = top] /\ Len(rest) = n
           /\ \A k \in 1 .. n : rest[k] = IF k = n THEN top ELSE stack[k]
    <3>1. stack \in Seq([node : Names, left : Seq(Pkgs)])
      BY <1>a DEF Shape, TypeOK
    <3>2. PICK S : S = [node : Names, left : Seq(Pkgs)]
      OBVIOUS
    <3>3. PICK t : t = [stack EXCEPT ![n] = top]
      OBVIOUS
    <3>4. t \in Seq(S) /\ Len(t) = n /\ \A k \in 1 .. n : t[k] = IF k = n THEN top ELSE stack[k]
      BY <2>2, <2>4, <3>1, <3>2, <3>3
    <3> QED
      BY <3>2, <3>3, <3>4
  <2>6. stack' = IF next \in Emitted THEN rest ELSE Append(rest, Call(next))
    BY <1>6, <2>2, <2>3, <2>b, <2>5 DEF EmitNext
  <2>7. \A k \in 1 .. n : rest[k].node = stack[k].node
    BY <2>4, <2>5
  <2>8. /\ next \in ToSet(edges[stack[n].node])
        /\ \A k \in 1 .. n : ToSet(rest[k].left) \subseteq ToSet(edges[rest[k].node])
    <3>1. \A k \in 1 .. n : ToSet(stack[k].left) \subseteq ToSet(edges[stack[k].node])
      BY <2>1, <2>2 DEF Walk, OnPath
    <3>2. next \in ToSet(edges[stack[n].node]) /\ ToSet(top.left) \subseteq ToSet(edges[top.node])
      BY <2>a, <2>2, <2>3, <2>4, <3>1
    <3> QED
      BY <2>5, <3>1, <3>2
  <2>9. PICK N \in {n, n + 1} :
           /\ N = Len(stack')
           /\ \A k \in 1 .. n : stack'[k] = rest[k]
           /\ N = n => next \in Emitted
           /\ N = n + 1 => stack'[n + 1].node = next /\ stack'[n + 1].left = edges[next]
    <3>1. CASE next \in Emitted
      BY <2>5, <2>6, <3>1
    <3>2. CASE next \notin Emitted
      <4>1. Call(next) \in [node : Names, left : Seq(Pkgs)]
        BY <1>a DEF Call, Names
      <4>2. PICK c \in [node : Names, left : Seq(Pkgs)] : c = Call(next) /\ c.node = next /\ c.left = edges[next]
        BY <4>1 DEF Call
      <4>3. stack' = Append(rest, c)
        BY <2>6, <3>2, <4>2
      <4> QED
        BY <2>5, <4>2, <4>3, AppendProperties
    <3> QED
      BY <3>1, <3>2
  <2>10. N = n => next \in ToSet(order)
    <3> SUFFICES ASSUME N = n, NEW k \in 1 .. n, stack[k].node = next PROVE FALSE
      <4>1. DOMAIN stack = 1 .. n
        BY <1>a, <2>2 DEF Shape, TypeOK
      <4> QED
        BY <2>9, <4>1 DEF Emitted
    <3>1. stack[n].node \in Names /\ next \in Names /\ stack[n].node \in Reached(edges, {Root}) /\ ~Circular
      BY <2>1, <2>2, <2>a DEF Walk, OnPath, Names
    <3>2. stack[n].node = next \/ stack[n].node \in Reached(edges, ToSet(edges[next]))
      <4>1. k = n \/ k \in 1 .. n - 1
        OBVIOUS
      <4>2. n \in 1 .. Len(stack)
        BY <2>2
      <4> QED
        BY <2>1, <4>1, <4>2 DEF Walk, OnPath
    <3> QED
      BY <1>a, <2>8, <3>1, <3>2, NoWayBack
  <2>11. \A k \in 1 .. N : k \in 1 .. n \/ (k = n + 1 /\ N = n + 1)
    BY <2>9
  <2>12. ~Circular'
    BY <2>1 DEF Walk, Circular
  <2>13. ASSUME NEW k \in 1 .. N
         PROVE  /\ k = 1 <=> stack'[k].node = Root
                /\ stack'[k].node \in Reached(edges, {Root})
                /\ ToSet(stack'[k].left) \subseteq ToSet(edges[stack'[k].node])
                /\ \A l \in 1 .. k - 1 : stack'[k].node \in Reached(edges, ToSet(edges[stack'[l].node]))
                /\ \A m \in ToSet(edges[stack'[k].node]) :
                      \/ m \in ToSet(stack'[k].left) \cup ToSet(order)
                      \/ \E l \in k + 1 .. N : stack'[l].node = m
    <3>1. CASE k \in 1 .. n
      <4>1. /\ k = 1 <=> stack[k].node = Root
            /\ stack[k].node \in Reached(edges, {Root})
            /\ \A l \in 1 .. k - 1 : stack[k].node \in Reached(edges, ToSet(edges[stack[l].node]))
            /\ \A m \in ToSet(edges[stack[k].node]) :
                  \/ m \in ToSet(stack[k].left) \cup ToSet(order)
                  \/ \E l \in k + 1 .. n : stack[l].node = m
        BY <2>1, <2>2, <3>1 DEF Walk, OnPath
      <4>2. stack'[k].node = stack[k].node /\ \A l \in 1 .. n : stack'[l].node = stack[l].node
        BY <2>7, <2>9, <3>1
      <4>3. \A l \in 1 .. k - 1 : l \in 1 .. n
        BY <3>1
      <4>4. \A l \in 1 .. k - 1 : stack'[k].node \in Reached(edges, ToSet(edges[stack'[l].node]))
        BY <4>1, <4>2, <4>3
      <4>5. ToSet(stack'[k].left) \subseteq ToSet(edges[stack'[k].node])
        BY <2>8, <2>9, <3>1
      <4>6. ASSUME NEW m \in ToSet(edges[stack'[k].node])
            PROVE  \/ m \in ToSet(stack'[k].left) \cup ToSet(order)
                   \/ \E l \in k + 1 .. N : stack'[l].node = m
        <5>1. CASE \E l \in k + 1 .. n : stack[l].node = m
          <6>1. PICK l \in k + 1 .. n : stack[l].node = m
            BY <5>1
          <6>2. l \in 1 .. n /\ l \in k + 1 .. N
            BY <2>9, <3>1
          <6> QED
            BY <4>2, <6>1, <6>2
        <5>2. CASE m \in ToSet(order)
          BY <5>2
        <5>3. CASE m \in ToSet(stack[k].left) /\ k # n
          BY <2>5, <2>9, <3>1, <5>3
        <5>4. CASE m \in ToSet(stack[k].left) /\ k = n
          <6>1. m = next \/ m \in ToSet(stack'[k].left)
            BY <2>3, <2>4, <2>5, <2>9, <3>1, <5>4
          <6>2. CASE m = next /\ N = n + 1
            <7>1. n + 1 \in k + 1 .. N /\ stack'[n + 1].node = m
              BY <2>9, <5>4, <6>2
            <7> QED
              BY <7>1
          <6>3. CASE m = next /\ N = n
            BY <2>10, <6>3
          <6> QED
            BY <2>9, <6>1, <6>2, <6>3
        <5> QED
          BY <4>1, <4>2, <5>1, <5>2, <5>3, <5>4
      <4> QED
        BY <4>1, <4>2, <4>4, <4>5, <4>6
    <3>2. CASE k = n + 1 /\ N = n + 1
      <4>1. stack'[k].node = next /\ stack'[k].left = edges[next]
        BY <2>9, <3>2
      <4>2. k # 1 /\ next # Root
        BY <3>2, RootIsNoPackage
      <4>3. next \in Reached(edges, {Root})
        <5>1. stack[n].node \in Reached(edges, {Root})
          BY <2>1, <2>a DEF Walk, OnPath
        <5>2. {Root} \subseteq Names
          BY DEF Names
        <5> QED
          BY <1>a, <2>8, <5>1, <5>2, ReachedGoesOn
      <4>4. ASSUME NEW l \in 1 .. n PROVE next \in Reached(edges, ToSet(edges[stack'[l].node]))
        <5>1. stack'[l].node = stack[l].node /\ ToSet(edges[stack[l].node]) \subseteq Names
          <6>1. stack'[l].node = stack[l].node
            BY <2>7, <2>9
          <6>2. stack[l].node \in Names
            BY <2>2
          <6>3. edges[stack[l].node] \in Seq(Pkgs)
            BY <1>a, <6>2
          <6> QED
            BY <6>1, <6>3, SetOfList DEF Names
        <5>2. CASE l = n
          BY <1>a, <2>8, <5>1, <5>2, ReachedGoesOn
        <5>3. CASE l # n
          <6>1. n \in 1 .. Len(stack) /\ l \in 1 .. n - 1
            BY <2>2, <5>3
          <6>2. stack[n].node \in Reached(edges, ToSet(edges[stack[l].node]))
            BY <2>1, <6>1 DEF Walk, OnPath
          <6> QED
            BY <1>a, <2>8, <5>1, <6>2, ReachedGoesOn
        <5> QED
          BY <5>2, <5>3
      <4>5. \A l \in 1 .. k - 1 : l \in 1 .. n
        BY <3>2
      <4> QED
        BY <4>1, <4>2, <4>3, <4>4, <4>5
    <3> QED
      BY <2>11, <3>1, <3>2
  <2>14. Walk'
    <3>1. N = Len(stack')
      BY <2>9
    <3>2. ASSUME NEW k \in 1 .. N PROVE OnPath(edges, stack', order, k)
      <4>1. ASSUME NEW m \in ToSet(edges[stack'[k].node])
            PROVE  \/ m \in ToSet(stack'[k].left) \cup ToSet(order)
                   \/ \E l \in k + 1 .. Len(stack') : stack'[l].node = m
        BY <2>13, <3>1
      <4> QED
        BY <2>13, <4>1 DEF OnPath
    <3> QED
      BY <2>1, <2>12, <3>1, <3>2 DEF Walk
  <2>15. Listed'
    BY <2>1 DEF Listed
  <2> QED
    BY <2>14, <2>15
<1>7. CASE EmitReturn
  <2>1. outcome = "emitting" /\ UNCHANGED edges
    BY <1>7 DEF EmitReturn
  <2>2. PICK n \in Nat \ {0} :
           /\ n = Len(stack) /\ Last(stack) = stack[n]
           /\ \A k \in 1 .. n : stack[k].node \in Names /\ stack[k].left \in Seq(Pkgs)
           /\ Len(Front(stack)) = n - 1
           /\ \A i \in 1 .. n - 1 : Front(stack)[i] = stack[i]
    BY <1>b, <2>1
  <2>3. PICK x \in Names : x = stack[n].node
    BY <2>2
  <2>4. /\ Len(stack') = n - 1 /\ \A i \in 1 .. n - 1 : stack'[i] = stack[i]
        /\ order' = IF x = Root THEN order ELSE Append(order, x)
        /\ outcome' = IF n = 1 THEN "ok" ELSE "emitting"
    BY <1>7, <2>2, <2>3 DEF EmitReturn
  <2>5. ToSet(edges[x]) \subseteq ToSet(order) /\ (n = 1 <=> x = Root)
    <3>1. stack[n].left = <<>>
      BY <1>7, <2>2 DEF EmitReturn
    <3>2. ToSet(stack[n].left) = {}
      BY <3>1 DEF ToSet
    <3>3. n \in 1 .. Len(stack) /\ n + 1 .. Len(stack) = {}
      BY <2>2
    <3> QED
      BY <2>1, <2>3, <3>2, <3>3 DEF Walk, OnPath
  <2>6. CASE n = 1
    <3>1. order' = order /\ outcome' = "ok" /\ x = Root
      BY <2>4, <2>5, <2>6
    <3>2. Walk'
      BY <3>1 DEF Walk
    <3>3. Listed'
      BY <2>1, <2>5, <3>1 DEF Listed
    <3> QED
      BY <3>2, <3>3
  <2>7. CASE n # 1
    <3>1. x \in Pkgs /\ order' = Append(order, x) /\ outcome' = "emitting"
      BY <2>4, <2>5, <2>7 DEF Names
    <3>2. PICK len \in Nat : /\ len = Len(order) /\ Len(order') = len + 1
                             /\ \A k \in 1 .. len : order'[k] = order[k]
                             /\ order'[len + 1] = x
                             /\ ToSet(order') = ToSet(order) \cup {x}
      BY <1>a, <3>1, OneMore, SetOfList
    <3>3. ~Circular'
      BY <2>1 DEF Walk, Circular
    <3>4. ASSUME NEW k \in 1 .. n - 1
          PROVE  /\ k = 1 <=> stack'[k].node = Root
                 /\ stack'[k].node \in Reached(edges, {Root})
                 /\ ToSet(stack'[k].left) \subseteq ToSet(edges[stack'[k].node])
                 /\ \A l \in 1 .. k - 1 : stack'[k].node \in Reached(edges, ToSet(edges[stack'[l].node]))
                 /\ \A m \in ToSet(edges[stack'[k].node]) :
                       \/ m \in ToSet(stack'[k].left) \cup ToSet(order')
                       \/ \E l \in k + 1 .. n - 1 : stack'[l].node = m
      <4>1. /\ k = 1 <=> stack[k].node = Root
            /\ stack[k].node \in Reached(edges, {Root})
            /\ ToSet(stack[k].left) \subseteq ToSet(edges[stack[k].node])
            /\ \A l \in 1 .. k - 1 : stack[k].node \in Reached(edges, ToSet(edges[stack[l].node]))
            /\ \A m \in ToSet(edges[stack[k].node]) :
                  \/ m \in ToSet(stack[k].left) \cup ToSet(order)
                  \/ \E l \in k + 1 .. n : stack[l].node = m
        <5>1. k \in 1 .. Len(stack)
          BY <2>2
        <5> QED
          BY <2>1, <2>2, <5>1 DEF Walk, OnPath
      <4>2. stack'[k] = stack[k]
        BY <2>4
      <4>3. \A l \in 1 .. k - 1 : l \in 1 .. n - 1
        OBVIOUS
      <4>4. \A l \in 1 .. k - 1 : stack'[k].node \in Reached(edges, ToSet(edges[stack'[l].node]))
        BY <2>4, <4>1, <4>2, <4>3
      <4>5. ASSUME NEW m \in ToSet(edges[stack'[k].node])
            PROVE  \/ m \in ToSet(stack'[k].left) \cup ToSet(order')
                   \/ \E l \in k + 1 .. n - 1 : stack'[l].node = m
        <5>1. CASE m \in ToSet(stack[k].left) \cup ToSet(order)
          BY <3>2, <4>2, <5>1
        <5>2. CASE \E l \in k + 1 .. n : stack[l].node = m
          <6>1. PICK l \in k + 1 .. n : stack[l].node = m
            BY <5>2
          <6>2. CASE l = n
            BY <2>3, <3>2, <6>1, <6>2
          <6>3. CASE l # n
            <7>1. l \in k + 1 .. n - 1 /\ l \in 1 .. n - 1
              BY <6>3
            <7> QED
              BY <2>4, <6>1, <7>1
          <6> QED
            BY <6>2, <6>3
        <5> QED
          BY <4>1, <4>2, <5>1, <5>2
      <4> QED
        BY <4>1, <4>2, <4>4, <4>5
    <3>5. Walk'
      <4>1. n - 1 = Len(stack')
        BY <2>4
      <4>2. ASSUME NEW k \in 1 .. n - 1 PROVE OnPath(edges, stack', order', k)
        <5>1. ASSUME NEW m \in ToSet(edges[stack'[k].node])
              PROVE  \/ m \in ToSet(stack'[k].left) \cup ToSet(order')
                     \/ \E l \in k + 1 .. Len(stack') : stack'[l].node = m
          BY <3>4, <4>1
        <5> QED
          BY <3>4, <5>1 DEF OnPath
      <4> QED
        BY <2>1, <3>3, <4>1, <4>2 DEF Walk
    <3>6. ASSUME NEW k \in 1 .. len + 1, NEW m \in ToSet(edges[order'[k]])
          PROVE  \E j \in 1 .. k - 1 : order'[j] = m
      <4>1. CASE k \in 1 .. len
        <5>1. PICK j \in 1 .. k - 1 : order[j] = m
          BY <3>2, <3>6, <4>1 DEF Listed, AfterItsOwn
        <5>2. j \in 1 .. len
          BY <4>1
        <5> QED
          BY <3>2, <5>1, <5>2
      <4>2. CASE k = len + 1
        <5>1. m \in ToSet(order)
          BY <2>5, <3>2, <3>6, <4>2
        <5>2. PICK j \in 1 .. len : order[j] = m
          BY <1>a, <3>2, <5>1, SetOfList
        <5> QED
          BY <3>2, <4>2, <5>2
      <4> QED
        BY <4>1, <4>2
    <3>7. Listed'
      <4>1. AfterItsOwn(edges', order')
        BY <2>1, <3>2, <3>6 DEF AfterItsOwn
      <4> QED
        BY <3>1, <4>1 DEF Listed
    <3> QED
      BY <3>5, <3>7
  <2> QED
    BY <2>6, <2>7
<1>8. CASE UNCHANGED vars
  <2>1. UNCHANGED <<edges, stack, order, outcome>>
    BY <1>8 DEF vars
  <2> QED
    BY <2>1, Zenon DEF Walk, Listed, Circular
<1> QED
  BY <1>2, <1>3, <1>4, <1>5, <1>6, <1>7, <1>8 DEF Next

\* What a resolution says is resolved can be installed: every constraint of
\* the project and of every package listed holds for the version chosen, and a
\* package comes after all it depends on (resolver.cpp:184-230).
THEOREM ResolutionIsSound == Spec => []Sound
<1>1. Typed /\ NewestOfAccepted /\ Heard /\ Listed => Sound
  <2> SUFFICES ASSUME Typed, NewestOfAccepted, Heard, Listed, outcome = "ok" PROVE Sound
    BY DEF Sound
  <2>a. Shape /\ asking.left = <<>> /\ dirty = <<>> /\ edges \in [Names -> Seq(Pkgs)] /\ order \in Seq(Pkgs)
    BY DEF Typed, Stages, Shape, TypeOK
  <2>1. ASSUME NEW n, NEW d \in Request, HeardOf(n, d)
        PROVE  d.name \in ToSet(edges[n]) /\ Matches(Parse(d.spec), resolved[d.name])
    <3>1. PICK p \in Pkgs : \E r \in reqs[p] : p = d.name /\ r = [by |-> n, spec |-> d.spec]
      BY <2>a, <2>1 DEF HeardOf, Request, ToSet
    <3>r. PICK r \in reqs[p] : r = [by |-> n, spec |-> d.spec]
      BY <3>1
    <3>2. r.by = n /\ r.spec = d.spec /\ p \in ToSet(edges[r.by])
      BY <2>a, <3>r DEF Shape, TypeOK
    <3>3. resolved[p] # None /\ p \notin ToSet(dirty)
      BY <2>a, <3>r DEF Typed, Queued, ToSet
    <3>4. resolved[p] \in Accepted(p)
      BY <3>3 DEF NewestOfAccepted
    <3> QED
      BY <3>1, <3>r, <3>2, <3>4 DEF Accepted
  <2>2. ASSUME NEW i \in DOMAIN universe.root
        PROVE  /\ universe.root[i].name \in ToSet(order)
               /\ Matches(Parse(universe.root[i].spec), resolved[universe.root[i].name])
    <3>1. universe.root[i] \in Request /\ HeardOf(Root, universe.root[i])
      BY <2>a, DepsAreRequests DEF Heard
    <3> QED
      BY <2>1, <3>1 DEF Listed
  <2>3. ASSUME NEW k \in DOMAIN order, NEW i \in DOMAIN DepsOf(order[k])
        PROVE  \E j \in 1 .. k - 1 : /\ order[j] = DepsOf(order[k])[i].name
                                     /\ Matches(Parse(DepsOf(order[k])[i].spec), resolved[order[j]])
    <3>1. order[k] \in Pkgs /\ k \in 1 .. Len(order)
      BY <2>a
    <3>2. PICK d \in Request : d = DepsOf(order[k])[i] /\ HeardOf(order[k], d)
      BY <2>a, <3>1, DepsAreRequests DEF Heard
    <3>3. d.name \in ToSet(edges[order[k]]) /\ Matches(Parse(d.spec), resolved[d.name])
      BY <2>1, <3>2
    <3>4. PICK j \in 1 .. k - 1 : order[j] = d.name
      BY <3>1, <3>3 DEF Listed, AfterItsOwn
    <3> QED
      BY <3>2, <3>3, <3>4
  <2> QED
    BY <2>2, <2>3 DEF Sound
<1> QED
  BY <1>1, InitTyped, NextTyped, InitNewest, NextNewest, InitHeard, NextHeard, InitWalk, NextWalk, PTL DEF Spec
=============================================================================
