-------------------------- MODULE EditorEngineProofs --------------------------
(***************************************************************************)
(* The editor engine keeps its cursor in the text, and its records undo    *)
(* and redo exactly what was edited: EditHistory is implemented.           *)
(*                                                                         *)
(* A place (line, column) of a text is the end of a first part of it, so   *)
(* a range cuts the text in three, and what the engine computes from lines *)
(* and positions is what an edit means: the middle part replaced. A record *)
(* is then the middle part before and after, and where it begins; the      *)
(* invariant says so of every record on both stacks. Merged records are    *)
(* records again because a place is the end of one first part only.        *)
(***************************************************************************)
EXTENDS MCEditorEngine, SequenceTheorems, WellOrder

-----------------------------------------------------------------------------
(* Texts in lines                                                           *)

\* What the lines of the engine are: never none.
Docs == Seq(Text) \ {<< >>}

\* What appending to a sequence gives.
LEMMA AppendFacts ==
    ASSUME NEW S, NEW s \in Seq(S), NEW e \in S, NEW u, u = Append(s, e)
    PROVE  /\ Len(s) \in Nat /\ u \in Seq(S) /\ Len(u) = Len(s) + 1
           /\ u[Len(s) + 1] = e /\ \A i \in 1..Len(s) : u[i] = s[i]
BY AppendProperties, LenProperties

\* What replacing one element of a sequence gives.
LEMMA ExceptFacts ==
    ASSUME NEW S, NEW s \in Seq(S), NEW k \in 1..Len(s), NEW e \in S, NEW u, u = [s EXCEPT ![k] = e]
    PROVE  /\ u \in Seq(S) /\ Len(u) = Len(s)
           /\ u[k] = e /\ \A i \in 1..Len(s) : i # k => u[i] = s[i]
<1>1. Len(s) \in Nat /\ DOMAIN s = 1..Len(s)
  BY LenProperties
<1>2. u \in Seq(S) /\ Len(u) = Len(s)
  BY <1>1, ExceptSeq
<1> QED
  BY <1>1, <1>2

\* Induction over sequences, with a set of sequences in the place of a predicate.
LEMMA SequenceInduction ==
    ASSUME NEW S, NEW Q, << >> \in Q,
           \A s \in Seq(S), e \in S : s \in Q => Append(s, e) \in Q
    PROVE  Seq(S) \subseteq Q
<1> DEFINE N == {n \in Nat : \A s \in Seq(S) : Len(s) = n => s \in Q}
<1>1. 0 \in N
  BY EmptySeq
<1>2. ASSUME NEW n \in Nat, n \in N PROVE n + 1 \in N
  <2>1. ASSUME NEW s \in Seq(S), Len(s) = n + 1 PROVE s \in Q
    <3>1. s # << >>
      BY <2>1, EmptySeq
    <3>2. PICK t \in Seq(S), e \in S : s = Append(t, e)
      BY <3>1, SequenceEmptyOrAppend
    <3>3. Len(t) = n
      BY <3>2, <2>1, AppendProperties, LenProperties
    <3> QED
      BY <3>2, <3>3, <1>2
  <2> QED
    BY <2>1
<1>3. Nat \subseteq N
  BY <1>1, <1>2, NaturalInduction
<1> QED
  BY <1>3, LenProperties

\* The lines of a text with one more byte.
Extended(parts, c) ==
    IF c = Newline THEN Append(parts, << >>) ELSE [parts EXCEPT ![Len(parts)] = Append(@, c)]

\* f is the function by which splitLines is defined, for this text.
IsSplitting(text, f) ==
    f = [n \in 0..Len(text) |-> IF n = 0 THEN << << >> >> ELSE Extended(f[n - 1], text[n])]

\* There is one such function.
LEMMA SplittingUnique ==
    ASSUME NEW text \in Text, NEW f, NEW g, IsSplitting(text, f), IsSplitting(text, g)
    PROVE f = g
<1> DEFINE N == {n \in Nat : n <= Len(text) => f[n] = g[n]}
<1>0. Len(text) \in Nat
  BY LenProperties DEF Text
<1>1. 0 \in N
  <2>1. f[0] = << << >> >> /\ g[0] = << << >> >>
    BY <1>0 DEF IsSplitting
  <2> QED
    BY <2>1
<1>2. ASSUME NEW n \in Nat, n \in N, n + 1 <= Len(text) PROVE f[n + 1] = g[n + 1]
  <2>1. f[n] = g[n] /\ n + 1 \in 0..Len(text) /\ n + 1 # 0 /\ (n + 1) - 1 = n
    BY <1>0, <1>2
  <2>2. f[n + 1] = Extended(f[n], text[n + 1])
    BY <2>1 DEF IsSplitting
  <2>3. g[n + 1] = Extended(g[n], text[n + 1])
    BY <2>1 DEF IsSplitting
  <2> QED
    BY <2>1, <2>2, <2>3
<1>3. Nat \subseteq N
  <2> HIDE DEF N
  <2>1. \A n \in Nat : n \in N => n + 1 \in N
    BY <1>2 DEF N
  <2> QED
    BY <1>1, <2>1, NaturalInduction
<1>4. \A n \in 0..Len(text) : f[n] = g[n]
  BY <1>0, <1>3
<1>5. /\ f = [n \in 0..Len(text) |-> f[n]]
      /\ g = [n \in 0..Len(text) |-> g[n]]
  BY DEF IsSplitting
<1> QED
  BY <1>4, <1>5

\* splitLines gives the last value of any such function.
LEMMA SplitIs ==
    ASSUME NEW text \in Text, NEW f, IsSplitting(text, f)
    PROVE splitLines(text) = f[Len(text)]
<1> DEFINE h == CHOOSE g : IsSplitting(text, g)
<1>1. IsSplitting(text, h)
  OBVIOUS
<1>2. h = f
  <2> HIDE DEF h
  <2> QED
    BY <1>1, SplittingUnique
<1>3. splitLines(text) = h[Len(text)]
  BY DEF splitLines, IsSplitting, Extended
<1> QED
  BY <1>2, <1>3

\* What one more byte does to lines: only a newline adds one, only the last line changes.
LEMMA ExtendedDoc ==
    ASSUME NEW ls \in Docs, NEW c \in Byte
    PROVE  /\ Extended(ls, c) \in Docs
           /\ c = Newline => /\ Len(Extended(ls, c)) = Len(ls) + 1
                             /\ Extended(ls, c)[Len(ls) + 1] = << >>
                             /\ \A k \in 1..Len(ls) : Extended(ls, c)[k] = ls[k]
           /\ c # Newline => /\ Len(Extended(ls, c)) = Len(ls)
                             /\ Extended(ls, c)[Len(ls)] = Append(ls[Len(ls)], c)
                             /\ \A k \in 1..(Len(ls) - 1) : Extended(ls, c)[k] = ls[k]
<1>0. ls \in Seq(Text) /\ Len(ls) \in Nat \ {0} /\ << >> \in Text
  BY EmptySeq DEF Docs, Text
<1>1. CASE c = Newline
  <2>1. Extended(ls, c) = Append(ls, << >>)
    BY <1>1 DEF Extended
  <2> QED
    BY <1>0, <1>1, <2>1, AppendProperties DEF Docs
<1>2. CASE c # Newline
  <2>1. Extended(ls, c) = [ls EXCEPT ![Len(ls)] = Append(ls[Len(ls)], c)]
    BY <1>2 DEF Extended
  <2>2. ls[Len(ls)] \in Text
    BY <1>0, ElementOfSeq
  <2>3. Append(ls[Len(ls)], c) \in Text
    BY <2>2, AppendProperties DEF Text
  <2>4. Len(ls) \in 1..Len(ls)
    BY <1>0
  <2>5. /\ Extended(ls, c) \in Seq(Text)
        /\ Len(Extended(ls, c)) = Len(ls)
        /\ Extended(ls, c)[Len(ls)] = Append(ls[Len(ls)], c)
        /\ \A j \in 1..Len(ls) : j # Len(ls) => Extended(ls, c)[j] = ls[j]
    BY <1>0, <2>1, <2>3, <2>4, ExceptFacts
  <2>6. Extended(ls, c) # << >>
    BY <1>0, <2>5, EmptySeq
  <2>7. Extended(ls, c) \in Docs
    BY <2>5, <2>6 DEF Docs
  <2>8. /\ Extended(ls, c)[Len(ls)] = Append(ls[Len(ls)], c)
        /\ \A k \in 1..(Len(ls) - 1) : Extended(ls, c)[k] = ls[k]
        /\ Len(Extended(ls, c)) = Len(ls)
    BY <1>0, <2>4, <2>5
  <2> QED
    BY <1>0, <1>2, <2>4, <2>7, <2>8
<1> QED
  BY <1>1, <1>2

\* There is such a function, and its values are lines.
LEMMA SplittingExists ==
    ASSUME NEW text \in Text
    PROVE \E f : IsSplitting(text, f) /\ \A n \in 0..Len(text) : f[n] \in Docs
<1> DEFINE Good(t, f) == IsSplitting(t, f) /\ \A n \in 0..Len(t) : f[n] \in Docs
           Q == {t \in Text : \E f : Good(t, f)}
<1>1. << >> \in Q
  <2> DEFINE f == [n \in 0..0 |-> << << >> >>]
  <2>1. << << >> >> \in Docs /\ << >> \in Text /\ Len(<< >>) = 0
    BY EmptySeq DEF Docs, Text
  <2>2. f = [n \in 0..Len(<< >>) |-> IF n = 0 THEN << << >> >> ELSE Extended(f[n - 1], << >>[n])]
    BY <2>1
  <2>3. \A n \in 0..0 : f[n] = << << >> >>
    OBVIOUS
  <2>4. Good(<< >>, f)
    <3> HIDE DEF f
    <3> QED
      BY <2>1, <2>2, <2>3 DEF IsSplitting
  <2> QED
    BY <2>1, <2>4
<1>2. ASSUME NEW t \in Text, NEW c \in Byte, t \in Q PROVE Append(t, c) \in Q
  <2>1. PICK f : Good(t, f)
    BY <1>2
  <2> DEFINE g == [n \in 0..(Len(t) + 1) |-> IF n <= Len(t) THEN f[n] ELSE Extended(f[Len(t)], c)]
             u == Append(t, c)
  <2>2. /\ Len(t) \in Nat /\ u \in Text /\ Len(u) = Len(t) + 1
        /\ u[Len(t) + 1] = c /\ \A i \in 1..Len(t) : u[i] = t[i]
    BY AppendFacts DEF Text
  <2> HIDE DEF u
  <2>3. f[Len(t)] \in Docs
    BY <2>1, <2>2
  <2>4. Extended(f[Len(t)], c) \in Docs
    BY <2>3, ExtendedDoc
  <2>5. \A n \in 0..Len(u) : g[n] \in Docs
    BY <2>1, <2>2, <2>4
  <2>6. ASSUME NEW n \in 0..Len(u)
        PROVE g[n] = IF n = 0 THEN << << >> >> ELSE Extended(g[n - 1], u[n])
    <3>1. CASE n <= Len(t)
      <4>1. n \in 0..Len(t) /\ g[n] = f[n] /\ (n # 0 => g[n - 1] = f[n - 1] /\ u[n] = t[n])
        BY <2>2, <3>1
      <4>2. f[n] = IF n = 0 THEN << << >> >> ELSE Extended(f[n - 1], t[n])
        BY <2>1, <4>1 DEF IsSplitting
      <4> QED
        BY <4>1, <4>2
    <3>2. CASE n = Len(t) + 1
      <4>1. n # 0 /\ n - 1 = Len(t) /\ g[n] = Extended(f[Len(t)], c) /\ g[n - 1] = f[Len(t)] /\ u[n] = c
        BY <2>2, <3>2
      <4> QED
        BY <4>1
    <3> QED
      BY <2>2, <3>1, <3>2
  <2>7. g = [n \in 0..Len(u) |-> g[n]]
    BY <2>2
  <2>8. IsSplitting(u, g)
    <3> HIDE DEF g
    <3> QED
      BY <2>6, <2>7 DEF IsSplitting
  <2> QED
    BY <2>2, <2>5, <2>8 DEF u
<1>3. Seq(Byte) \subseteq Q
  <2> HIDE DEF Q
  <2> QED
    BY <1>1, <1>2, SequenceInduction DEF Text
<1> QED
  BY <1>3 DEF Text

\* splitLines reads a text byte by byte: one more byte extends its lines.
LEMMA SplitAppend ==
    ASSUME NEW text \in Text, NEW c \in Byte
    PROVE splitLines(Append(text, c)) = Extended(splitLines(text), c)
<1> DEFINE u == Append(text, c)
<1>1. /\ Len(text) \in Nat /\ u \in Text /\ Len(u) = Len(text) + 1
      /\ u[Len(text) + 1] = c /\ \A i \in 1..Len(text) : u[i] = text[i]
  BY AppendFacts DEF Text
<1> HIDE DEF u
<1>2. PICK g : IsSplitting(u, g)
  BY <1>1, SplittingExists
<1> DEFINE f == [n \in 0..Len(text) |-> g[n]]
<1>3. \A n \in 0..Len(u) : g[n] = IF n = 0 THEN << << >> >> ELSE Extended(g[n - 1], u[n])
  BY <1>2 DEF IsSplitting
<1>4. ASSUME NEW n \in 0..Len(text) PROVE f[n] = IF n = 0 THEN << << >> >> ELSE Extended(f[n - 1], text[n])
  <2>1. f[n] = g[n] /\ n \in 0..Len(u) /\ (n # 0 => f[n - 1] = g[n - 1] /\ u[n] = text[n])
    BY <1>1
  <2> QED
    BY <1>3, <2>1
<1>5. IsSplitting(text, f)
  <2>1. f = [n \in 0..Len(text) |-> f[n]]
    OBVIOUS
  <2> HIDE DEF f
  <2> QED
    BY <1>4, <2>1 DEF IsSplitting
<1>6. splitLines(text) = g[Len(text)]
  <2>1. splitLines(text) = f[Len(text)]
    <3> HIDE DEF f
    <3> QED
      BY <1>5, SplitIs
  <2> QED
    BY <1>1, <2>1
<1>7. splitLines(u) = g[Len(text) + 1] /\ g[Len(text) + 1] = Extended(g[Len(text)], c)
  BY <1>1, <1>2, <1>3, SplitIs
<1> QED
  BY <1>6, <1>7 DEF u

\* Whatever the text, there is a line: the engine never has none.
LEMMA SplitDoc ==
    ASSUME NEW text \in Text
    PROVE splitLines(text) \in Docs
BY SplittingExists, SplitIs, LenProperties DEF Text

\* The empty text has one empty line.
LEMMA SplitEmpty == splitLines(<< >>) = << << >> >>
<1>1. << >> \in Text /\ Len(<< >>) = 0
  BY EmptySeq DEF Text
<1>2. PICK f : IsSplitting(<< >>, f)
  BY <1>1, SplittingExists
<1>3. f[0] = << << >> >>
  BY <1>1, <1>2 DEF IsSplitting
<1> QED
  BY <1>1, <1>2, <1>3, SplitIs
-----------------------------------------------------------------------------
(* Lines joined to a text                                                   *)

\* f is the function by which Joined is defined, for these lines.
IsJoining(ls, f) ==
    f = [n \in 1..Len(ls) |-> IF n = 1 THEN ls[1] ELSE f[n - 1] \o <<Newline>> \o ls[n]]

\* There is one such function.
LEMMA JoiningUnique ==
    ASSUME NEW ls \in Seq(Text), NEW f, NEW g, IsJoining(ls, f), IsJoining(ls, g)
    PROVE f = g
<1> DEFINE N == {n \in Nat : n + 1 <= Len(ls) => f[n + 1] = g[n + 1]}
<1>0. Len(ls) \in Nat
  BY LenProperties
<1>1. 0 \in N
  <2>1. 1 \in 1..Len(ls) => f[1] = ls[1] /\ g[1] = ls[1]
    BY DEF IsJoining
  <2> QED
    BY <2>1, <1>0
<1>2. ASSUME NEW n \in Nat, n \in N, n + 2 <= Len(ls) PROVE f[n + 2] = g[n + 2]
  <2>1. f[n + 1] = g[n + 1] /\ n + 2 \in 1..Len(ls) /\ n + 2 # 1 /\ (n + 2) - 1 = n + 1
    BY <1>0, <1>2
  <2>2. f[n + 2] = f[n + 1] \o <<Newline>> \o ls[n + 2]
    BY <2>1 DEF IsJoining
  <2>3. g[n + 2] = g[n + 1] \o <<Newline>> \o ls[n + 2]
    BY <2>1 DEF IsJoining
  <2> QED
    BY <2>1, <2>2, <2>3
<1>3. Nat \subseteq N
  <2> HIDE DEF N
  <2>1. \A n \in Nat : n \in N => n + 1 \in N
    BY <1>2 DEF N
  <2> QED
    BY <1>1, <2>1, NaturalInduction
<1>4. \A n \in 1..Len(ls) : f[n] = g[n]
  <2> TAKE n \in 1..Len(ls)
  <2>1. n - 1 \in Nat /\ (n - 1) + 1 = n /\ n <= Len(ls)
    BY <1>0
  <2>2. n - 1 \in N
    <3> HIDE DEF N
    <3> QED
      BY <1>3, <2>1
  <2> QED
    BY <2>1, <2>2
<1>5. /\ f = [n \in 1..Len(ls) |-> f[n]]
      /\ g = [n \in 1..Len(ls) |-> g[n]]
  BY DEF IsJoining
<1> QED
  BY <1>4, <1>5

\* Joined gives the last value of any such function.
LEMMA JoinIs ==
    ASSUME NEW ls \in Seq(Text), NEW f, IsJoining(ls, f)
    PROVE Joined(ls) = f[Len(ls)]
<1> DEFINE h == CHOOSE g : IsJoining(ls, g)
<1>1. IsJoining(ls, h)
  OBVIOUS
<1>2. h = f
  <2> HIDE DEF h
  <2> QED
    BY <1>1, JoiningUnique
<1>3. Joined(ls) = h[Len(ls)]
  BY DEF Joined, IsJoining
<1> QED
  BY <1>2, <1>3

\* The newline is a byte, and by itself a text; so is nothing.
LEMMA NewlineText == Newline \in Byte /\ <<Newline>> \in Text /\ << >> \in Text
<1>1. Newline \in Byte
  BY EditorAssumption DEF Marks
<1> QED
  BY <1>1 DEF Text

\* Two texts make a text.
LEMMA ConcatText ==
    ASSUME NEW x \in Text, NEW y \in Text
    PROVE x \o y \in Text
BY ConcatProperties DEF Text

\* The function for lines gives the one for these lines and one more.
LEMMA JoiningExtends ==
    ASSUME NEW ls \in Seq(Text), NEW x \in Text, NEW f, IsJoining(ls, f),
           \A n \in 1..Len(ls) : f[n] \in Text
    PROVE \E g : /\ IsJoining(Append(ls, x), g)
                 /\ \A n \in 1..(Len(ls) + 1) : g[n] \in Text
                 /\ g[Len(ls) + 1] = IF ls = << >> THEN x ELSE f[Len(ls)] \o <<Newline>> \o x
<1> DEFINE last == IF ls = << >> THEN x ELSE f[Len(ls)] \o <<Newline>> \o x
           g == [n \in 1..(Len(ls) + 1) |-> IF n <= Len(ls) THEN f[n] ELSE last]
           u == Append(ls, x)
<1>2. /\ Len(ls) \in Nat /\ u \in Seq(Text) /\ Len(u) = Len(ls) + 1
      /\ u[Len(ls) + 1] = x /\ \A i \in 1..Len(ls) : u[i] = ls[i]
      /\ ls = << >> <=> Len(ls) = 0
  BY AppendFacts, EmptySeq
<1> HIDE DEF u
<1>3. last \in Text
  <2>1. CASE ls = << >>
    BY <2>1
  <2>2. CASE ls # << >>
    <3>1. f[Len(ls)] \in Text
      BY <2>2, <1>2
    <3>2. f[Len(ls)] \o <<Newline>> \in Text
      BY <3>1, NewlineText, ConcatText
    <3> QED
      BY <2>2, <3>2, ConcatText
  <2> QED
    BY <2>1, <2>2
<1> HIDE DEF last
<1>5. \A n \in 1..Len(u) : g[n] \in Text
  BY <1>2, <1>3
<1>6. ASSUME NEW n \in 1..Len(u)
      PROVE g[n] = IF n = 1 THEN u[1] ELSE g[n - 1] \o <<Newline>> \o u[n]
  <2>1. CASE n <= Len(ls)
    <3>1. n \in 1..Len(ls) /\ g[n] = f[n] /\ (n # 1 => g[n - 1] = f[n - 1]) /\ u[n] = ls[n] /\ u[1] = ls[1]
      BY <1>2, <2>1
    <3>2. f[n] = IF n = 1 THEN ls[1] ELSE f[n - 1] \o <<Newline>> \o ls[n]
      BY <3>1 DEF IsJoining
    <3> QED
      BY <3>1, <3>2
  <2>2. CASE n = Len(ls) + 1 /\ ls # << >>
    <3>1. n # 1 /\ n - 1 = Len(ls) /\ g[n] = last /\ g[n - 1] = f[Len(ls)] /\ u[n] = x
      BY <1>2, <2>2
    <3> QED
      BY <3>1, <2>2 DEF last
  <2>3. CASE n = Len(ls) + 1 /\ ls = << >>
    <3>1. n = 1 /\ g[n] = last /\ u[1] = x
      BY <1>2, <2>3
    <3> QED
      BY <3>1, <2>3 DEF last
  <2> QED
    BY <1>2, <2>1, <2>2, <2>3
<1>7. g = [n \in 1..Len(u) |-> g[n]]
  BY <1>2
<1>8. IsJoining(u, g)
  <2> HIDE DEF g
  <2> QED
    BY <1>6, <1>7 DEF IsJoining
<1>9. g[Len(ls) + 1] = last
  BY <1>2
<1> QED
  BY <1>2, <1>5, <1>8, <1>9 DEF u, last

\* There is such a function, and its values are texts.
LEMMA JoiningExists ==
    ASSUME NEW ls \in Seq(Text)
    PROVE \E f : IsJoining(ls, f) /\ \A n \in 1..Len(ls) : f[n] \in Text
<1> DEFINE Good(t, f) == IsJoining(t, f) /\ \A n \in 1..Len(t) : f[n] \in Text
           Q == {t \in Seq(Text) : \E f : Good(t, f)}
<1>1. << >> \in Q
  <2> DEFINE f == [n \in 1..0 |-> << >>]
  <2>1. << >> \in Seq(Text) /\ Len(<< >>) = 0
    BY EmptySeq
  <2>2. f = [n \in 1..Len(<< >>) |-> IF n = 1 THEN << >>[1] ELSE f[n - 1] \o <<Newline>> \o << >>[n]]
    BY <2>1
  <2>4. Good(<< >>, f)
    <3> HIDE DEF f
    <3> QED
      BY <2>1, <2>2 DEF IsJoining
  <2> QED
    BY <2>1, <2>4
<1>2. ASSUME NEW t \in Seq(Text), NEW x \in Text, t \in Q PROVE Append(t, x) \in Q
  <2>1. PICK f : Good(t, f)
    BY <1>2
  <2>2. Append(t, x) \in Seq(Text) /\ Len(Append(t, x)) = Len(t) + 1
    BY AppendProperties
  <2> QED
    BY <2>1, <2>2, JoiningExtends
<1>3. Seq(Text) \subseteq Q
  <2> HIDE DEF Q
  <2> QED
    BY <1>1, <1>2, SequenceInduction
<1> QED
  BY <1>3

\* One more line is joined after a newline.
LEMMA JoinedAppend ==
    ASSUME NEW ls \in Docs, NEW x \in Text
    PROVE  Joined(Append(ls, x)) = Joined(ls) \o <<Newline>> \o x
<1>1. ls \in Seq(Text) /\ ls # << >> /\ Append(ls, x) \in Seq(Text) /\ Len(Append(ls, x)) = Len(ls) + 1
  BY AppendProperties DEF Docs
<1>2. PICK f : IsJoining(ls, f) /\ \A n \in 1..Len(ls) : f[n] \in Text
  BY <1>1, JoiningExists
<1>3. PICK g : /\ IsJoining(Append(ls, x), g)
               /\ g[Len(ls) + 1] = IF ls = << >> THEN x ELSE f[Len(ls)] \o <<Newline>> \o x
  BY <1>1, <1>2, JoiningExtends
<1> QED
  BY <1>1, <1>2, <1>3, JoinIs

\* Lines that are joined (getText) make a text.
LEMMA JoinedText ==
    ASSUME NEW ls \in Docs
    PROVE  Joined(ls) \in Text
<1>1. ls \in Seq(Text) /\ Len(ls) \in 1..Len(ls)
  BY EmptySeq DEF Docs
<1> QED
  BY <1>1, JoiningExists, JoinIs

\* A single line is its own text.
LEMMA JoinedSingle ==
    ASSUME NEW x \in Text
    PROVE  Joined(<<x>>) = x
<1>1. <<x>> \in Seq(Text) /\ Len(<<x>>) = 1 /\ <<x>>[1] = x
  OBVIOUS
<1>2. PICK f : IsJoining(<<x>>, f)
  BY <1>1, JoiningExists
<1>3. f[1] = x
  BY <1>1, <1>2 DEF IsJoining
<1> QED
  BY <1>1, <1>2, <1>3, JoinIs

\* To extend lines by a byte is to append it to what they join to.
LEMMA JoinedExtended ==
    ASSUME NEW ls \in Docs, NEW c \in Byte
    PROVE  Joined(Extended(ls, c)) = Append(Joined(ls), c)
<1>1. Joined(ls) \in Text /\ Append(Joined(ls), c) = Joined(ls) \o <<c>>
  BY JoinedText, AppendIsConcat DEF Text
<1>2. CASE c = Newline
  <2>1. Joined(Append(ls, << >>)) = Joined(ls) \o <<Newline>> \o << >>
    BY JoinedAppend, NewlineText
  <2>2. Joined(ls) \o <<Newline>> \o << >> = Joined(ls) \o <<Newline>>
    BY <1>1, NewlineText, ConcatText, ConcatEmptySeq DEF Text
  <2> QED
    BY <1>1, <1>2, <2>1, <2>2 DEF Extended
<1>3. CASE c # Newline
  <2>1. ls \in Seq(Text) /\ ls # << >>
    BY DEF Docs
  <2>2. PICK l0 \in Seq(Text), x \in Text : ls = Append(l0, x)
    BY <2>1, SequenceEmptyOrAppend
  <2>3. x \o <<c>> \in Text /\ <<c>> \in Text
    BY ConcatProperties DEF Text
  <2>4. Extended(ls, c) = Append(l0, x \o <<c>>)
    <3> DEFINE u == Append(l0, x)
               v == Append(l0, x \o <<c>>)
    <3>1. /\ Len(l0) \in Nat /\ u \in Seq(Text) /\ Len(u) = Len(l0) + 1 /\ u = ls
          /\ u[Len(l0) + 1] = x /\ \A i \in 1..Len(l0) : u[i] = l0[i]
      BY <2>2, AppendFacts
    <3>2. /\ v \in Seq(Text) /\ Len(v) = Len(l0) + 1
          /\ v[Len(l0) + 1] = x \o <<c>> /\ \A i \in 1..Len(l0) : v[i] = l0[i]
      BY <2>3, AppendFacts
    <3>3. Append(x, c) = x \o <<c>>
      BY AppendIsConcat DEF Text
    <3> HIDE DEF u, v
    <3>4. /\ Extended(ls, c) \in Seq(Text) /\ Len(Extended(ls, c)) = Len(ls)
          /\ Extended(ls, c)[Len(ls)] = Append(ls[Len(ls)], c)
          /\ \A k \in 1..(Len(ls) - 1) : Extended(ls, c)[k] = ls[k]
      BY <1>3, ExtendedDoc DEF Docs
    <3>5. ASSUME NEW k \in 1..Len(v) PROVE Extended(ls, c)[k] = v[k]
      <4>1. CASE k \in 1..Len(l0)
        <5>1. k \in 1..(Len(ls) - 1) /\ ls[k] = l0[k] /\ v[k] = l0[k]
          BY <3>1, <3>2, <4>1
        <5> QED
          BY <3>4, <5>1
      <4>2. CASE k = Len(l0) + 1
        BY <3>1, <3>2, <3>3, <3>4, <4>2
      <4> QED
        BY <3>1, <3>2, <4>1, <4>2
    <3>6. Extended(ls, c) = v
      BY <3>1, <3>2, <3>4, <3>5, SeqEqual
    <3> QED
      BY <3>6 DEF v
  <2>5. CASE l0 = << >>
    <3>1. ls = <<x>> /\ Extended(ls, c) = <<x \o <<c>>>>
      BY <2>2, <2>4, <2>5
    <3> QED
      BY <3>1, <1>1, <2>3, JoinedSingle
  <2>6. CASE l0 # << >>
    <3>1. l0 \in Docs
      BY <2>6 DEF Docs
    <3>2. Joined(ls) = Joined(l0) \o <<Newline>> \o x
      BY <2>2, <3>1, JoinedAppend
    <3>3. Joined(Extended(ls, c)) = Joined(l0) \o <<Newline>> \o (x \o <<c>>)
      BY <2>3, <2>4, <3>1, JoinedAppend
    <3>4. Joined(l0) \o <<Newline>> \in Text
      BY <3>1, JoinedText, NewlineText, ConcatText
    <3>5. (Joined(l0) \o <<Newline>> \o x) \o <<c>> = Joined(l0) \o <<Newline>> \o (x \o <<c>>)
      BY SMTT(30), <2>3, <3>4, ConcatAssociative DEF Text
    <3> QED
      BY <1>1, <3>2, <3>3, <3>5
  <2> QED
    BY <2>5, <2>6
<1> QED
  BY <1>2, <1>3

\* getText gives back what setText was given.
LEMMA JoinedSplit ==
    ASSUME NEW text \in Text
    PROVE  Joined(splitLines(text)) = text
<1> DEFINE Q == {t \in Text : Joined(splitLines(t)) = t}
<1>1. << >> \in Q
  BY SplitEmpty, JoinedSingle, NewlineText
<1>2. ASSUME NEW t \in Text, NEW c \in Byte, t \in Q PROVE Append(t, c) \in Q
  <2>1. Append(t, c) \in Text
    BY AppendProperties DEF Text
  <2>2. Joined(splitLines(Append(t, c))) = Append(Joined(splitLines(t)), c)
    BY SplitAppend, SplitDoc, JoinedExtended
  <2> QED
    BY <1>2, <2>1, <2>2
<1>3. Seq(Byte) \subseteq Q
  <2> HIDE DEF Q
  <2> QED
    BY <1>1, <1>2, SequenceInduction DEF Text
<1> QED
  BY <1>3 DEF Text
-----------------------------------------------------------------------------
(* The lines of two texts, one after the other                              *)

\* What gluing the end of one document to the start of another gives.
Glued(A, B, C) ==
    /\ Len(C) = Len(A) + Len(B) - 1
    /\ \A k \in 1..(Len(A) - 1) : C[k] = A[k]
    /\ C[Len(A)] = A[Len(A)] \o B[1]
    /\ \A k \in 2..Len(B) : C[Len(A) + k - 1] = B[k]

\* Lines are texts, at least one.
LEMMA DocFacts ==
    ASSUME NEW ls \in Docs
    PROVE  /\ ls \in Seq(Text) /\ Len(ls) \in Nat /\ Len(ls) >= 1 /\ DOMAIN ls = 1..Len(ls)
           /\ \A k \in 1..Len(ls) : ls[k] \in Text /\ Len(ls[k]) \in Nat
<1>1. ls \in Seq(Text) /\ Len(ls) \in Nat \ {0}
  BY EmptySeq DEF Docs
<1>2. \A k \in 1..Len(ls) : ls[k] \in Text /\ Len(ls[k]) \in Nat
  BY <1>1, ElementOfSeq, LenProperties DEF Text
<1> QED
  BY <1>1, <1>2, LenProperties

\* Two texts: their lengths and that of the two together.
LEMMA TextPair ==
    ASSUME NEW x \in Text, NEW y \in Text
    PROVE  /\ Len(x) \in Nat /\ Len(y) \in Nat
           /\ x \o y \in Text /\ Len(x \o y) = Len(x) + Len(y)
           /\ x \o << >> = x /\ << >> \o x = x
<1>1. x \o y \in Text /\ Len(x \o y) = Len(x) + Len(y)
  BY ConcatProperties DEF Text
<1>2. x \o << >> = x /\ << >> \o x = x /\ Len(x) \in Nat /\ Len(y) \in Nat
  BY ConcatEmptySeq, LenProperties DEF Text
<1> QED
  BY <1>1, <1>2

\* Three texts can be put together in either order.
LEMMA TextAssoc ==
    ASSUME NEW x \in Text, NEW y \in Text, NEW z \in Text
    PROVE  (x \o y) \o z = x \o (y \o z)
BY ConcatAssociative DEF Text

\* What follows the same first part is the same.
LEMMA TextCancel ==
    ASSUME NEW x \in Text, NEW y \in Text, NEW z \in Text, x \o y = x \o z
    PROVE  y = z
<1>1. /\ Len(x) \in Nat /\ Len(y) \in Nat /\ Len(z) \in Nat
      /\ Len(x \o y) = Len(x) + Len(y) /\ Len(x \o z) = Len(x) + Len(z)
      /\ \A i \in 1..(Len(x) + Len(y)) : (x \o y)[i] = IF i <= Len(x) THEN x[i] ELSE y[i - Len(x)]
      /\ \A i \in 1..(Len(x) + Len(z)) : (x \o z)[i] = IF i <= Len(x) THEN x[i] ELSE z[i - Len(x)]
  BY ConcatProperties, LenProperties DEF Text
<1>2. Len(y) = Len(z)
  BY <1>1
<1>3. ASSUME NEW i \in 1..Len(y) PROVE y[i] = z[i]
  <2>1. Len(x) + i \in 1..(Len(x) + Len(y)) /\ ~(Len(x) + i <= Len(x)) /\ (Len(x) + i) - Len(x) = i
    BY <1>1
  <2> QED
    BY <1>1, <1>2, <2>1
<1> QED
  BY <1>2, <1>3, SeqEqual DEF Text

\* A byte appended to the second of two texts.
LEMMA TextAppend ==
    ASSUME NEW x \in Text, NEW y \in Text, NEW c \in Byte
    PROVE  /\ Append(x, c) \in Text /\ Len(Append(x, c)) = Len(x) + 1
           /\ Append(x \o y, c) = x \o Append(y, c)
<1>1. <<c>> \in Text
  BY DEF Text
<1>2. Append(x, c) = x \o <<c>> /\ Append(y, c) = y \o <<c>> /\ Append(x \o y, c) = (x \o y) \o <<c>>
  BY AppendIsConcat, ConcatText DEF Text
<1> QED
  BY <1>1, <1>2, TextAssoc, AppendProperties DEF Text

\* Lines stay glued as the second text and the whole get one more byte.
LEMMA GluedExtends ==
    ASSUME NEW A \in Docs, NEW B \in Docs, NEW C \in Docs, NEW c \in Byte, Glued(A, B, C)
    PROVE  Glued(A, Extended(B, c), Extended(C, c))
<1> DEFINE B1 == Extended(B, c)
           C1 == Extended(C, c)
           a == Len(A)
           b == Len(B)
<1>1. /\ a \in Nat /\ a >= 1 /\ b \in Nat /\ b >= 1 /\ Len(C) \in Nat /\ Len(C) = a + b - 1
      /\ A[a] \in Text /\ B[1] \in Text /\ B[b] \in Text
  BY DocFacts DEF Glued
<1>2. /\ \A k \in 1..(a - 1) : C[k] = A[k]
      /\ C[a] = A[a] \o B[1]
      /\ \A k \in 2..b : C[a + k - 1] = B[k]
  BY DEF Glued
<1> HIDE DEF B1, C1
<1>3. CASE c = Newline
  <2>1. Len(B1) = b + 1 /\ B1[b + 1] = << >> /\ \A k \in 1..b : B1[k] = B[k]
    BY <1>3, ExtendedDoc DEF B1
  <2>2. Len(C1) = Len(C) + 1 /\ C1[Len(C) + 1] = << >> /\ \A k \in 1..Len(C) : C1[k] = C[k]
    BY <1>3, ExtendedDoc DEF C1
  <2>3. \A k \in 1..(a - 1) : C1[k] = A[k]
    <3>1. \A k \in 1..(a - 1) : k \in 1..Len(C)
      <4> HIDE DEF a, b
      <4> QED
        BY <1>1
    <3> QED
      BY <1>2, <2>2, <3>1
  <2>4. C1[a] = A[a] \o B1[1]
    <3>1. a \in 1..Len(C) /\ 1 \in 1..b
      BY <1>1
    <3> QED
      BY <3>1, <1>2, <2>1, <2>2
  <2>5. ASSUME NEW k \in 2..(b + 1) PROVE C1[a + k - 1] = B1[k]
    <3>1. CASE k = b + 1
      <4>1. a + k - 1 = Len(C) + 1
        BY <1>1, <3>1
      <4> QED
        BY <4>1, <3>1, <2>1, <2>2
    <3>2. CASE k \in 2..b
      <4>1. a + k - 1 \in 1..Len(C) /\ k \in 1..b
        BY <1>1, <3>2
      <4> QED
        BY <4>1, <3>2, <1>2, <2>1, <2>2
    <3> QED
      BY <1>1, <3>1, <3>2
  <2> QED
    BY <1>1, <2>1, <2>2, <2>3, <2>4, <2>5 DEF Glued, B1, C1
<1>4. CASE c # Newline
  <2>1. Len(B1) = b /\ B1[b] = Append(B[b], c) /\ \A k \in 1..(b - 1) : B1[k] = B[k]
    BY <1>4, ExtendedDoc DEF B1
  <2>2. Len(C1) = Len(C) /\ C1[Len(C)] = Append(C[Len(C)], c) /\ \A k \in 1..(Len(C) - 1) : C1[k] = C[k]
    BY <1>4, ExtendedDoc DEF C1
  <2>3. \A k \in 1..(a - 1) : C1[k] = A[k]
    <3>1. \A k \in 1..(a - 1) : k \in 1..(Len(C) - 1)
      <4> HIDE DEF a, b
      <4> QED
        BY <1>1
    <3> QED
      BY <1>2, <2>2, <3>1
  <2>4. C1[a] = A[a] \o B1[1]
    <3>1. CASE b = 1
      <4>1. Len(C) = a
        BY <1>1, <3>1
      <4>2. Append(A[a] \o B[1], c) = A[a] \o Append(B[1], c)
        BY <1>1, TextAppend
      <4> QED
        BY <4>1, <4>2, <3>1, <1>2, <2>1, <2>2
    <3>2. CASE b > 1
      <4>1. a \in 1..(Len(C) - 1) /\ 1 \in 1..(b - 1)
        BY <1>1, <3>2
      <4> QED
        BY <4>1, <1>2, <2>1, <2>2
    <3>3. b = 1 \/ b > 1
      BY <1>1
    <3> QED
      BY <3>1, <3>2, <3>3
  <2>5. ASSUME NEW k \in 2..b PROVE C1[a + k - 1] = B1[k]
    <3>1. CASE k = b
      <4>1. a + k - 1 = Len(C)
        BY <1>1, <3>1
      <4>2. C[Len(C)] = B[b]
        BY <4>1, <3>1, <1>2
      <4> QED
        BY <4>1, <4>2, <3>1, <2>1, <2>2
    <3>2. CASE k \in 2..(b - 1)
      <4>1. a + k - 1 \in 1..(Len(C) - 1) /\ k \in 1..(b - 1)
        BY <1>1, <3>2
      <4> QED
        BY <4>1, <3>2, <1>2, <2>1, <2>2
    <3> QED
      BY <1>1, <3>1, <3>2
  <2> QED
    BY <1>1, <2>1, <2>2, <2>3, <2>4, <2>5 DEF Glued, B1, C1
<1> QED
  BY <1>3, <1>4

\* The lines of two texts in a row are those of the one glued to those of the other: why a range
\* can be replaced without splitting all of the text again (applyRawReplace).
LEMMA SplitGlues ==
    ASSUME NEW u \in Text, NEW w \in Text
    PROVE  Glued(splitLines(u), splitLines(w), splitLines(u \o w))
<1> DEFINE A == splitLines(u)
           Q == {t \in Text : Glued(A, splitLines(t), splitLines(u \o t))}
<1>1. << >> \in Q
  <2>1. A \in Docs /\ << >> \in Text /\ u \o << >> = u /\ splitLines(<< >>) = << << >> >>
    BY SplitDoc, SplitEmpty, NewlineText, TextPair
  <2>2. A[Len(A)] \o << >> = A[Len(A)] /\ Len(A) \in Nat
    BY <2>1, DocFacts, TextPair
  <2> HIDE DEF A
  <2>3. Glued(A, << << >> >>, A)
    <3> DEFINE B == << << >> >>
    <3>1. Len(B) = 1 /\ B[1] = << >>
      OBVIOUS
    <3> HIDE DEF B
    <3>2. Glued(A, B, A)
      BY <2>2, <3>1 DEF Glued
    <3> QED
      BY <3>2 DEF B
  <2>4. Glued(A, splitLines(<< >>), splitLines(u \o << >>))
    BY <2>1, <2>3 DEF A
  <2> QED
    BY <2>1, <2>4 DEF A
<1>2. ASSUME NEW t \in Text, NEW c \in Byte, t \in Q PROVE Append(t, c) \in Q
  <2>1. Append(t, c) \in Text /\ u \o Append(t, c) = Append(u \o t, c) /\ u \o t \in Text
    BY TextAppend, ConcatText
  <2>2. A \in Docs /\ splitLines(t) \in Docs /\ splitLines(u \o t) \in Docs
    BY <2>1, SplitDoc
  <2>3. Glued(A, splitLines(t), splitLines(u \o t))
    BY <1>2
  <2>4. Glued(A, splitLines(Append(t, c)), splitLines(Append(u \o t, c)))
    <3> HIDE DEF A
    <3> QED
      BY <2>1, <2>2, <2>3, GluedExtends, SplitAppend
  <2> QED
    BY <2>1, <2>4
<1>3. Seq(Byte) \subseteq Q
  <2> HIDE DEF Q
  <2> QED
    BY <1>1, <1>2, SequenceInduction DEF Text
<1> QED
  BY <1>3 DEF Text

\* A text on one line.
NewlineFree(x) == \A i \in 1..Len(x) : x[i] # Newline

\* It is its own only line.
LEMMA LineIsOne ==
    ASSUME NEW x \in Text, NewlineFree(x)
    PROVE  splitLines(x) = <<x>>
<1> DEFINE Q == {t \in Text : NewlineFree(t) => splitLines(t) = <<t>>}
<1>1. << >> \in Q
  BY SplitEmpty, NewlineText
<1>2. ASSUME NEW t \in Text, NEW c \in Byte, t \in Q PROVE Append(t, c) \in Q
  <2> DEFINE u == Append(t, c)
  <2>1. /\ Len(t) \in Nat /\ u \in Text /\ Len(u) = Len(t) + 1
        /\ u[Len(t) + 1] = c /\ \A i \in 1..Len(t) : u[i] = t[i]
    BY AppendFacts DEF Text
  <2>2. splitLines(u) = Extended(splitLines(t), c)
    BY SplitAppend
  <2> HIDE DEF u
  <2>3. ASSUME NewlineFree(u) PROVE splitLines(u) = <<u>>
    <3>1. NewlineFree(t) /\ c # Newline
      BY <2>1, <2>3 DEF NewlineFree
    <3>2. splitLines(t) = <<t>>
      BY <3>1, <1>2
    <3>3. Extended(<<t>>, c) = <<u>>
      BY <3>1 DEF Extended, u
    <3> QED
      BY <2>2, <3>2, <3>3
  <2> QED
    BY <2>1, <2>3 DEF u
<1>3. Seq(Byte) \subseteq Q
  <2> HIDE DEF Q
  <2> QED
    BY <1>1, <1>2, SequenceInduction DEF Text
<1> QED
  BY <1>3 DEF Text

\* No line of a text has a newline in it.
LEMMA LinesNewlineFree ==
    ASSUME NEW text \in Text
    PROVE  \A k \in 1..Len(splitLines(text)) : NewlineFree(splitLines(text)[k])
<1> DEFINE Free(ls) == \A k \in 1..Len(ls) : NewlineFree(ls[k])
           Q == {t \in Text : Free(splitLines(t))}
<1>1. << >> \in Q
  <2>1. NewlineFree(<< >>)
    BY DEF NewlineFree
  <2>2. Free(<< << >> >>)
    BY <2>1
  <2> QED
    BY <2>2, SplitEmpty, NewlineText
<1>2. ASSUME NEW t \in Text, NEW c \in Byte, t \in Q PROVE Append(t, c) \in Q
  <2> DEFINE A == splitLines(t)
             B == Extended(A, c)
  <2>1. A \in Docs /\ Free(A) /\ splitLines(Append(t, c)) = B /\ Append(t, c) \in Text
    BY <1>2, SplitDoc, SplitAppend, TextAppend
  <2> HIDE DEF A
  <2>2. Len(A) \in Nat /\ Len(A) >= 1 /\ \A k \in 1..Len(A) : A[k] \in Text
    BY <2>1, DocFacts
  <2>3. CASE c = Newline
    <3>1. Len(B) = Len(A) + 1 /\ B[Len(A) + 1] = << >> /\ \A k \in 1..Len(A) : B[k] = A[k]
      BY <2>1, <2>3, ExtendedDoc
    <3>2. NewlineFree(<< >>)
      BY DEF NewlineFree
    <3> HIDE DEF B
    <3>3. Free(B)
      BY <2>1, <2>2, <3>1, <3>2
    <3> QED
      BY <2>1, <3>3
  <2>4. CASE c # Newline
    <3>1. Len(B) = Len(A) /\ B[Len(A)] = Append(A[Len(A)], c) /\ \A k \in 1..(Len(A) - 1) : B[k] = A[k]
      BY <2>1, <2>4, ExtendedDoc
    <3> DEFINE x == A[Len(A)]
               y == Append(x, c)
    <3>2. x \in Text /\ NewlineFree(x)
      BY <2>1, <2>2
    <3> HIDE DEF x
    <3>3. /\ Len(x) \in Nat /\ Len(y) = Len(x) + 1
          /\ y[Len(x) + 1] = c /\ \A i \in 1..Len(x) : y[i] = x[i]
      BY <3>2, AppendFacts DEF Text
    <3> HIDE DEF y
    <3>4. NewlineFree(y)
      BY <2>4, <3>2, <3>3 DEF NewlineFree
    <3> HIDE DEF B
    <3>5. ASSUME NEW k \in 1..Len(B) PROVE NewlineFree(B[k])
      <4>1. CASE k = Len(A)
        BY <3>1, <3>4, <4>1 DEF x, y
      <4>2. CASE k \in 1..(Len(A) - 1)
        BY <2>1, <2>2, <3>1, <4>2
      <4> QED
        BY <2>2, <3>1, <4>1, <4>2
    <3> QED
      BY <2>1, <3>5
  <2> QED
    BY <2>3, <2>4
<1>3. Seq(Byte) \subseteq Q
  <2> HIDE DEF Q
  <2> QED
    BY <1>1, <1>2, SequenceInduction DEF Text
<1> QED
  BY <1>3 DEF Text

\* A text with a single line is that line.
LEMMA OneLine ==
    ASSUME NEW text \in Text, Len(splitLines(text)) = 1
    PROVE  splitLines(text)[1] = text
<1> DEFINE A == splitLines(text)
<1>1. A \in Seq(Text) /\ A[1] \in Text
  BY SplitDoc, DocFacts
<1>2. A = <<A[1]>>
  <2> HIDE DEF A
  <2>1. <<A[1]>> \in Seq(Text) /\ Len(<<A[1]>>) = 1 /\ <<A[1]>>[1] = A[1] /\ Len(A) = 1
    BY <1>1 DEF A
  <2> QED
    BY <1>1, <2>1, SeqEqual
<1>3. Joined(A) = text
  BY JoinedSplit
<1> QED
  BY <1>1, <1>2, <1>3, JoinedSingle
-----------------------------------------------------------------------------
(* Places of a text                                                         *)

\* The place where a text ends: what EndOf computes, from the beginning of the document.
PosAfter(u) == <<Len(splitLines(u)), Len(splitLines(u)[Len(splitLines(u))])>>

\* A place within lines: InText, of any lines.
InLines(ls, p) == p \in Nat \X Nat /\ p[1] \in DOMAIN ls /\ p[2] \in 0..Len(ls[p[1]])

\* SplitGlues, with the types of everything in it.
LEMMA GluedFacts ==
    ASSUME NEW u \in Text, NEW w \in Text
    PROVE  LET A == splitLines(u)
               B == splitLines(w)
               C == splitLines(u \o w)
           IN
           /\ A \in Docs /\ B \in Docs /\ C \in Docs
           /\ Len(A) \in Nat /\ Len(A) >= 1 /\ Len(B) \in Nat /\ Len(B) >= 1
           /\ Len(C) \in Nat /\ Len(C) = Len(A) + Len(B) - 1
           /\ \A k \in 1..Len(A) : A[k] \in Text /\ Len(A[k]) \in Nat
           /\ \A k \in 1..Len(B) : B[k] \in Text /\ Len(B[k]) \in Nat
           /\ A[Len(A)] \in Text /\ Len(A[Len(A)]) \in Nat /\ B[1] \in Text /\ Len(B[1]) \in Nat
           /\ \A k \in 1..(Len(A) - 1) : C[k] = A[k]
           /\ C[Len(A)] = A[Len(A)] \o B[1]
           /\ \A k \in 2..Len(B) : C[Len(A) + k - 1] = B[k]
<1> DEFINE A == splitLines(u)
           B == splitLines(w)
           C == splitLines(u \o w)
<1>1. Glued(A, B, C)
  BY SplitGlues
<1>2. A \in Docs /\ B \in Docs /\ C \in Docs
  BY SplitDoc, TextPair
<1> HIDE DEF A, B, C
<1>3. /\ Len(A) \in Nat /\ Len(A) >= 1 /\ Len(B) \in Nat /\ Len(B) >= 1 /\ Len(C) \in Nat
      /\ \A k \in 1..Len(A) : A[k] \in Text /\ Len(A[k]) \in Nat
      /\ \A k \in 1..Len(B) : B[k] \in Text /\ Len(B[k]) \in Nat
  BY <1>2, DocFacts
<1>4. A[Len(A)] \in Text /\ Len(A[Len(A)]) \in Nat /\ B[1] \in Text /\ Len(B[1]) \in Nat
  BY <1>3
<1> QED
  BY <1>1, <1>2, <1>3, <1>4 DEF Glued, A, B, C

\* The end of a text is a line and a column.
LEMMA PosIsPair ==
    ASSUME NEW u \in Text
    PROVE  /\ PosAfter(u) \in Nat \X Nat
           /\ PosAfter(u)[1] = Len(splitLines(u))
           /\ PosAfter(u)[2] = Len(splitLines(u)[Len(splitLines(u))])
<1> DEFINE A == splitLines(u)
<1>1. A \in Docs
  BY SplitDoc
<1>2. Len(A) \in Nat /\ Len(A[Len(A)]) \in Nat
  <2> HIDE DEF A
  <2> QED
    BY <1>1, DocFacts
<1> QED
  BY <1>2 DEF PosAfter

\* What is before and after a place of a text, as lines
CutAt(C, p, x, y) ==
    /\ InLines(C, p)
    /\ Before(C[p[1]], p[2]) = x
    /\ After(C[p[1]], p[2]) = y
    /\ C[p[1]] = x \o y
    /\ p[2] = Len(x)

\* The end of the first of two texts is a place in the lines of both, and it cuts its line into the
\* last line of the first and the first one of the second.
LEMMA Cut ==
    ASSUME NEW u \in Text, NEW w \in Text
    PROVE  CutAt(splitLines(u \o w), PosAfter(u), splitLines(u)[Len(splitLines(u))], splitLines(w)[1])
<1> DEFINE A == splitLines(u)
           B == splitLines(w)
           C == splitLines(u \o w)
           p == PosAfter(u)
<1>1. /\ A \in Docs /\ B \in Docs /\ C \in Docs
      /\ Len(A) \in Nat /\ Len(A) >= 1 /\ Len(B) \in Nat /\ Len(B) >= 1
      /\ Len(C) \in Nat /\ Len(C) = Len(A) + Len(B) - 1
      /\ C[Len(A)] = A[Len(A)] \o B[1]
      /\ A[Len(A)] \in Text /\ B[1] \in Text
  BY GluedFacts
<1>2. p \in Nat \X Nat /\ p[1] = Len(A) /\ p[2] = Len(A[Len(A)])
  BY PosIsPair
<1>9. Len(C) \in Nat /\ DOMAIN C = 1..Len(C)
  BY <1>1, DocFacts
<1> HIDE DEF A, B, C, p
<1> DEFINE x == A[Len(A)]
           y == B[1]
<1>3. x \in Text /\ y \in Text /\ p[2] = Len(x) /\ C[p[1]] = x \o y
  BY <1>1, <1>2
<1> HIDE DEF x, y
<1>4. /\ Len(x) \in Nat /\ Len(y) \in Nat /\ Len(x \o y) = Len(x) + Len(y)
      /\ \A i \in 1..(Len(x) + Len(y)) : (x \o y)[i] = IF i <= Len(x) THEN x[i] ELSE y[i - Len(x)]
      /\ x \o y \in Text
  BY <1>3, ConcatProperties, LenProperties DEF Text
<1>5. SubSeq(x \o y, 1, Len(x)) = x
  <2> DEFINE s == SubSeq(x \o y, 1, Len(x))
  <2>1. \A i \in 1..Len(x) : (x \o y)[i] \in Byte /\ (x \o y)[i] = x[i]
    BY <1>3, <1>4, ElementOfSeq DEF Text
  <2>2. s \in Text /\ Len(s) = Len(x) /\ \A i \in 1..Len(x) : s[i] = (x \o y)[i]
    BY <1>4, <2>1, SubSeqProperties DEF Text
  <2> HIDE DEF s
  <2>3. s = x
    BY <1>3, <2>1, <2>2, SeqEqual DEF Text
  <2> QED
    BY <2>3 DEF s
<1>6. SubSeq(x \o y, Len(x) + 1, Len(x \o y)) = y
  <2> DEFINE s == SubSeq(x \o y, Len(x) + 1, Len(x) + Len(y))
  <2>1. \A i \in (Len(x) + 1)..(Len(x) + Len(y)) : (x \o y)[i] \in Byte
    BY <1>3, <1>4, ElementOfSeq DEF Text
  <2>2. s \in Text /\ Len(s) = Len(y) /\ \A i \in 1..Len(y) : s[i] = (x \o y)[Len(x) + i]
    BY <1>4, <2>1, SubSeqProperties DEF Text
  <2> HIDE DEF s
  <2>4. \A i \in 1..Len(y) : s[i] = y[i]
    BY <1>3, <1>4, <2>2
  <2>3. s = y
    BY <1>3, <2>2, <2>4, SeqEqual DEF Text
  <2> QED
    BY <2>3, <1>4 DEF s
<1>7. Before(C[p[1]], p[2]) = x /\ After(C[p[1]], p[2]) = y
  BY <1>3, <1>4, <1>5, <1>6 DEF Before, After
<1>8. InLines(C, p)
  <2>2. p[1] \in 1..Len(C)
    BY <1>1, <1>2
  <2>3. p[2] \in 0..Len(C[p[1]])
    BY <1>3, <1>4
  <2> QED
    BY <1>2, <1>9, <2>2, <2>3 DEF InLines
<1> QED
  BY <1>3, <1>7, <1>8 DEF x, y, A, B, C, p, CutAt

\* EndOf finds where a text ends that is put in at some place (endPositionForInsertedText).
LEMMA EndIsPos ==
    ASSUME NEW u \in Text, NEW t \in Text
    PROVE  EndOf(PosAfter(u), t) = PosAfter(u \o t)
<1> DEFINE A == splitLines(u)
           B == splitLines(t)
           C == splitLines(u \o t)
           p == PosAfter(u)
           q == PosAfter(u \o t)
<1>0. u \o t \in Text
  BY ConcatText
<1>1. /\ Len(A) \in Nat /\ Len(A) >= 1 /\ Len(B) \in Nat /\ Len(B) >= 1
      /\ Len(C) \in Nat /\ Len(C) = Len(A) + Len(B) - 1
      /\ C[Len(A)] = A[Len(A)] \o B[1]
      /\ A[Len(A)] \in Text /\ B[1] \in Text
      /\ \A k \in 2..Len(B) : C[Len(A) + k - 1] = B[k]
  BY GluedFacts
<1>2. p[1] = Len(A) /\ p[2] = Len(A[Len(A)])
  BY PosIsPair
<1>3. q = <<Len(C), Len(C[Len(C)])>>
  BY DEF PosAfter
<1>4. EndOf(p, t) = IF Len(B) = 1 THEN <<p[1], p[2] + Len(t)>> ELSE <<p[1] + Len(B) - 1, Len(B[Len(B)])>>
  BY DEF EndOf
<1>5. CASE Len(B) = 1
  <2>1. B[1] = t
    BY <1>5, OneLine
  <2>2. Len(C) = Len(A) /\ Len(C[Len(C)]) = Len(A[Len(A)]) + Len(t)
    <3> HIDE DEF A, B, C
    <3>1. Len(C) = Len(A)
      BY <1>1, <1>5
    <3>2. Len(A[Len(A)] \o t) = Len(A[Len(A)]) + Len(t)
      BY <1>1, TextPair
    <3> QED
      BY <1>1, <3>1, <3>2, <2>1
  <2> QED
    BY <1>2, <1>3, <1>4, <1>5, <2>2
<1>6. CASE Len(B) > 1
  <2>1. Len(B) \in 2..Len(B) /\ Len(A) + Len(B) - 1 = Len(C) /\ Len(B) # 1
    <3> HIDE DEF A, B, C
    <3> QED
      BY <1>1, <1>6
  <2>2. C[Len(C)] = B[Len(B)]
    BY <1>1, <2>1
  <2> QED
    BY <1>2, <1>3, <1>4, <2>1, <2>2
<1>7. Len(B) = 1 \/ Len(B) > 1
  <2> DEFINE n == Len(B)
  <2>1. n \in Nat /\ n >= 1
    BY <1>1
  <2> HIDE DEF n
  <2>2. n = 1 \/ n > 1
    BY <2>1
  <2> QED
    BY <2>2 DEF n
<1> QED
  BY <1>5, <1>6, <1>7

\* Every place in the lines of a text is the end of some first part of it.
LEMMA PositionCuts ==
    ASSUME NEW text \in Text, NEW p, InLines(splitLines(text), p)
    PROVE  \E u, w \in Text : text = u \o w /\ p = PosAfter(u)
<1> DEFINE Cuts(t, q) == \E u, w \in Text : t = u \o w /\ q = PosAfter(u)
           Q == {t \in Text : \A q \in Nat \X Nat : InLines(splitLines(t), q) => Cuts(t, q)}
<1>1. << >> \in Q
  <2>1. ASSUME NEW q \in Nat \X Nat, InLines(<< << >> >>, q) PROVE q = <<1, 0>>
    <3>1. q[1] \in 1..1 /\ q[1] = 1 /\ q[2] \in 0..0
      BY <2>1 DEF InLines
    <3> QED
      BY <3>1
  <2>2. PosAfter(<< >>) = <<1, 0>>
    BY SplitEmpty DEF PosAfter
  <2>3. << >> = << >> \o << >> /\ << >> \in Text
    BY NewlineText, TextPair
  <2>4. Cuts(<< >>, <<1, 0>>)
    BY <2>2, <2>3
  <2> HIDE DEF Cuts
  <2> QED
    BY <2>1, <2>3, <2>4, SplitEmpty
<1>2. ASSUME NEW t \in Text, NEW c \in Byte, t \in Q PROVE Append(t, c) \in Q
  <2> DEFINE A == splitLines(t)
             B == Extended(A, c)
             tc == Append(t, c)
  <2>1. A \in Docs /\ splitLines(tc) = B /\ B \in Docs /\ tc \in Text
    BY SplitDoc, SplitAppend, TextAppend
  <2> HIDE DEF A
  <2>2. Len(A) \in Nat /\ Len(A) >= 1 /\ DOMAIN A = 1..Len(A) /\ DOMAIN B = 1..Len(B) /\ \A k \in 1..Len(A) : A[k] \in Text
    BY <2>1, DocFacts
  <2>3. PosAfter(tc) = <<Len(B), Len(B[Len(B)])>>
    BY <2>1 DEF PosAfter
  <2>4. Cuts(tc, PosAfter(tc))
    <3>1. << >> \in Text /\ tc = tc \o << >>
      BY <2>1, NewlineText, TextPair
    <3> QED
      BY <2>1, <3>1
  <2>5. ASSUME NEW q \in Nat \X Nat, InLines(A, q) PROVE Cuts(tc, q)
    <3>1. PICK u \in Text, w \in Text : t = u \o w /\ q = PosAfter(u)
      BY <1>2, <2>5 DEF A
    <3>2. Append(w, c) \in Text /\ tc = u \o Append(w, c)
      BY <3>1, TextAppend
    <3> QED
      BY <3>1, <3>2
  <2>6. ASSUME NEW q \in Nat \X Nat, InLines(B, q), ~InLines(A, q) PROVE q = PosAfter(tc)
    <3>1. q[1] \in 1..Len(B) /\ q[2] \in 0..Len(B[q[1]]) /\ q = <<q[1], q[2]>> /\ q[1] \in Nat /\ q[2] \in Nat
      BY <2>2, <2>6 DEF InLines
    <3>2. ~(q[1] \in 1..Len(A) /\ q[2] \in 0..Len(A[q[1]]))
      BY <2>2, <2>6 DEF InLines
    <3> HIDE DEF B, tc
    <3>3. CASE c = Newline
      <4>1. Len(B) = Len(A) + 1 /\ B[Len(A) + 1] = << >> /\ \A k \in 1..Len(A) : B[k] = A[k]
        BY <2>1, <3>3, ExtendedDoc DEF B
      <4>2. q[1] = Len(A) + 1
        BY <2>2, <3>1, <3>2, <4>1
      <4>3. q[2] = 0
        BY <3>1, <4>1, <4>2
      <4>4. PosAfter(tc) = <<Len(A) + 1, 0>>
        BY <2>3, <4>1
      <4> QED
        BY <3>1, <4>2, <4>3, <4>4
    <3>4. CASE c # Newline
      <4>1. Len(B) = Len(A) /\ B[Len(A)] = Append(A[Len(A)], c) /\ \A k \in 1..(Len(A) - 1) : B[k] = A[k]
        BY <2>1, <3>4, ExtendedDoc DEF B
      <4>2. q[1] = Len(A)
        BY <2>2, <3>1, <3>2, <4>1
      <4>3. Len(A[Len(A)]) \in Nat /\ Len(Append(A[Len(A)], c)) = Len(A[Len(A)]) + 1
        BY <2>2, TextAppend, TextPair
      <4>4. q[2] = Len(A[Len(A)]) + 1
        BY <2>2, <3>1, <3>2, <4>1, <4>2, <4>3
      <4>5. PosAfter(tc) = <<Len(A), Len(A[Len(A)]) + 1>>
        BY <2>3, <4>1, <4>3
      <4> QED
        BY <3>1, <4>2, <4>4, <4>5
    <3> QED
      BY <3>3, <3>4
  <2>7. \A q \in Nat \X Nat : InLines(B, q) => Cuts(tc, q)
    <3> HIDE DEF Cuts, B, tc
    <3> QED
      BY <2>4, <2>5, <2>6
  <2> QED
    BY <2>1, <2>7
<1>3. Seq(Byte) \subseteq Q
  <2> HIDE DEF Q
  <2> QED
    BY <1>1, <1>2, SequenceInduction DEF Text
<1>4. text \in Q /\ p \in Nat \X Nat
  <2> HIDE DEF Q
  <2> QED
    BY <1>3 DEF Text, InLines
<1> QED
  BY <1>4

\* v starts with u, and what is left of w after the rest of v is z
GoesOn(u, w, v, z) == \E m \in Text : v = u \o m /\ w = m \o z

\* Of two first parts of one text one goes on where the other ends
LEMMA PrefixesCompare ==
    ASSUME NEW u \in Text, NEW w \in Text, NEW v \in Text, NEW z \in Text, u \o w = v \o z, Len(u) <= Len(v)
    PROVE  GoesOn(u, w, v, z)
<1>1. /\ Len(u) \in Nat /\ Len(w) \in Nat /\ Len(v) \in Nat /\ Len(z) \in Nat
      /\ Len(u \o w) = Len(u) + Len(w) /\ Len(v \o z) = Len(v) + Len(z)
      /\ \A i \in 1..(Len(u) + Len(w)) : (u \o w)[i] = IF i <= Len(u) THEN u[i] ELSE w[i - Len(u)]
      /\ \A i \in 1..(Len(v) + Len(z)) : (v \o z)[i] = IF i <= Len(v) THEN v[i] ELSE z[i - Len(v)]
  BY ConcatProperties, LenProperties DEF Text
<1> DEFINE m == SubSeq(v, Len(u) + 1, Len(v))
<1>2. \A i \in (Len(u) + 1)..Len(v) : v[i] \in Byte
  BY <1>1, ElementOfSeq DEF Text
<1>3. m \in Text /\ Len(m) = Len(v) - Len(u) /\ \A i \in 1..(Len(v) - Len(u)) : m[i] = v[Len(u) + i]
  BY <1>1, <1>2, SubSeqProperties DEF Text
<1> HIDE DEF m
<1>4. /\ u \o m \in Text /\ Len(u \o m) = Len(v)
      /\ \A i \in 1..Len(v) : (u \o m)[i] = IF i <= Len(u) THEN u[i] ELSE m[i - Len(u)]
  <2>1. /\ u \o m \in Text /\ Len(u \o m) = Len(u) + Len(m)
        /\ \A i \in 1..(Len(u) + Len(m)) : (u \o m)[i] = IF i <= Len(u) THEN u[i] ELSE m[i - Len(u)]
    BY <1>3, ConcatProperties DEF Text
  <2>2. Len(u) + Len(m) = Len(v)
    BY <1>1, <1>3
  <2> QED
    BY <2>1, <2>2
<1>5. ASSUME NEW i \in 1..Len(v) PROVE (u \o m)[i] = v[i]
  <2>1. CASE i <= Len(u)
    <3>1. (u \o m)[i] = u[i]
      BY <1>4, <2>1
    <3>2. i \in 1..(Len(u) + Len(w)) /\ i \in 1..(Len(v) + Len(z)) /\ i <= Len(v)
      BY <1>1, <2>1
    <3>3. (u \o w)[i] = u[i] /\ (v \o z)[i] = v[i]
      BY <1>1, <2>1, <3>2
    <3> QED
      BY <3>1, <3>3
  <2>2. CASE i > Len(u)
    <3>1. i - Len(u) \in 1..(Len(v) - Len(u)) /\ Len(u) + (i - Len(u)) = i /\ ~(i <= Len(u))
      BY <1>1, <2>2
    <3>2. (u \o m)[i] = m[i - Len(u)]
      BY <1>4, <3>1
    <3> QED
      BY <1>3, <3>1, <3>2
  <2>3. i <= Len(u) \/ i > Len(u)
    BY <1>1
  <2> QED
    BY <2>1, <2>2, <2>3
<1>6. v = u \o m
  BY <1>4, <1>5, SeqEqual DEF Text
<1>7. u \o w = u \o (m \o z) /\ m \o z \in Text
  <2>1. (u \o m) \o z = u \o (m \o z)
    BY SMTT(30), <1>3, TextAssoc
  <2> QED
    BY <1>3, <1>6, <2>1, ConcatText
<1>8. w = m \o z
  BY <1>3, <1>7, TextCancel
<1> QED
  BY <1>3, <1>6, <1>8 DEF GoesOn

\* A longer first part ends later, and one that does not end later is no longer.
LEMMA PosOrder ==
    ASSUME NEW u \in Text, NEW m \in Text
    PROVE  /\ Precedes(PosAfter(u), PosAfter(u \o m))
           /\ Precedes(PosAfter(u \o m), PosAfter(u)) => m = << >>
<1> DEFINE A == splitLines(u)
           B == splitLines(m)
           C == splitLines(u \o m)
           p == PosAfter(u)
           q == PosAfter(u \o m)
<1>0. u \o m \in Text
  BY ConcatText
<1>1. /\ Len(A) \in Nat /\ Len(A) >= 1 /\ Len(B) \in Nat /\ Len(B) >= 1
      /\ Len(C) \in Nat /\ Len(C) = Len(A) + Len(B) - 1
      /\ C[Len(A)] = A[Len(A)] \o B[1]
      /\ A[Len(A)] \in Text /\ B[1] \in Text
  BY GluedFacts
<1>2. p[1] = Len(A) /\ p[2] = Len(A[Len(A)]) /\ q[1] = Len(C) /\ q[2] = Len(C[Len(C)])
  BY <1>0, PosIsPair
<1>3. p[1] \in Nat /\ p[2] \in Nat /\ q[1] \in Nat /\ q[2] \in Nat
  BY <1>0, PosIsPair
<1>4. CASE Len(B) = 1
  <2>1. B[1] = m
    BY <1>4, OneLine
  <2> HIDE DEF A, B, C, p, q
  <2>2. Len(C) = Len(A)
    BY <1>1, <1>4
  <2>3. Len(m) \in Nat /\ Len(A[Len(A)] \o m) = Len(A[Len(A)]) + Len(m)
    BY <1>1, TextPair
  <2>4. q[1] = p[1] /\ q[2] = p[2] + Len(m)
    BY <1>1, <1>2, <2>1, <2>2, <2>3
  <2>5. Precedes(p, q)
    BY <1>3, <2>3, <2>4 DEF Precedes
  <2>6. ASSUME Precedes(q, p) PROVE m = << >>
    <3>1. Len(m) = 0
      BY <1>3, <2>3, <2>4, <2>6 DEF Precedes
    <3> QED
      BY <3>1, EmptySeq DEF Text
  <2> QED
    BY <2>5, <2>6 DEF p, q
<1>5. CASE Len(B) > 1
  <2> HIDE DEF A, B, C, p, q
  <2>1. p[1] < q[1]
    BY <1>1, <1>2, <1>5
  <2> QED
    BY <1>3, <2>1 DEF Precedes, p, q
<1>6. Len(B) = 1 \/ Len(B) > 1
  <2> DEFINE n == Len(B)
  <2>1. n \in Nat /\ n >= 1
    BY <1>1
  <2> HIDE DEF n
  <2>2. n = 1 \/ n > 1
    BY <2>1
  <2> QED
    BY <2>2 DEF n
<1> QED
  BY <1>4, <1>5, <1>6

\* m is the part of a text from p to q, u is before it and w after it
IsPart(text, p, q, u, m, w) ==
    /\ text = u \o (m \o w)
    /\ text = (u \o m) \o w
    /\ p = PosAfter(u)
    /\ q = PosAfter(u \o m)

\* Two places of a text in order are the ends of a part of it
LEMMA RangeCuts ==
    ASSUME NEW text \in Text, NEW p, NEW q, InLines(splitLines(text), p), InLines(splitLines(text), q),
           Precedes(p, q)
    PROVE  \E u, m, w \in Text : IsPart(text, p, q, u, m, w)
<1>1. PICK u \in Text, w1 \in Text : text = u \o w1 /\ p = PosAfter(u)
  BY PositionCuts
<1>2. PICK v \in Text, w \in Text : text = v \o w /\ q = PosAfter(v)
  BY PositionCuts
<1>3. CASE Len(u) <= Len(v)
  <2>0. GoesOn(u, w1, v, w)
    <3>1. u \o w1 = v \o w
      BY <1>1, <1>2
    <3> QED
      BY <3>1, <1>3, PrefixesCompare
  <2>1. PICK m \in Text : v = u \o m /\ w1 = m \o w
    BY <2>0 DEF GoesOn
  <2> QED
    BY <1>1, <1>2, <2>1 DEF IsPart
<1>4. CASE Len(v) <= Len(u)
  <2>0. GoesOn(v, w, u, w1)
    <3>1. v \o w = u \o w1
      BY <1>1, <1>2
    <3> QED
      BY <3>1, <1>4, PrefixesCompare
  <2>1. PICK m \in Text : u = v \o m /\ w = m \o w1
    BY <2>0 DEF GoesOn
  <2>2. m = << >>
    BY <1>1, <1>2, <2>1, PosOrder
  <2>3. u = v /\ w = w1
    BY <2>1, <2>2, TextPair
  <2>4. u = u \o << >> /\ w = << >> \o w /\ << >> \in Text
    BY TextPair, NewlineText
  <2> QED
    BY <1>1, <1>2, <2>3, <2>4 DEF IsPart
<1>5. Len(u) \in Nat /\ Len(v) \in Nat
  BY LenProperties DEF Text
<1>6. Len(u) <= Len(v) \/ Len(v) <= Len(u)
  BY <1>5
<1> QED
  BY <1>3, <1>4, <1>6

\* A place of a text is after one first part of it only
LEMMA PosInjective ==
    ASSUME NEW u \in Text, NEW w \in Text, NEW v \in Text, NEW z \in Text,
           u \o w = v \o z, PosAfter(u) = PosAfter(v)
    PROVE  u = v /\ w = z
<1>1. ASSUME NEW u1 \in Text, NEW w1 \in Text, NEW v1 \in Text, NEW z1 \in Text,
             u1 \o w1 = v1 \o z1, PosAfter(u1) = PosAfter(v1), Len(u1) <= Len(v1)
      PROVE  u1 = v1 /\ w1 = z1
  <2>0. GoesOn(u1, w1, v1, z1)
    BY <1>1, PrefixesCompare
  <2>1. PICK m \in Text : v1 = u1 \o m /\ w1 = m \o z1
    BY <2>0 DEF GoesOn
  <2>2. Precedes(PosAfter(v1), PosAfter(u1))
    <3>1. PosAfter(u1) \in Nat \X Nat
      BY PosIsPair
    <3>2. PosAfter(u1)[2] <= PosAfter(u1)[2]
      BY <3>1
    <3> QED
      BY <1>1, <3>2 DEF Precedes
  <2>3. m = << >>
    BY <2>1, <2>2, PosOrder
  <2> QED
    BY <2>1, <2>3, TextPair
<1>2. Len(u) <= Len(v) \/ Len(v) <= Len(u)
  BY LenProperties DEF Text
<1> QED
  BY <1>1, <1>2
-----------------------------------------------------------------------------
(* What the engine computes is what the edit means                          *)

\* A sequence is two others in a row if it has their elements.
LEMMA TwoParts ==
    ASSUME NEW S, NEW s1 \in Seq(S), NEW s2 \in Seq(S), NEW f \in Seq(S),
           Len(f) = Len(s1) + Len(s2),
           \A k \in 1..Len(s1) : f[k] = s1[k],
           \A k \in 1..Len(s2) : f[Len(s1) + k] = s2[k]
    PROVE  s1 \o s2 = f
<1>1. /\ Len(s1) \in Nat /\ Len(s2) \in Nat
      /\ s1 \o s2 \in Seq(S) /\ Len(s1 \o s2) = Len(s1) + Len(s2)
      /\ \A i \in 1..(Len(s1) + Len(s2)) : (s1 \o s2)[i] = IF i <= Len(s1) THEN s1[i] ELSE s2[i - Len(s1)]
  BY ConcatProperties, LenProperties
<1>2. ASSUME NEW i \in 1..(Len(s1) + Len(s2)) PROVE (s1 \o s2)[i] = f[i]
  <2>1. CASE i <= Len(s1)
    <3>1. i \in 1..Len(s1)
      BY <1>1, <2>1
    <3> QED
      BY <1>1, <2>1, <3>1
  <2>2. CASE i > Len(s1)
    <3> DEFINE k == i - Len(s1)
    <3>1. k \in 1..Len(s2) /\ Len(s1) + k = i /\ ~(i <= Len(s1))
      BY <1>1, <2>2
    <3>2. (s1 \o s2)[i] = s2[k]
      BY <1>1, <3>1
    <3>3. f[Len(s1) + k] = s2[k]
      BY <3>1
    <3> QED
      BY <3>1, <3>2, <3>3
  <2>3. i <= Len(s1) \/ i > Len(s1)
    BY <1>1
  <2> QED
    BY <2>1, <2>2, <2>3
<1> QED
  BY <1>1, <1>2, SeqEqual

\* A sequence is three others in a row if it has their elements.
LEMMA ThreeParts ==
    ASSUME NEW S, NEW s1 \in Seq(S), NEW s2 \in Seq(S), NEW s3 \in Seq(S), NEW f \in Seq(S),
           Len(f) = Len(s1) + Len(s2) + Len(s3),
           \A k \in 1..Len(s1) : f[k] = s1[k],
           \A k \in 1..Len(s2) : f[Len(s1) + k] = s2[k],
           \A k \in 1..Len(s3) : f[Len(s1) + Len(s2) + k] = s3[k]
    PROVE  s1 \o s2 \o s3 = f
<1> DEFINE s == s1 \o s2
<1>1. /\ Len(s1) \in Nat /\ Len(s2) \in Nat /\ Len(s3) \in Nat
      /\ s \in Seq(S) /\ Len(s) = Len(s1) + Len(s2)
      /\ \A i \in 1..(Len(s1) + Len(s2)) : s[i] = IF i <= Len(s1) THEN s1[i] ELSE s2[i - Len(s1)]
  BY ConcatProperties, LenProperties
<1> HIDE DEF s
<1>2. ASSUME NEW i \in 1..Len(s) PROVE f[i] = s[i]
  <2>1. CASE i <= Len(s1)
    <3>1. i \in 1..Len(s1) /\ i \in 1..(Len(s1) + Len(s2))
      BY <1>1, <2>1
    <3>2. s[i] = s1[i]
      BY <1>1, <2>1, <3>1
    <3> QED
      BY <3>1, <3>2
  <2>2. CASE i > Len(s1)
    <3> DEFINE k == i - Len(s1)
    <3>1. k \in 1..Len(s2) /\ Len(s1) + k = i /\ ~(i <= Len(s1)) /\ i \in 1..(Len(s1) + Len(s2))
      BY <1>1, <2>2
    <3>2. s[i] = s2[k]
      BY <1>1, <3>1
    <3>3. f[Len(s1) + k] = s2[k]
      BY <3>1
    <3> QED
      BY <3>1, <3>2, <3>3
  <2>3. i <= Len(s1) \/ i > Len(s1)
    BY <1>1
  <2> QED
    BY <2>1, <2>2, <2>3
<1>3. \A k \in 1..Len(s3) : f[Len(s) + k] = s3[k]
  BY <1>1
<1>4. Len(f) = Len(s) + Len(s3)
  BY <1>1
<1>5. s \o s3 = f
  BY <1>1, <1>2, <1>3, <1>4, TwoParts
<1> QED
  BY <1>5 DEF s

\* What a part of a sequence is.
LEMMA PartFacts ==
    ASSUME NEW S, NEW s \in Seq(S), NEW m \in Nat, NEW n \in Nat, m >= 1, n <= Len(s), m <= n + 1
    PROVE  /\ SubSeq(s, m, n) \in Seq(S)
           /\ Len(SubSeq(s, m, n)) = n - m + 1
           /\ \A i \in 1..(n - m + 1) : SubSeq(s, m, n)[i] = s[m + i - 1]
<1>1. Len(s) \in Nat
  BY LenProperties
<1>2. \A i \in m..n : s[i] \in S
  <2> TAKE i \in m..n
  <2>1. i \in 1..Len(s)
    BY <1>1
  <2> QED
    BY <2>1, ElementOfSeq
<1>3. /\ SubSeq(s, m, n) \in Seq(S)
      /\ Len(SubSeq(s, m, n)) = IF m <= n THEN n - m + 1 ELSE 0
      /\ \A i \in 1..(n - m + 1) : SubSeq(s, m, n)[i] = s[m + i - 1]
  BY <1>2, SubSeqProperties
<1>4. (IF m <= n THEN n - m + 1 ELSE 0) = n - m + 1
  OBVIOUS
<1> QED
  BY <1>3, <1>4

\* applyRawReplace works on three lines at most, and gives the lines of the whole text with the new
\* part in the place of the old one.
LEMMA RawIsReplace ==
    ASSUME NEW u \in Text, NEW m \in Text, NEW w \in Text, NEW t \in Text
    PROVE  RawReplaced(splitLines((u \o m) \o w), PosAfter(u), PosAfter(u \o m), t) = splitLines((u \o t) \o w)
<1> DEFINE A == splitLines(u)
           B == splitLines(w)
           G == splitLines(t)
           V == splitLines(u \o m)
           L == splitLines((u \o m) \o w)
           D == splitLines(u \o t)
           F == splitLines((u \o t) \o w)
           p == PosAfter(u)
           q == PosAfter(u \o m)
           X == A[Len(A)]
           Y == B[1]
           N == splitLines(X \o t)
           M == splitLines((X \o t) \o Y)
           a == Len(A)
           b == Len(B)
           g == Len(G)
<1>1. /\ (u \o m) \o w = u \o (m \o w) /\ u \o m \in Text /\ m \o w \in Text /\ u \o t \in Text
      /\ (u \o m) \o w \in Text /\ (u \o t) \o w \in Text
  <2>1. u \o m \in Text /\ m \o w \in Text /\ u \o t \in Text
    BY ConcatText
  <2>2. (u \o m) \o w = u \o (m \o w)
    BY TextAssoc
  <2>3. (u \o m) \o w \in Text /\ (u \o t) \o w \in Text
    BY <2>1, ConcatText
  <2> QED
    BY <2>1, <2>2, <2>3
<1>2. /\ A \in Docs /\ B \in Docs /\ G \in Docs /\ L \in Docs /\ F \in Docs /\ V \in Docs
      /\ a \in Nat /\ a >= 1 /\ b \in Nat /\ b >= 1 /\ g \in Nat /\ g >= 1 /\ Len(V) \in Nat /\ Len(V) >= 1
      /\ X \in Text /\ Y \in Text
  <2>1. A \in Docs /\ B \in Docs /\ G \in Docs /\ L \in Docs /\ F \in Docs /\ V \in Docs
    BY <1>1, SplitDoc
  <2> HIDE DEF A, B, G, L, F, V
  <2>2. /\ a \in Nat /\ a >= 1 /\ b \in Nat /\ b >= 1 /\ g \in Nat /\ g >= 1 /\ Len(V) \in Nat /\ Len(V) >= 1
    BY <2>1, DocFacts
  <2>3. X \in Text /\ Y \in Text
    BY <2>1, <2>2, DocFacts
  <2> QED
    BY <2>1, <2>2, <2>3
<1>3. splitLines(X) = <<X>> /\ splitLines(Y) = <<Y>>
  <2>1. NewlineFree(X) /\ NewlineFree(Y)
    BY <1>2, LinesNewlineFree
  <2> QED
    BY <1>2, <2>1, LineIsOne
<1>4. Glued(A, splitLines(m \o w), L) /\ Glued(V, B, L) /\ Glued(A, splitLines(m), V)
  BY <1>1, SplitGlues
<1>5. Glued(A, G, D) /\ Glued(D, B, F)
  BY <1>1, SplitGlues
<1>6. CutAt(L, p, X, splitLines(m \o w)[1]) /\ CutAt(L, q, V[Len(V)], Y)
  BY <1>1, Cut
<1>7. p[1] = a /\ q[1] = Len(V)
  BY <1>1, PosIsPair
<1>8. Len(splitLines(m)) \in Nat /\ Len(splitLines(m)) >= 1
  BY SplitDoc, DocFacts
<1>9. /\ X \o t \in Text /\ Len(N) = g /\ N[1] = X \o G[1] /\ \A k \in 2..g : N[k] = G[k]
  <2>1. X \o t \in Text
    BY <1>2, TextPair
  <2> DEFINE Z == splitLines(X)
  <2>2. Glued(Z, G, N)
    BY <1>2, SplitGlues
  <2>3. Len(Z) = 1 /\ Z[1] = X
    BY <1>3
  <2> HIDE DEF A, B, G, N, Z
  <2>4. Len(N) = 1 + g - 1 /\ N[1] = X \o G[1] /\ \A k \in 2..g : N[1 + k - 1] = G[k]
    BY <2>2, <2>3 DEF Glued
  <2>5. 1 + g - 1 = g /\ \A k \in 2..g : 1 + k - 1 = k
    BY <1>2
  <2> QED
    BY <2>1, <2>4, <2>5
<1>10. /\ M \in Docs /\ Len(M) = g /\ M[g] = N[g] \o Y /\ \A k \in 1..(g - 1) : M[k] = N[k]
  <2> DEFINE Z == splitLines(Y)
  <2>1. M \in Docs
    BY <1>2, <1>9, ConcatText, SplitDoc
  <2>2. Glued(N, Z, M)
    BY <1>2, <1>9, SplitGlues
  <2>3. Len(Z) = 1 /\ Z[1] = Y
    BY <1>3
  <2> HIDE DEF A, B, G, N, M, Z
  <2>4. Len(M) = g + 1 - 1 /\ M[g] = N[g] \o Y /\ \A k \in 1..(g - 1) : M[k] = N[k]
    BY <1>9, <2>2, <2>3 DEF Glued
  <2> QED
    BY <1>2, <2>1, <2>4
<1>11. RawReplaced(L, p, q, t) = SubSeq(L, 1, a - 1) \o M \o SubSeq(L, Len(V) + 1, Len(L))
  BY <1>6, <1>7 DEF RawReplaced, CutAt
<1> HIDE DEF A, B, G, V, L, D, F, p, q, N, M
<1>12. \A k \in 1..(a - 1) : L[k] = A[k]
  BY <1>4 DEF Glued
<1>13. /\ Len(L) = Len(V) + b - 1 /\ \A k \in 2..b : L[Len(V) + k - 1] = B[k]
      /\ Len(V) \in Nat /\ Len(V) >= 1 /\ a <= Len(V)
  <2>1. Len(L) = Len(V) + b - 1 /\ \A k \in 2..b : L[Len(V) + k - 1] = B[k]
    BY <1>4 DEF Glued
  <2>2. Len(V) = a + Len(splitLines(m)) - 1
    BY <1>4 DEF Glued
  <2>3. a <= Len(V)
    BY <1>2, <1>8, <2>2
  <2> QED
    BY <1>2, <2>1, <2>3
<1>14. /\ Len(D) = a + g - 1 /\ \A k \in 1..(a - 1) : D[k] = A[k]
      /\ D[a] = X \o G[1] /\ \A k \in 2..g : D[a + k - 1] = G[k]
  BY <1>5 DEF Glued
<1>15. /\ Len(F) = Len(D) + b - 1 /\ \A k \in 1..(Len(D) - 1) : F[k] = D[k]
      /\ F[Len(D)] = D[Len(D)] \o Y /\ \A k \in 2..b : F[Len(D) + k - 1] = B[k]
  BY <1>5 DEF Glued
<1> HIDE DEF X, Y
<1> DEFINE P1 == SubSeq(L, 1, a - 1)
           P3 == SubSeq(L, Len(V) + 1, Len(L))
<1>16. L \in Seq(Text) /\ F \in Seq(Text) /\ M \in Seq(Text) /\ Len(L) \in Nat
  BY <1>2, <1>10, DocFacts
<1>17. P1 \in Seq(Text) /\ Len(P1) = a - 1 /\ \A k \in 1..(a - 1) : P1[k] = A[k]
  <2>1. a - 1 \in Nat /\ 1 >= 1 /\ a - 1 <= Len(L) /\ 1 <= (a - 1) + 1 /\ (a - 1) - 1 + 1 = a - 1
    BY <1>2, <1>13, <1>16
  <2>2. /\ P1 \in Seq(Text) /\ Len(P1) = (a - 1) - 1 + 1
        /\ \A i \in 1..((a - 1) - 1 + 1) : P1[i] = L[1 + i - 1]
    BY <1>16, <2>1, PartFacts
  <2> HIDE DEF P1
  <2>3. \A k \in 1..(a - 1) : 1 + k - 1 = k
    OBVIOUS
  <2> QED
    BY <1>12, <2>1, <2>2, <2>3
<1>18. P3 \in Seq(Text) /\ Len(P3) = b - 1 /\ \A k \in 1..(b - 1) : P3[k] = B[k + 1]
  <2>1. /\ Len(V) + 1 \in Nat /\ Len(V) + 1 >= 1 /\ Len(L) <= Len(L) /\ Len(V) + 1 <= Len(L) + 1
        /\ Len(L) - (Len(V) + 1) + 1 = b - 1
    BY <1>2, <1>13, <1>16
  <2>2. /\ P3 \in Seq(Text) /\ Len(P3) = Len(L) - (Len(V) + 1) + 1
        /\ \A i \in 1..(Len(L) - (Len(V) + 1) + 1) : P3[i] = L[(Len(V) + 1) + i - 1]
    BY <1>16, <2>1, PartFacts
  <2> HIDE DEF P3
  <2>3. ASSUME NEW k \in 1..(b - 1) PROVE P3[k] = B[k + 1]
    <3>1. (Len(V) + 1) + k - 1 = Len(V) + (k + 1) - 1 /\ k + 1 \in 2..b
      BY <1>2, <1>13
    <3>2. P3[k] = L[Len(V) + (k + 1) - 1]
      BY <2>1, <2>2, <3>1
    <3> QED
      BY <1>13, <3>1, <3>2
  <2> QED
    BY <2>1, <2>2, <2>3
<1>19. ASSUME NEW k \in 1..g PROVE D[a + k - 1] = N[k]
  <2>1. CASE k = 1
    <3>1. a + k - 1 = a
      BY <1>2, <2>1
    <3> QED
      BY <1>14, <1>9, <2>1, <3>1
  <2>2. CASE k \in 2..g
    BY <1>14, <1>9, <2>2
  <2> QED
    BY <1>2, <2>1, <2>2
<1>20. ASSUME NEW k \in 1..g PROVE F[(a - 1) + k] = M[k]
  <2>1. (a - 1) + k = a + k - 1 /\ Len(D) = a + g - 1 /\ a + g - 1 \in Nat
    BY <1>2, <1>14
  <2>2. CASE k = g
    BY <1>15, <1>10, <1>19, <2>1, <2>2
  <2>3. CASE k \in 1..(g - 1)
    <3>1. a + k - 1 \in 1..(Len(D) - 1)
      BY <1>2, <2>1, <2>3
    <3> QED
      BY <1>15, <1>10, <1>19, <2>1, <2>3, <3>1
  <2> QED
    BY <1>2, <2>2, <2>3
<1>21. ASSUME NEW k \in 1..(b - 1) PROVE F[(a - 1) + g + k] = P3[k]
  <2>1. (a - 1) + g + k = Len(D) + (k + 1) - 1 /\ k + 1 \in 2..b
    BY <1>2, <1>14
  <2> QED
    BY <1>15, <1>18, <2>1
<1>22. ASSUME NEW k \in 1..(a - 1) PROVE F[k] = P1[k]
  <2>1. k \in 1..(Len(D) - 1)
    BY <1>2, <1>14
  <2> QED
    BY <1>14, <1>15, <1>17, <2>1
<1>23. Len(F) = Len(P1) + Len(M) + Len(P3)
  <2>1. Len(F) = (a + g - 1) + b - 1 /\ Len(P1) = a - 1 /\ Len(M) = g /\ Len(P3) = b - 1
    BY <1>14, <1>15, <1>10, <1>17, <1>18
  <2>2. (a + g - 1) + b - 1 = (a - 1) + g + (b - 1)
    BY <1>2
  <2> QED
    BY <2>1, <2>2
<1>24. P1 \o M \o P3 = F
  <2> HIDE DEF P1, P3
  <2>1. /\ \A k \in 1..Len(P1) : F[k] = P1[k]
        /\ \A k \in 1..Len(M) : F[Len(P1) + k] = M[k]
        /\ \A k \in 1..Len(P3) : F[Len(P1) + Len(M) + k] = P3[k]
    BY <1>10, <1>17, <1>18, <1>20, <1>21, <1>22
  <2> QED
    BY ZenonT(40), <1>16, <1>17, <1>18, <1>23, <2>1, ThreeParts
<1> QED
  BY <1>11, <1>24 DEF L, p, q, F

\* The middle one of three texts is a part of them.
LEMMA MiddleOfText ==
    ASSUME NEW x \in Text, NEW y \in Text, NEW z \in Text
    PROVE  SubSeq(x \o (y \o z), Len(x) + 1, Len(x \o y)) = y
<1> DEFINE t == x \o (y \o z)
           s == SubSeq(t, Len(x) + 1, Len(x) + Len(y))
<1>1. /\ Len(x) \in Nat /\ Len(y) \in Nat /\ Len(z) \in Nat
      /\ y \o z \in Text /\ Len(y \o z) = Len(y) + Len(z)
      /\ \A i \in 1..(Len(y) + Len(z)) : (y \o z)[i] = IF i <= Len(y) THEN y[i] ELSE z[i - Len(y)]
      /\ Len(x \o y) = Len(x) + Len(y)
  BY ConcatProperties, LenProperties DEF Text
<1>2. /\ t \in Text /\ Len(t) = Len(x) + (Len(y) + Len(z))
      /\ \A i \in 1..(Len(x) + Len(y \o z)) : t[i] = IF i <= Len(x) THEN x[i] ELSE (y \o z)[i - Len(x)]
  BY <1>1, ConcatProperties DEF Text
<1> HIDE DEF t
<1>3. /\ s \in Text /\ Len(s) = Len(y) /\ \A i \in 1..Len(y) : s[i] = t[(Len(x) + 1) + i - 1]
  <2>1. /\ Len(x) + 1 \in Nat /\ Len(x) + Len(y) \in Nat /\ Len(x) + 1 >= 1 /\ Len(x) + Len(y) <= Len(t)
        /\ Len(x) + 1 <= (Len(x) + Len(y)) + 1 /\ (Len(x) + Len(y)) - (Len(x) + 1) + 1 = Len(y)
    BY <1>1, <1>2
  <2> HIDE DEF s
  <2>2. /\ s \in Seq(Byte) /\ Len(s) = (Len(x) + Len(y)) - (Len(x) + 1) + 1
        /\ \A i \in 1..((Len(x) + Len(y)) - (Len(x) + 1) + 1) : s[i] = t[(Len(x) + 1) + i - 1]
    BY <1>2, <2>1, PartFacts DEF s, Text
  <2> QED
    BY <2>1, <2>2 DEF Text
<1> HIDE DEF s
<1>4. ASSUME NEW i \in 1..Len(y) PROVE s[i] = y[i]
  <2> DEFINE j == Len(x) + i
  <2>1. /\ j = (Len(x) + 1) + i - 1 /\ j \in 1..(Len(x) + Len(y \o z)) /\ ~(j <= Len(x)) /\ j - Len(x) = i
        /\ i \in 1..(Len(y) + Len(z)) /\ i <= Len(y)
    BY <1>1
  <2> HIDE DEF j
  <2>2. t[j] = (y \o z)[i] /\ (y \o z)[i] = y[i] /\ s[i] = t[j]
    BY <1>1, <1>2, <1>3, <2>1
  <2> QED
    BY <2>2
<1>5. s = y
  BY <1>3, <1>4, SeqEqual DEF Text
<1> QED
  BY <1>1, <1>5 DEF s, t

\* textOfRange gives the part of the text between two places.
LEMMA RangeIsText ==
    ASSUME NEW u \in Text, NEW m \in Text, NEW w \in Text
    PROVE  textOfRange(splitLines((u \o m) \o w), PosAfter(u), PosAfter(u \o m)) = m
<1> DEFINE A == splitLines(u)
           B == splitLines(w)
           G == splitLines(m)
           W == splitLines(m \o w)
           V == splitLines(u \o m)
           L == splitLines((u \o m) \o w)
           p == PosAfter(u)
           q == PosAfter(u \o m)
           a == Len(A)
           g == Len(G)
           v == Len(V)
<1>1. /\ (u \o m) \o w = u \o (m \o w) /\ u \o m \in Text /\ m \o w \in Text /\ (u \o m) \o w \in Text
  <2>1. u \o m \in Text /\ m \o w \in Text
    BY ConcatText
  <2>2. (u \o m) \o w = u \o (m \o w)
    BY TextAssoc
  <2>3. (u \o m) \o w \in Text
    BY <2>1, ConcatText
  <2> QED
    BY <2>1, <2>2, <2>3
<1>2. /\ A \in Docs /\ B \in Docs /\ G \in Docs /\ W \in Docs /\ V \in Docs /\ L \in Docs
  BY <1>1, SplitDoc
<1>3. /\ Glued(A, G, V) /\ Glued(A, W, L) /\ Glued(V, B, L) /\ Glued(G, B, W)
  BY <1>1, SplitGlues
<1>4. CutAt(L, p, A[a], W[1]) /\ CutAt(L, q, V[v], B[1])
  BY <1>1, Cut
<1>5. p[1] = a /\ q[1] = v
  BY <1>1, PosIsPair
<1>6. g = 1 => G[1] = m
  BY OneLine
<1>7. Joined(G) = m
  BY JoinedSplit
<1>8. textOfRange(L, p, q) = IF p[1] = q[1] THEN SubSeq(L[p[1]], p[2] + 1, q[2])
                             ELSE Joined(<<After(L[p[1]], p[2])>> \o SubSeq(L, p[1] + 1, q[1] - 1)
                                           \o <<Before(L[q[1]], q[2])>>)
  BY DEF textOfRange
<1> HIDE DEF A, B, G, W, V, L, p, q
<1>9. /\ a \in Nat /\ a >= 1 /\ g \in Nat /\ g >= 1 /\ v \in Nat /\ v >= 1 /\ Len(B) \in Nat /\ Len(B) >= 1
      /\ Len(L) \in Nat /\ L \in Seq(Text) /\ G \in Seq(Text) /\ G # << >>
      /\ \A k \in 1..g : G[k] \in Text
  BY <1>2, DocFacts DEF Docs
<1>10. A[a] \in Text /\ B[1] \in Text /\ G[1] \in Text /\ G[g] \in Text /\ V[v] \in Text
  BY <1>2, <1>9, DocFacts
<1>11. v = a + g - 1
  BY <1>3 DEF Glued
<1>12. CASE g = 1
  <2>1. v = a
    <3>1. a + 1 - 1 = a
      BY <1>9
    <3> QED
      BY <1>11, <1>12, <3>1
  <2>2. V[a] = A[a] \o G[1] /\ W[1] = G[1] \o B[1]
    <3>1. V[a] = A[a] \o G[1] /\ W[g] = G[g] \o B[1]
      BY <1>3 DEF Glued
    <3> QED
      BY <3>1, <1>12
  <2>3. L[a] = A[a] \o (m \o B[1])
    BY <1>4, <1>5, <1>6, <1>12, <2>2 DEF CutAt
  <2>4. p[2] = Len(A[a]) /\ q[2] = Len(A[a] \o m) /\ p[1] = q[1]
    BY <1>4, <1>5, <1>6, <1>12, <2>1, <2>2 DEF CutAt
  <2>5. SubSeq(A[a] \o (m \o B[1]), Len(A[a]) + 1, Len(A[a] \o m)) = m
    BY <1>10, MiddleOfText
  <2>6. SubSeq(L[p[1]], p[2] + 1, q[2]) = m
    BY <1>5, <2>3, <2>4, <2>5
  <2> QED
    BY <1>8, <2>4, <2>6 DEF L, p, q
<1>13. CASE g > 1
  <2>1. p[1] # q[1] /\ q[1] = a + g - 1
    BY <1>5, <1>9, <1>11, <1>13
  <2>2. W[1] = G[1] /\ V[v] = G[g] /\ \A k \in 2..(g - 1) : L[a + k - 1] = G[k]
    <3>1. /\ \A k \in 1..(g - 1) : W[k] = G[k]
          /\ \A k \in 2..g : V[a + k - 1] = G[k]
          /\ \A k \in 1..(v - 1) : L[k] = V[k]
      BY <1>3 DEF Glued
    <3>2. g \in 2..g /\ 1 \in 1..(g - 1)
      BY <1>9, <1>13
    <3>3. ASSUME NEW k \in 2..(g - 1) PROVE L[a + k - 1] = G[k]
      <4>1. k \in 2..g /\ a + k - 1 \in 1..(v - 1)
        BY <1>9, <1>11
      <4> QED
        BY <3>1, <4>1
    <3> QED
      BY <1>11, <3>1, <3>2, <3>3
  <2>3. After(L[p[1]], p[2]) = G[1] /\ Before(L[q[1]], q[2]) = G[g]
    BY <1>4, <2>2 DEF CutAt
  <2> DEFINE s == SubSeq(L, a + 1, v - 1)
             s1 == <<G[1]>>
             s3 == <<G[g]>>
  <2>4. s \in Seq(Text) /\ Len(s) = g - 2 /\ \A i \in 1..(g - 2) : s[i] = G[i + 1]
    <3>1. /\ a + 1 \in Nat /\ v - 1 \in Nat /\ a + 1 >= 1 /\ v - 1 <= Len(L) /\ a + 1 <= (v - 1) + 1
          /\ (v - 1) - (a + 1) + 1 = g - 2
      <4>1. Len(L) = v + Len(B) - 1
        BY <1>3 DEF Glued
      <4> QED
        BY <1>9, <1>11, <1>13, <4>1
    <3>2. /\ s \in Seq(Text) /\ Len(s) = (v - 1) - (a + 1) + 1
          /\ \A i \in 1..((v - 1) - (a + 1) + 1) : s[i] = L[(a + 1) + i - 1]
      BY <1>9, <3>1, PartFacts
    <3> HIDE DEF s
    <3>3. ASSUME NEW i \in 1..(g - 2) PROVE s[i] = G[i + 1]
      <4>1. (a + 1) + i - 1 = a + (i + 1) - 1 /\ i + 1 \in 2..(g - 1)
        BY <1>9
      <4> QED
        BY <2>2, <3>1, <3>2, <4>1
    <3> QED
      BY <3>1, <3>2, <3>3
  <2>5. /\ s1 \in Seq(Text) /\ Len(s1) = 1 /\ s1[1] = G[1]
        /\ s3 \in Seq(Text) /\ Len(s3) = 1 /\ s3[1] = G[g]
    BY <1>10
  <2> HIDE DEF s, s1, s3
  <2>6. s1 \o s \o s3 = G
    <3>1. Len(G) = Len(s1) + Len(s) + Len(s3)
      <4>1. g = 1 + (g - 2) + 1
        BY <1>9
      <4> QED
        BY <2>4, <2>5, <4>1
    <3>2. \A k \in 1..Len(s1) : G[k] = s1[k]
      BY <2>5
    <3>3. \A k \in 1..Len(s) : G[Len(s1) + k] = s[k]
      <4>1. \A k \in 1..(g - 2) : 1 + k = k + 1
        BY <1>9
      <4> QED
        BY <2>4, <2>5, <4>1
    <3>4. \A k \in 1..Len(s3) : G[Len(s1) + Len(s) + k] = s3[k]
      <4>1. 1 + (g - 2) + 1 = g
        BY <1>9
      <4> QED
        BY <2>4, <2>5, <4>1
    <3> QED
      BY ZenonT(40), <1>9, <2>4, <2>5, <3>1, <3>2, <3>3, <3>4, ThreeParts
  <2>7. textOfRange(L, p, q) = Joined(s1 \o s \o s3)
    BY <1>5, <1>8, <2>1, <2>3 DEF s, s1, s3
  <2> QED
    BY <1>7, <2>6, <2>7 DEF L, p, q
<1>14. g = 1 \/ g > 1
  <2> HIDE DEF g
  <2> QED
    BY <1>9
<1> QED
  BY <1>12, <1>13, <1>14 DEF L, p, q
-----------------------------------------------------------------------------
(* Records of edits                                                         *)

\* A clamped position is in the text, whatever was asked for (clampPosition).
LEMMA ClampStays ==
    ASSUME NEW ls \in Docs, NEW p \in Int \X Int
    PROVE  InLines(ls, clampPosition(ls, p))
<1> DEFINE l == clampLine(ls, p[1])
           k == Len(ls[l])
           n == Len(ls)
           c == clampCol(ls, p[1], p[2])
<1>1. p[1] \in Int /\ p[2] \in Int
  OBVIOUS
<1>2. n \in Nat /\ n >= 1 /\ DOMAIN ls = 1..n /\ \A i \in 1..n : Len(ls[i]) \in Nat
  BY DocFacts
<1>3. l \in 1..n
  <2>1. l = Clamped(1, p[1], n)
    BY DEF clampLine
  <2> HIDE DEF n, l
  <2> QED
    BY <1>1, <1>2, <2>1 DEF Clamped, Least
<1>4. c \in 0..k
  <2>1. c = Clamped(0, p[2], k) /\ k \in Nat
    BY <1>2, <1>3 DEF clampCol
  <2> HIDE DEF k, c
  <2> QED
    BY <1>1, <2>1 DEF Clamped, Least
<1>5. clampPosition(ls, p) = <<l, c>> /\ l \in Nat /\ c \in Nat
  BY <1>2, <1>3, <1>4 DEF clampPosition
<1> QED
  BY <1>2, <1>3, <1>4, <1>5 DEF InLines

\* A position in the text is left as it is.
LEMMA ClampSame ==
    ASSUME NEW ls \in Docs, NEW p, InLines(ls, p)
    PROVE  clampPosition(ls, p) = p
<1> DEFINE n == Len(ls)
           k == Len(ls[p[1]])
<1>1. p \in Nat \X Nat /\ p[1] \in Nat /\ p[2] \in Nat /\ p = <<p[1], p[2]>> /\ p[1] \in 1..n /\ p[2] \in 0..k
  BY DocFacts DEF InLines
<1>2. n \in Nat /\ k \in Nat
  BY <1>1, DocFacts
<1>3. clampLine(ls, p[1]) = p[1]
  <2>1. clampLine(ls, p[1]) = Clamped(1, p[1], n)
    BY DEF clampLine
  <2> HIDE DEF n
  <2> QED
    BY <1>1, <1>2, <2>1 DEF Clamped, Least
<1>4. clampCol(ls, p[1], p[2]) = p[2]
  <2>1. clampCol(ls, p[1], p[2]) = Clamped(0, p[2], k)
    BY <1>3 DEF clampCol
  <2> HIDE DEF k
  <2> QED
    BY <1>1, <1>2, <2>1 DEF Clamped, Least
<1> QED
  BY <1>1, <1>3, <1>4 DEF clampPosition

\* Of two positions one precedes the other.
LEMMA OrderTotal ==
    ASSUME NEW p \in Nat \X Nat, NEW q \in Nat \X Nat
    PROVE  Precedes(p, q) \/ Precedes(q, p)
<1>1. p[1] \in Nat /\ p[2] \in Nat /\ q[1] \in Nat /\ q[2] \in Nat
  OBVIOUS
<1> QED
  BY <1>1 DEF Precedes

\* The records of undo and redo.
EditRecord ==
    [start : Nat \X Nat, origEnd : Nat \X Nat, newEnd : Nat \X Nat, removed : Text, inserted : Text,
     cursorBefore : Nat \X Nat, cursorAfter : Nat \X Nat, coalescable : BOOLEAN]

\* A record of the edit that made "after" of "before", at the end of u and the start of w
Describes(rec, before, after, u, w) ==
    /\ before = (u \o rec.removed) \o w
    /\ after = (u \o rec.inserted) \o w
    /\ rec.start = PosAfter(u)
    /\ rec.origEnd = PosAfter(u \o rec.removed)
    /\ rec.newEnd = PosAfter(u \o rec.inserted)

\* It does so at some place, and both cursors it keeps are in their texts.
Valid(rec, before, after) ==
    /\ rec \in EditRecord
    /\ \E u, w \in Text : Describes(rec, before, after, u, w)
    /\ InLines(splitLines(before), rec.cursorBefore)
    /\ InLines(splitLines(after), rec.cursorAfter)

\* To undo a record gives the lines of the text before its edit, to redo it those of the text after.
LEMMA PutBack ==
    ASSUME NEW rec, NEW before \in Text, NEW after \in Text, Valid(rec, before, after)
    PROVE  /\ Undone(splitLines(after), rec) = splitLines(before)
           /\ Redone(splitLines(before), rec) = splitLines(after)
<1>1. rec.removed \in Text /\ rec.inserted \in Text
  BY DEF Valid, EditRecord
<1>2. PICK u \in Text, w \in Text : Describes(rec, before, after, u, w)
  BY DEF Valid
<1> DEFINE x == rec.removed
           y == rec.inserted
<1>3. before = (u \o x) \o w /\ after = (u \o y) \o w /\ rec.start = PosAfter(u)
      /\ rec.origEnd = PosAfter(u \o x) /\ rec.newEnd = PosAfter(u \o y)
  BY <1>2 DEF Describes
<1>4. Undone(splitLines(after), rec) = RawReplaced(splitLines((u \o y) \o w), PosAfter(u), PosAfter(u \o y), x)
  BY <1>3 DEF Undone
<1>5. Redone(splitLines(before), rec) = RawReplaced(splitLines((u \o x) \o w), PosAfter(u), PosAfter(u \o x), y)
  BY <1>3 DEF Redone
<1>6. x \in Text /\ y \in Text
  BY <1>1
<1> HIDE DEF x, y
<1>7. RawReplaced(splitLines((u \o y) \o w), PosAfter(u), PosAfter(u \o y), x) = splitLines((u \o x) \o w)
  BY <1>6, RawIsReplace
<1>8. RawReplaced(splitLines((u \o x) \o w), PosAfter(u), PosAfter(u \o x), y) = splitLines((u \o y) \o w)
  BY <1>6, RawIsReplace
<1> QED
  BY <1>3, <1>4, <1>5, <1>7, <1>8

\* Two edits in a row, merged as typing, are a record of both: the second begins where the first one's
\* text ends, so what is before that place is the same in both (PosInjective).
LEMMA MergedTyping ==
    ASSUME NEW top, NEW rec, NEW t0, NEW t1, NEW t2,
           Valid(top, t0, t1), Valid(rec, t1, t2), ContiguousTyping(top, rec)
    PROVE  Valid(Merged(top, rec), t0, t2)
<1> DEFINE both == Merged(top, rec)
           i1 == top.inserted
           i2 == rec.inserted
<1>1. top \in EditRecord /\ rec \in EditRecord /\ i1 \in Text /\ i2 \in Text
      /\ top.removed = << >> /\ rec.removed = << >> /\ top.newEnd = rec.start
  BY DEF Valid, EditRecord, ContiguousTyping
<1>14. \A x \in Text : (x \o i1) \o i2 = x \o (i1 \o i2)
  BY <1>1, TextAssoc
<1>2. PICK u \in Text, w \in Text : Describes(top, t0, t1, u, w)
  BY DEF Valid
<1>3. PICK v \in Text, z \in Text : Describes(rec, t1, t2, v, z)
  BY DEF Valid
<1>4. both = [top EXCEPT !.inserted = i1 \o i2, !.newEnd = rec.newEnd, !.cursorAfter = rec.cursorAfter]
  BY DEF Merged
<1>5. i1 \o i2 \in Text
  BY <1>1, ConcatText
<1>6. /\ both.inserted = i1 \o i2 /\ both.newEnd = rec.newEnd /\ both.cursorAfter = rec.cursorAfter
      /\ both.start = top.start /\ both.origEnd = top.origEnd /\ both.removed = << >>
      /\ both.cursorBefore = top.cursorBefore /\ both.coalescable = top.coalescable
      /\ both \in EditRecord
  BY <1>1, <1>4, <1>5 DEF EditRecord
<1>7. /\ t0 = (u \o << >>) \o w /\ t1 = (u \o i1) \o w /\ top.start = PosAfter(u)
      /\ top.origEnd = PosAfter(u \o << >>) /\ top.newEnd = PosAfter(u \o i1)
  BY <1>1, <1>2 DEF Describes
<1>8. /\ t1 = (v \o << >>) \o z /\ t2 = (v \o i2) \o z /\ rec.start = PosAfter(v)
      /\ rec.newEnd = PosAfter(v \o i2)
  BY <1>1, <1>3 DEF Describes
<1> HIDE DEF both, i1, i2
<1>9. u \o i1 \in Text /\ v \o << >> = v
  BY <1>1, TextPair
<1>10. v = u \o i1 /\ z = w
  <2>1. (u \o i1) \o w = v \o z /\ PosAfter(u \o i1) = PosAfter(v)
    BY <1>1, <1>7, <1>8, <1>9
  <2> QED
    BY <1>9, <2>1, PosInjective
<1>11. v \o i2 = u \o (i1 \o i2)
  <2>1. (u \o i1) \o i2 = u \o (i1 \o i2)
    BY <1>14
  <2> QED
    BY <1>10, <2>1
<1>12. Describes(both, t0, t2, u, w)
  BY <1>6, <1>7, <1>8, <1>10, <1>11 DEF Describes
<1>13. InLines(splitLines(t0), both.cursorBefore) /\ InLines(splitLines(t2), both.cursorAfter)
  BY <1>6 DEF Valid
<1> QED
  BY <1>6, <1>12, <1>13 DEF Valid, both

\* Two edits in a row, merged as backspaces, are a record of both.
LEMMA MergedBackspace ==
    ASSUME NEW top, NEW rec, NEW t0, NEW t1, NEW t2,
           Valid(top, t0, t1), Valid(rec, t1, t2), ~ContiguousTyping(top, rec), ContiguousBackspace(top, rec)
    PROVE  Valid(Merged(top, rec), t0, t2)
<1> DEFINE both == Merged(top, rec)
           m1 == top.removed
           m2 == rec.removed
<1>1. top \in EditRecord /\ rec \in EditRecord /\ m1 \in Text /\ m2 \in Text
      /\ top.inserted = << >> /\ rec.inserted = << >> /\ rec.origEnd = top.start
  BY DEF Valid, EditRecord, ContiguousBackspace
<1>14. \A x \in Text : (x \o m2) \o m1 = x \o (m2 \o m1)
  BY <1>1, TextAssoc
<1>2. PICK u \in Text, w \in Text : Describes(top, t0, t1, u, w)
  BY DEF Valid
<1>3. PICK v \in Text, z \in Text : Describes(rec, t1, t2, v, z)
  BY DEF Valid
<1>4. both = [top EXCEPT !.removed = m2 \o m1, !.start = rec.start, !.newEnd = rec.start,
                         !.cursorAfter = rec.cursorAfter]
  BY DEF Merged
<1>5. m2 \o m1 \in Text
  BY <1>1, ConcatText
<1>6. /\ both.removed = m2 \o m1 /\ both.start = rec.start /\ both.newEnd = rec.start
      /\ both.cursorAfter = rec.cursorAfter /\ both.origEnd = top.origEnd /\ both.inserted = << >>
      /\ both.cursorBefore = top.cursorBefore /\ both.coalescable = top.coalescable
      /\ both \in EditRecord
  BY <1>1, <1>4, <1>5 DEF EditRecord
<1>7. /\ t0 = (u \o m1) \o w /\ t1 = (u \o << >>) \o w /\ top.start = PosAfter(u)
      /\ top.origEnd = PosAfter(u \o m1)
  BY <1>1, <1>2 DEF Describes
<1>8. /\ t1 = (v \o m2) \o z /\ t2 = (v \o << >>) \o z /\ rec.start = PosAfter(v)
      /\ rec.origEnd = PosAfter(v \o m2)
  BY <1>1, <1>3 DEF Describes
<1> HIDE DEF both, m1, m2
<1>9. v \o m2 \in Text /\ u \o << >> = u /\ v \o << >> = v
  BY <1>1, TextPair
<1>10. v \o m2 = u /\ z = w
  <2>1. (v \o m2) \o z = u \o w /\ PosAfter(v \o m2) = PosAfter(u)
    BY <1>1, <1>7, <1>8, <1>9
  <2> QED
    BY <1>9, <2>1, PosInjective
<1>11. u \o m1 = v \o (m2 \o m1)
  <2>1. (v \o m2) \o m1 = v \o (m2 \o m1)
    BY <1>14
  <2> QED
    BY <1>10, <2>1
<1>12. Describes(both, t0, t2, v, w)
  BY <1>6, <1>7, <1>8, <1>9, <1>10, <1>11 DEF Describes
<1>13. InLines(splitLines(t0), both.cursorBefore) /\ InLines(splitLines(t2), both.cursorAfter)
  BY <1>6 DEF Valid
<1> QED
  BY <1>6, <1>12, <1>13 DEF Valid, both

-----------------------------------------------------------------------------
(* Stacks of records                                                        *)

\* The text after the i-th of those remembered, the present one being T
Following(ts, T, i) == IF i < Len(ts) THEN ts[i + 1] ELSE T

\* The records lead back from the present text T through the texts ts, the nearest one last.
Past(stack, ts, T) ==
    /\ stack \in Seq(EditRecord) /\ ts \in Seq(Text) /\ Len(ts) = Len(stack)
    /\ \A i \in 1..Len(stack) : Valid(stack[i], ts[i], Following(ts, T, i))

\* The records lead on from the present text T through the texts ts, the nearest one last.
Future(stack, ts, T) ==
    /\ stack \in Seq(EditRecord) /\ ts \in Seq(Text) /\ Len(ts) = Len(stack)
    /\ \A i \in 1..Len(stack) : Valid(stack[i], Following(ts, T, i), ts[i])

\* When the present text is appended to those remembered, each keeps the one that follows it.
LEMMA FollowingAppended ==
    ASSUME NEW ts \in Seq(Text), NEW T \in Text, NEW T2, NEW i \in 1..Len(ts)
    PROVE  Following(Append(ts, T), T2, i) = Following(ts, T, i)
<1> DEFINE n == Len(ts)
           u == Append(ts, T)
<1>1. n \in Nat /\ Len(u) = n + 1 /\ u[n + 1] = T /\ \A j \in 1..n : u[j] = ts[j]
  BY AppendFacts
<1>2. i \in 1..n
  OBVIOUS
<1>3. Following(u, T2, i) = (IF i < Len(u) THEN u[i + 1] ELSE T2) /\ Following(ts, T, i) = IF i < n THEN ts[i + 1] ELSE T
  BY DEF Following
<1> HIDE DEF u, n
<1>4. i < Len(u)
  BY <1>1, <1>2
<1>5. CASE i < n
  <2>1. i + 1 \in 1..n
    BY <1>1, <1>2, <1>5
  <2> QED
    BY <1>1, <1>3, <1>4, <1>5, <2>1 DEF u, n
<1>6. CASE ~(i < n)
  <2>1. i + 1 = n + 1
    BY <1>1, <1>2, <1>6
  <2> QED
    BY <1>1, <1>3, <1>4, <1>6, <2>1 DEF u, n
<1> QED
  BY <1>5, <1>6

\* A record of the latest edit is added, and the text before it is remembered.
LEMMA PastAppended ==
    ASSUME NEW stack, NEW ts, NEW T \in Text, NEW T2 \in Text, Past(stack, ts, T), NEW rec, Valid(rec, T, T2)
    PROVE  Past(Append(stack, rec), Append(ts, T), T2) /\ Len(Append(stack, rec)) = Len(stack) + 1
<1> DEFINE n == Len(stack)
           s2 == Append(stack, rec)
           t2 == Append(ts, T)
<1>1. stack \in Seq(EditRecord) /\ ts \in Seq(Text) /\ Len(ts) = n /\ rec \in EditRecord
  BY DEF Past, Valid
<1>2. /\ n \in Nat /\ s2 \in Seq(EditRecord) /\ Len(s2) = n + 1 /\ s2[n + 1] = rec
      /\ \A j \in 1..n : s2[j] = stack[j]
  BY <1>1, AppendFacts
<1>3. t2 \in Seq(Text) /\ Len(t2) = n + 1 /\ t2[n + 1] = T /\ \A j \in 1..n : t2[j] = ts[j]
  BY <1>1, AppendFacts
<1>4. \A i \in 1..n : Following(t2, T2, i) = Following(ts, T, i)
  BY <1>1, FollowingAppended
<1>5. \A i \in 1..n : Valid(stack[i], ts[i], Following(ts, T, i))
  BY DEF Past
<1> HIDE DEF n, s2, t2
<1>6. Following(t2, T2, n + 1) = T2
  <2>1. ~(n + 1 < Len(t2))
    BY <1>2, <1>3
  <2> QED
    BY <2>1 DEF Following
<1>7. ASSUME NEW i \in 1..(n + 1) PROVE Valid(s2[i], t2[i], Following(t2, T2, i))
  <2>1. i \in 1..n \/ i = n + 1
    BY <1>2
  <2> QED
    BY <2>1, <1>2, <1>3, <1>4, <1>5, <1>6
<1> QED
  BY <1>2, <1>3, <1>7 DEF Past, n, s2, t2

\* A record that was undone is added, and the text it leads to is remembered.
LEMMA FutureAppended ==
    ASSUME NEW stack, NEW ts, NEW T \in Text, NEW T2 \in Text, Future(stack, ts, T), NEW rec, Valid(rec, T2, T)
    PROVE  Future(Append(stack, rec), Append(ts, T), T2) /\ Len(Append(stack, rec)) = Len(stack) + 1
<1> DEFINE n == Len(stack)
           s2 == Append(stack, rec)
           t2 == Append(ts, T)
<1>1. stack \in Seq(EditRecord) /\ ts \in Seq(Text) /\ Len(ts) = n /\ rec \in EditRecord
  BY DEF Future, Valid
<1>2. /\ n \in Nat /\ s2 \in Seq(EditRecord) /\ Len(s2) = n + 1 /\ s2[n + 1] = rec
      /\ \A j \in 1..n : s2[j] = stack[j]
  BY <1>1, AppendFacts
<1>3. t2 \in Seq(Text) /\ Len(t2) = n + 1 /\ t2[n + 1] = T /\ \A j \in 1..n : t2[j] = ts[j]
  BY <1>1, AppendFacts
<1>4. \A i \in 1..n : Following(t2, T2, i) = Following(ts, T, i)
  BY <1>1, FollowingAppended
<1>5. \A i \in 1..n : Valid(stack[i], Following(ts, T, i), ts[i])
  BY DEF Future
<1> HIDE DEF n, s2, t2
<1>6. Following(t2, T2, n + 1) = T2
  <2>1. ~(n + 1 < Len(t2))
    BY <1>2, <1>3
  <2> QED
    BY <2>1 DEF Following
<1>7. ASSUME NEW i \in 1..(n + 1) PROVE Valid(s2[i], Following(t2, T2, i), t2[i])
  <2>1. i \in 1..n \/ i = n + 1
    BY <1>2
  <2> QED
    BY <2>1, <1>2, <1>3, <1>4, <1>5, <1>6
<1> QED
  BY <1>2, <1>3, <1>7 DEF Future, n, s2, t2

\* What dropping the first element of a sequence leaves.
LEMMA TailFacts ==
    ASSUME NEW S, NEW s \in Seq(S), s # << >>
    PROVE  /\ Len(s) \in Nat /\ Tail(s) \in Seq(S) /\ Len(Tail(s)) = Len(s) - 1
           /\ \A i \in 1..(Len(s) - 1) : Tail(s)[i] = s[i + 1]
<1>1. Len(s) \in Nat /\ Tail(s) \in Seq(S) /\ Len(Tail(s)) = Len(s) - 1
  BY HeadTailProperties, LenProperties
<1>2. \A i \in 1..Len(Tail(s)) : Tail(s)[i] = s[i + 1]
  BY HeadTailProperties
<1> QED
  BY <1>1, <1>2

\* The oldest record can be dropped, with the oldest text.
LEMMA PastTail ==
    ASSUME NEW stack, NEW ts, NEW T \in Text, Past(stack, ts, T), Len(stack) > 0
    PROVE  Past(Tail(stack), Tail(ts), T) /\ Len(Tail(stack)) = Len(stack) - 1
<1> DEFINE n == Len(stack)
           s2 == Tail(stack)
           t2 == Tail(ts)
<1>1. stack \in Seq(EditRecord) /\ ts \in Seq(Text) /\ Len(ts) = n /\ stack # << >> /\ ts # << >>
  <2>1. stack \in Seq(EditRecord) /\ ts \in Seq(Text) /\ Len(ts) = n
    BY DEF Past
  <2> QED
    BY <2>1, EmptySeq
<1>2. /\ n \in Nat /\ s2 \in Seq(EditRecord) /\ Len(s2) = n - 1 /\ \A j \in 1..(n - 1) : s2[j] = stack[j + 1]
  BY <1>1, TailFacts
<1>3. t2 \in Seq(Text) /\ Len(t2) = n - 1 /\ \A j \in 1..(n - 1) : t2[j] = ts[j + 1]
  BY <1>1, TailFacts
<1>4. \A i \in 1..n : Valid(stack[i], ts[i], Following(ts, T, i))
  BY DEF Past
<1>5. n > 0
  OBVIOUS
<1> HIDE DEF n, s2, t2
<1>6. ASSUME NEW i \in 1..(n - 1) PROVE Following(t2, T, i) = Following(ts, T, i + 1)
  <2>1. Following(t2, T, i) = (IF i < n - 1 THEN t2[i + 1] ELSE T)
        /\ Following(ts, T, i + 1) = IF i + 1 < n THEN ts[(i + 1) + 1] ELSE T
    BY <1>1, <1>3 DEF Following
  <2>2. CASE i < n - 1
    <3>1. i + 1 \in 1..(n - 1) /\ i + 1 < n
      BY <1>2, <2>2
    <3> QED
      BY <1>3, <2>1, <2>2, <3>1
  <2>3. CASE ~(i < n - 1)
    <3>1. ~(i + 1 < n)
      BY <1>2, <2>3
    <3> QED
      BY <2>1, <2>3, <3>1
  <2> QED
    BY <2>2, <2>3
<1>7. ASSUME NEW i \in 1..(n - 1) PROVE Valid(s2[i], t2[i], Following(t2, T, i))
  <2>1. i + 1 \in 1..n
    BY <1>2
  <2> QED
    BY <2>1, <1>2, <1>3, <1>4, <1>6
<1> QED
  BY <1>2, <1>3, <1>7 DEF Past, n, s2, t2

\* A record merged into the last one: the texts remembered are the same, though the present is not.
LEMMA PastMerged ==
    ASSUME NEW stack, NEW ts, NEW T \in Text, NEW T2 \in Text, Past(stack, ts, T), NEW rec, Valid(rec, T, T2),
           NEW soon, Merges(stack, rec, soon)
    PROVE  LET s2 == [stack EXCEPT ![Len(stack)] = Merged(@, rec)]
           IN  Past(s2, ts, T2) /\ Len(s2) = Len(stack) /\ ts # << >> /\ rec.coalescable
<1> DEFINE n == Len(stack)
           both == Merged(stack[n], rec)
           s2 == [stack EXCEPT ![n] = Merged(@, rec)]
<1>1. stack \in Seq(EditRecord) /\ ts \in Seq(Text) /\ Len(ts) = n /\ n \in Nat /\ n >= 1 /\ ts # << >>
  <2>1. stack \in Seq(EditRecord) /\ ts \in Seq(Text) /\ Len(ts) = n /\ stack # << >>
    BY DEF Past, Merges
  <2>2. n \in Nat /\ n # 0
    BY <2>1, EmptySeq, LenProperties
  <2>3. ts # << >>
    BY <2>1, <2>2
  <2> HIDE DEF n
  <2>4. n >= 1
    BY <2>2
  <2> QED
    BY <2>1, <2>2, <2>3, <2>4
<1>2. \A i \in 1..n : Valid(stack[i], ts[i], Following(ts, T, i))
  BY DEF Past
<1>3. n \in 1..n
  <2> HIDE DEF n
  <2> QED
    BY <1>1
<1>4. Valid(stack[n], ts[n], T)
  <2>1. Following(ts, T, n) = T
    <3>1. ~(n < n)
      <4> HIDE DEF n
      <4> QED
        BY <1>1
    <3> QED
      BY <1>1, <3>1 DEF Following
  <2> QED
    BY <1>2, <1>3, <2>1
<1>5. Valid(both, ts[n], T2)
  <2>1. ContiguousTyping(stack[n], rec) \/ ContiguousBackspace(stack[n], rec)
    BY DEF Merges
  <2> QED
    BY <1>4, <2>1, MergedTyping, MergedBackspace
<1>6. s2 = [stack EXCEPT ![n] = both] /\ both \in EditRecord
  BY <1>5 DEF Valid
<1>7. s2 \in Seq(EditRecord) /\ Len(s2) = n /\ s2[n] = both /\ \A i \in 1..n : i # n => s2[i] = stack[i]
  BY <1>1, <1>3, <1>6, ExceptFacts
<1>8. rec.coalescable
  BY DEF Merges
<1> HIDE DEF n, both, s2
<1>9. ASSUME NEW i \in 1..n PROVE Valid(s2[i], ts[i], Following(ts, T2, i))
  <2>1. CASE i = n
    <3>1. ~(i < n)
      BY <1>1, <2>1
    <3>2. Following(ts, T2, i) = T2
      BY <1>1, <3>1 DEF Following
    <3> QED
      BY <1>5, <1>7, <2>1, <3>2
  <2>2. CASE i # n
    <3>1. i < n
      BY <1>1, <2>2
    <3>2. Following(ts, T2, i) = Following(ts, T, i)
      BY <1>1, <3>1 DEF Following
    <3> QED
      BY <1>2, <1>7, <2>2, <3>2
  <2> QED
    BY <2>1, <2>2
<1>10. Past(s2, ts, T2)
  BY <1>1, <1>7, <1>9 DEF Past
<1> QED
  BY <1>1, <1>7, <1>8, <1>10 DEF n, s2

\* What an edit does to the texts before the present one
Remembers(ts, T, coalescable, ts2) ==
    \/ ts2 = H!Newest(Append(ts, T))
    \/ coalescable /\ ts # << >> /\ ts2 = ts

\* pushUndo, whether it merges, appends or drops the oldest: the records lead back through the texts
\* remembered, and are never more than kMaxHistory.
LEMMA Pushed ==
    ASSUME NEW stack, NEW ts, NEW T \in Text, NEW T2 \in Text, Past(stack, ts, T), Len(stack) <= kMaxHistory,
           NEW rec, Valid(rec, T, T2), NEW soon
    PROVE  /\ Len(pushUndo(stack, rec, soon)) <= kMaxHistory
           /\ \E ts2 : Past(pushUndo(stack, rec, soon), ts2, T2) /\ Remembers(ts, T, rec.coalescable, ts2)
<1> DEFINE n == Len(stack)
           s2 == Append(stack, rec)
           t2 == Append(ts, T)
           pushed == pushUndo(stack, rec, soon)
<1>1. n \in Nat /\ Len(ts) = n /\ ts \in Seq(Text) /\ n <= kMaxHistory /\ kMaxHistory \in Nat /\ kMaxHistory >= 1
  <2>1. kMaxHistory \in Nat /\ kMaxHistory # 0
    BY EditorAssumption
  <2>2. kMaxHistory >= 1
    BY <2>1
  <2> QED
    BY <2>1, <2>2, LenProperties DEF Past
<1>2. CASE Merges(stack, rec, soon)
  <2>1. pushed = [stack EXCEPT ![Len(stack)] = Merged(@, rec)]
    BY <1>2 DEF pushUndo
  <2>2. Past(pushed, ts, T2) /\ Len(pushed) = n /\ ts # << >> /\ rec.coalescable
    <3> DEFINE s3 == [stack EXCEPT ![Len(stack)] = Merged(@, rec)]
    <3>1. Past(s3, ts, T2) /\ Len(s3) = n /\ ts # << >> /\ rec.coalescable
      BY <1>2, PastMerged
    <3>2. pushed = s3
      BY <2>1
    <3> HIDE DEF pushed, s3
    <3> QED
      BY <3>1, <3>2
  <2> QED
    BY <1>1, <2>2 DEF Remembers
<1>3. CASE ~Merges(stack, rec, soon)
  <2>1. Past(s2, t2, T2) /\ Len(s2) = n + 1
    BY PastAppended
  <2>2. Len(t2) = n + 1
    BY <2>1 DEF Past
  <2>3. pushed = IF n = kMaxHistory THEN Tail(s2) ELSE s2
    BY <1>3 DEF pushUndo
  <2>4. H!Newest(t2) = IF Len(t2) > kMaxHistory THEN Tail(t2) ELSE t2
    BY DEF H!Newest
  <2> HIDE DEF n, s2, t2, pushed
  <2>5. CASE n = kMaxHistory
    <3>1. n + 1 > kMaxHistory /\ n + 1 > 0 /\ (n + 1) - 1 <= kMaxHistory
      BY <1>1, <2>5
    <3>2. Past(Tail(s2), Tail(t2), T2) /\ Len(Tail(s2)) = (n + 1) - 1
      BY <2>1, <3>1, PastTail
    <3>3. H!Newest(t2) = Tail(t2) /\ pushed = Tail(s2)
      BY <2>2, <2>3, <2>4, <2>5, <3>1
    <3>4. Remembers(ts, T, rec.coalescable, Tail(t2))
      BY <3>3 DEF Remembers, t2
    <3>5. Len(pushed) <= kMaxHistory /\ Past(pushed, Tail(t2), T2)
      BY <3>1, <3>2, <3>3
    <3> QED
      BY <3>4, <3>5 DEF pushed
  <2>6. CASE n # kMaxHistory
    <3>1. ~(n + 1 > kMaxHistory) /\ n + 1 <= kMaxHistory
      BY <1>1, <2>6
    <3>2. H!Newest(t2) = t2 /\ pushed = s2
      BY <2>2, <2>3, <2>4, <2>6, <3>1
    <3>3. Remembers(ts, T, rec.coalescable, t2)
      BY <3>2 DEF Remembers, t2
    <3>4. Len(pushed) <= kMaxHistory /\ Past(pushed, t2, T2)
      BY <2>1, <3>1, <3>2
    <3> QED
      BY <3>3, <3>4 DEF pushed
  <2> QED
    BY <2>5, <2>6
<1> QED
  BY <1>2, <1>3
-----------------------------------------------------------------------------
(* One edit                                                                 *)

\* What an editor is.
EditorStates ==
    [lines : Docs, cursor : Nat \X Nat, selAnchor : Nat \X Nat, hasSel : BOOLEAN,
     undoStack : Seq(EditRecord), redoStack : Seq(EditRecord)]

\* What EditHistory says of it: the texts of the past, the present and the future.
Histories == [past : Seq(Text), present : Text, future : Seq(Text)]

\* The editor e is at the present text of t, and its records lead through the others
Holds(e, t) ==
    /\ e \in EditorStates
    /\ t \in Histories
    /\ e.lines = splitLines(t.present)
    /\ InLines(e.lines, e.cursor)
    /\ InLines(e.lines, e.selAnchor)
    /\ e.hasSel <=> e.selAnchor # e.cursor
    /\ Past(e.undoStack, t.past, t.present)
    /\ Future(e.redoStack, t.future, t.present)
    /\ Len(e.undoStack) + Len(e.redoStack) <= kMaxHistory

\* The editor e2 is one that an edit of t leaves: at p, with the text "after"
EditMade(e2, t, t2, after, p, coalescable) ==
    /\ Holds(e2, t2)
    /\ t2.present = after
    /\ e2.cursor = p
    /\ e2.hasSel = FALSE
    /\ t2.future = << >>
    /\ Remembers(t.past, t.present, coalescable, t2.past)

\* applyReplaceTracked, with a part of the text as the range: the lines, the cursor, the record and the
\* merging are those of one edit.
LEMMA ReplacedPart ==
    ASSUME NEW e, NEW t, Holds(e, t), NEW u \in Text, NEW m \in Text, NEW w \in Text,
           t.present = (u \o m) \o w, NEW text \in Text, NEW coalescable \in BOOLEAN, NEW soon
    PROVE  \E t2 : EditMade(Replaced(e, PosAfter(u), PosAfter(u \o m), text, coalescable, soon), t, t2,
                            (u \o text) \o w, PosAfter(u \o text), coalescable)
<1> DEFINE ls == e.lines
           T == (u \o m) \o w
           T2 == (u \o text) \o w
           a == PosAfter(u)
           b == PosAfter(u \o m)
           after == PosAfter(u \o text)
           rec == [start |-> a, origEnd |-> b, newEnd |-> after, removed |-> m, inserted |-> text,
                   cursorBefore |-> e.cursor, cursorAfter |-> after, coalescable |-> coalescable]
           pushed == pushUndo(e.undoStack, rec, soon)
           e2 == [lines |-> splitLines(T2), cursor |-> after, selAnchor |-> after, hasSel |-> FALSE,
                  undoStack |-> pushed, redoStack |-> << >>]
<1>1. u \o m \in Text /\ u \o text \in Text /\ T \in Text /\ T2 \in Text
  <2>1. u \o m \in Text /\ u \o text \in Text
    BY ConcatText
  <2> QED
    BY <2>1, ConcatText
<1>2. ls = splitLines(T) /\ ls \in Docs
  BY <1>1, SplitDoc DEF Holds
<1>3. InLines(ls, a) /\ InLines(ls, b)
  <2>1. T = u \o (m \o w) /\ m \o w \in Text
    <3>1. (u \o m) \o w = u \o (m \o w)
      BY TextAssoc
    <3>2. m \o w \in Text
      BY ConcatText
    <3> QED
      BY <3>1, <3>2
  <2>2. InLines(splitLines(u \o (m \o w)), a)
    BY <2>1, Cut DEF CutAt
  <2>3. InLines(splitLines((u \o m) \o w), b)
    BY <1>1, Cut DEF CutAt
  <2> QED
    BY <1>2, <2>1, <2>2, <2>3
<1>4. clampPosition(ls, a) = a /\ clampPosition(ls, b) = b /\ Precedes(a, b)
  <2>1. clampPosition(ls, a) = a /\ clampPosition(ls, b) = b
    BY <1>2, <1>3, ClampSame
  <2>2. Precedes(a, b)
    BY PosOrder
  <2> QED
    BY <2>1, <2>2
<1>5. EndOf(a, text) = after
  BY EndIsPos
<1>6. textOfRange(ls, a, b) = m
  BY <1>2, RangeIsText
<1>7. RawReplaced(ls, a, b, text) = splitLines(T2)
  BY <1>2, RawIsReplace
<1>8. Replaced(e, a, b, text, coalescable, soon) = e2
  <2> HIDE DEF a, b, after, T2
  <2>1. /\ clampPosition(e.lines, a) = a /\ clampPosition(e.lines, b) = b /\ Precedes(a, b)
        /\ EndOf(a, text) = after /\ textOfRange(e.lines, a, b) = m
        /\ RawReplaced(e.lines, a, b, text) = splitLines(T2)
    BY <1>4, <1>5, <1>6, <1>7
  <2> QED
    BY <2>1 DEF Replaced
<1>9. a \in Nat \X Nat /\ b \in Nat \X Nat /\ after \in Nat \X Nat
  BY <1>1, PosIsPair
<1>10. InLines(splitLines(T2), after)
  BY <1>1, Cut DEF CutAt
<1>11. Valid(rec, T, T2)
  <2> HIDE DEF a, b, after, T, T2
  <2>1. rec \in EditRecord
    BY <1>9 DEF Holds, EditorStates, EditRecord
  <2>2. rec.cursorBefore = e.cursor /\ rec.cursorAfter = after /\ rec.removed = m /\ rec.inserted = text
        /\ rec.start = a /\ rec.origEnd = b /\ rec.newEnd = after
    OBVIOUS
  <2>3. InLines(splitLines(T), e.cursor)
    BY <1>2 DEF Holds
  <2> HIDE DEF rec
  <2>4. Describes(rec, T, T2, u, w)
    BY <2>2 DEF Describes, a, b, after, T, T2
  <2> QED
    BY <1>10, <2>1, <2>2, <2>3, <2>4 DEF Valid
<1>12. rec.coalescable = coalescable
  OBVIOUS
<1>13. T = t.present
  OBVIOUS
<1> HIDE DEF ls, T, T2, a, b, after, rec, pushed
<1>14. Past(e.undoStack, t.past, T) /\ Len(e.undoStack) <= kMaxHistory
  <2>1. Past(e.undoStack, t.past, T) /\ Len(e.undoStack) + Len(e.redoStack) <= kMaxHistory
        /\ Len(e.undoStack) \in Nat /\ Len(e.redoStack) \in Nat
    BY <1>13, LenProperties DEF Holds, EditorStates
  <2>2. kMaxHistory \in Nat
    BY EditorAssumption
  <2> DEFINE x == Len(e.undoStack)
             y == Len(e.redoStack)
  <2>3. x \in Nat /\ y \in Nat /\ x + y <= kMaxHistory
    BY <2>1
  <2> HIDE DEF x, y
  <2>4. x <= kMaxHistory
    BY <2>2, <2>3
  <2> QED
    BY <2>1, <2>4 DEF x
<1>15. Len(pushed) <= kMaxHistory
  BY <1>1, <1>11, <1>14, Pushed DEF pushed
<1>16. PICK past : Past(pushed, past, T2) /\ Remembers(t.past, T, rec.coalescable, past)
  BY <1>1, <1>11, <1>14, Pushed DEF pushed
<1> DEFINE t2 == [past |-> past, present |-> T2, future |-> << >>]
<1>17. t2.past = past /\ t2.present = T2 /\ t2.future = << >> /\ t2 \in Histories
  <2>1. past \in Seq(Text) /\ << >> \in Seq(Text)
    BY <1>16, EmptySeq DEF Past
  <2> QED
    BY <1>1, <2>1 DEF Histories
<1>18. e2 \in EditorStates /\ e2.lines = splitLines(T2) /\ e2.cursor = after /\ e2.selAnchor = after
       /\ e2.hasSel = FALSE /\ e2.undoStack = pushed /\ e2.redoStack = << >>
  <2>1. pushed \in Seq(EditRecord) /\ << >> \in Seq(EditRecord)
    BY <1>16, EmptySeq DEF Past
  <2>2. splitLines(T2) \in Docs
    BY <1>1, SplitDoc
  <2> QED
    BY <1>9, <2>1, <2>2 DEF EditorStates
<1> HIDE DEF e2, t2
<1>19. Future(e2.redoStack, t2.future, t2.present)
  <2>1. << >> \in Seq(Text) /\ << >> \in Seq(EditRecord) /\ 1..Len(<< >>) = {}
    BY EmptySeq
  <2> QED
    BY <1>17, <1>18, <2>1 DEF Future
<1>20. Len(e2.undoStack) + Len(e2.redoStack) <= kMaxHistory
  <2>1. Len(e2.redoStack) = 0 /\ Len(pushed) \in Nat
    BY <1>16, <1>18, EmptySeq, LenProperties DEF Past
  <2>2. Len(pushed) + 0 = Len(pushed)
    BY <2>1
  <2> QED
    BY <1>15, <1>18, <2>1, <2>2
<1>21. Holds(e2, t2)
  BY <1>10, <1>16, <1>17, <1>18, <1>19, <1>20 DEF Holds
<1>22. EditMade(e2, t, t2, T2, after, coalescable)
  BY <1>12, <1>13, <1>16, <1>17, <1>18, <1>21 DEF EditMade
<1> QED
  BY <1>8, <1>22 DEF a, b, T2, after

\* applyReplaceTracked, with any two positions, even outside the text or in the wrong order.
LEMMA ReplacedAnywhere ==
    ASSUME NEW e, NEW t, Holds(e, t), NEW a \in Int \X Int, NEW b \in Int \X Int,
           NEW text \in Text, NEW coalescable \in BOOLEAN, NEW soon
    PROVE  \E t2, after, p : EditMade(Replaced(e, a, b, text, coalescable, soon), t, t2, after, p, coalescable)
<1> DEFINE ls == e.lines
           p1 == clampPosition(ls, a)
           q1 == clampPosition(ls, b)
           p == IF Precedes(p1, q1) THEN p1 ELSE q1
           q == IF Precedes(p1, q1) THEN q1 ELSE p1
<1>1. ls \in Docs /\ ls = splitLines(t.present) /\ t.present \in Text
  BY DEF Holds, EditorStates, Histories
<1>2. InLines(ls, p1) /\ InLines(ls, q1)
  BY <1>1, ClampStays
<1> HIDE DEF ls, p1, q1
<1>3. InLines(ls, p) /\ InLines(ls, q) /\ Precedes(p, q)
  <2>1. p1 \in Nat \X Nat /\ q1 \in Nat \X Nat
    BY <1>2 DEF InLines
  <2> QED
    BY <1>2, <2>1, OrderTotal
<1>4. clampPosition(ls, p) = p /\ clampPosition(ls, q) = q
  BY <1>1, <1>3, ClampSame
<1>5. <<p, q>> = IF Precedes(p1, q1) THEN <<p1, q1>> ELSE <<q1, p1>>
  OBVIOUS
<1> HIDE DEF p, q
<1>6. Replaced(e, a, b, text, coalescable, soon) = Replaced(e, p, q, text, coalescable, soon)
  <2>1. /\ clampPosition(e.lines, a) = p1 /\ clampPosition(e.lines, b) = q1
        /\ clampPosition(e.lines, p) = p /\ clampPosition(e.lines, q) = q
        /\ (IF Precedes(p1, q1) THEN <<p1, q1>> ELSE <<q1, p1>>) = <<p, q>>
        /\ (IF Precedes(p, q) THEN <<p, q>> ELSE <<q, p>>) = <<p, q>>
    BY <1>3, <1>4, <1>5 DEF ls, p1, q1
  <2> QED
    BY ZenonT(40), <2>1 DEF Replaced
<1>7. PICK u \in Text, m \in Text, w \in Text : /\ t.present = u \o (m \o w) /\ t.present = (u \o m) \o w
                                   /\ p = PosAfter(u) /\ q = PosAfter(u \o m)
  <2> DEFINE T == t.present
  <2>1. T \in Text /\ InLines(splitLines(T), p) /\ InLines(splitLines(T), q) /\ Precedes(p, q)
    BY <1>1, <1>3
  <2> HIDE DEF T
  <2>2. \E u, m, w \in Text : IsPart(T, p, q, u, m, w)
    BY <2>1, RangeCuts
  <2> QED
    BY <2>2 DEF T, IsPart
<1>8. \E t2 : EditMade(Replaced(e, PosAfter(u), PosAfter(u \o m), text, coalescable, soon), t, t2,
                       (u \o text) \o w, PosAfter(u \o text), coalescable)
  BY <1>7, ReplacedPart
<1> QED
  BY <1>6, <1>7, <1>8

\* The cursor put elsewhere, without a selection
LEMMA AtHolds ==
    ASSUME NEW e, NEW t, Holds(e, t), e.hasSel = FALSE, NEW p, InLines(e.lines, p)
    PROVE  Holds(At(e, p), t)
<1> DEFINE e2 == At(e, p)
<1>1. /\ e2 \in EditorStates /\ e2.lines = e.lines /\ e2.cursor = p /\ e2.selAnchor = p /\ e2.hasSel = FALSE
      /\ e2.undoStack = e.undoStack /\ e2.redoStack = e.redoStack
  BY DEF Holds, At, EditorStates, InLines
<1> HIDE DEF e2
<1> QED
  BY <1>1 DEF Holds, e2
-----------------------------------------------------------------------------
(* The texts that the records lead through                                  *)

\* The i-th text of those remembered and the present one
TextAt(ts, T, i) == IF i <= Len(ts) THEN ts[i] ELSE T

\* Texts are remembered in a row, the present one after them.
LEMMA FollowingIsAt ==
    ASSUME NEW ts \in Seq(Text), NEW T \in Text, NEW i \in 1..Len(ts)
    PROVE  /\ TextAt(ts, T, i) = ts[i] /\ Following(ts, T, i) = TextAt(ts, T, i + 1)
           /\ ts[i] \in Text /\ TextAt(ts, T, i + 1) \in Text
<1> DEFINE n == Len(ts)
<1>1. n \in Nat /\ \A k \in 1..n : ts[k] \in Text
  BY LenProperties, ElementOfSeq
<1>2. i \in 1..n
  OBVIOUS
<1>3. /\ TextAt(ts, T, i) = IF i <= n THEN ts[i] ELSE T
      /\ TextAt(ts, T, i + 1) = IF i + 1 <= n THEN ts[i + 1] ELSE T
      /\ Following(ts, T, i) = IF i < n THEN ts[i + 1] ELSE T
  BY DEF TextAt, Following
<1> HIDE DEF n
<1>4. i <= n /\ (i < n <=> i + 1 <= n) /\ (i < n => i + 1 \in 1..n)
  BY <1>1, <1>2
<1> QED
  BY <1>1, <1>2, <1>3, <1>4

\* One record leads back by one text.
LEMMA UndoingStep ==
    ASSUME NEW stack, NEW ts, NEW T \in Text, Past(stack, ts, T), NEW i \in 1..Len(stack)
    PROVE  Undone(splitLines(TextAt(ts, T, i + 1)), stack[i]) = splitLines(TextAt(ts, T, i))
<1>1. ts \in Seq(Text) /\ i \in 1..Len(ts) /\ Valid(stack[i], ts[i], Following(ts, T, i))
  BY DEF Past
<1>2. TextAt(ts, T, i) = ts[i] /\ Following(ts, T, i) = TextAt(ts, T, i + 1) /\ ts[i] \in Text
      /\ TextAt(ts, T, i + 1) \in Text
  BY <1>1, FollowingIsAt
<1> DEFINE before == ts[i]
           after == Following(ts, T, i)
<1>3. before \in Text /\ after \in Text /\ Valid(stack[i], before, after)
  BY <1>1, <1>2
<1>4. before = TextAt(ts, T, i) /\ after = TextAt(ts, T, i + 1)
  BY <1>2
<1> HIDE DEF before, after
<1> QED
  BY <1>3, <1>4, PutBack

\* One record leads on by one text.
LEMMA RedoingStep ==
    ASSUME NEW stack, NEW ts, NEW T \in Text, Future(stack, ts, T), NEW i \in 1..Len(stack)
    PROVE  Redone(splitLines(TextAt(ts, T, i + 1)), stack[i]) = splitLines(TextAt(ts, T, i))
<1>1. ts \in Seq(Text) /\ i \in 1..Len(ts) /\ Valid(stack[i], Following(ts, T, i), ts[i])
  BY DEF Future
<1>2. TextAt(ts, T, i) = ts[i] /\ Following(ts, T, i) = TextAt(ts, T, i + 1) /\ ts[i] \in Text
      /\ TextAt(ts, T, i + 1) \in Text
  BY <1>1, FollowingIsAt
<1> DEFINE before == Following(ts, T, i)
           after == ts[i]
<1>3. before \in Text /\ after \in Text /\ Valid(stack[i], before, after)
  BY <1>1, <1>2
<1>4. before = TextAt(ts, T, i + 1) /\ after = TextAt(ts, T, i)
  BY <1>2
<1> HIDE DEF before, after
<1> QED
  BY <1>3, <1>4, PutBack

\* f is the function by which Walked is defined, for undoing.
IsUndoing(stack, ls, f) ==
    f = [i \in 1..(Len(stack) + 1) |-> IF i > Len(stack) THEN ls ELSE Undone(f[i + 1], stack[i])]

\* Its values are the lines of the texts remembered.
LEMMA UndoingGives ==
    ASSUME NEW stack, NEW ts, NEW T \in Text, Past(stack, ts, T), NEW f, IsUndoing(stack, splitLines(T), f)
    PROVE  \A i \in 1..(Len(stack) + 1) : f[i] = splitLines(TextAt(ts, T, i))
<1> DEFINE n == Len(stack)
           N == {j \in Nat : j <= n => f[n + 1 - j] = splitLines(TextAt(ts, T, n + 1 - j))}
<1>1. n \in Nat /\ Len(ts) = n /\ ts \in Seq(Text)
  BY LenProperties DEF Past
<1>2. \A i \in 1..(n + 1) : f[i] = IF i > n THEN splitLines(T) ELSE Undone(f[i + 1], stack[i])
  BY DEF IsUndoing
<1>3. \A i \in 1..n : Undone(splitLines(TextAt(ts, T, i + 1)), stack[i]) = splitLines(TextAt(ts, T, i))
  BY UndoingStep
<1> HIDE DEF n
<1>4. 0 \in N
  <2>1. n + 1 - 0 = n + 1 /\ n + 1 \in 1..(n + 1) /\ n + 1 > n /\ ~(n + 1 <= n)
    BY <1>1
  <2>2. TextAt(ts, T, n + 1) = T
    BY <1>1, <2>1 DEF TextAt
  <2> QED
    BY <1>2, <2>1, <2>2
<1>5. ASSUME NEW j \in Nat, j \in N PROVE j + 1 \in N
  <2> SUFFICES ASSUME j + 1 <= n PROVE f[n + 1 - (j + 1)] = splitLines(TextAt(ts, T, n + 1 - (j + 1)))
    OBVIOUS
  <2> DEFINE i == n - j
  <2>1. n + 1 - (j + 1) = i /\ n + 1 - j = i + 1 /\ i \in 1..n /\ i \in 1..(n + 1) /\ ~(i > n) /\ j <= n
    BY <1>1
  <2>2. f[i + 1] = splitLines(TextAt(ts, T, i + 1))
    BY <1>5, <2>1
  <2> HIDE DEF i
  <2>3. f[i] = Undone(f[i + 1], stack[i])
    BY <1>2, <2>1
  <2> QED
    BY <1>3, <2>1, <2>2, <2>3
<1>6. Nat \subseteq N
  <2> HIDE DEF N
  <2> QED
    BY <1>4, <1>5, NaturalInduction
<1>7. ASSUME NEW i \in 1..(n + 1) PROVE f[i] = splitLines(TextAt(ts, T, i))
  <2> DEFINE j == n + 1 - i
  <2>1. j \in Nat /\ j <= n /\ n + 1 - j = i
    BY <1>1
  <2>2. j \in N
    <3> HIDE DEF N, j
    <3> QED
      BY <1>6, <2>1
  <2> HIDE DEF j
  <2> QED
    BY <2>1, <2>2
<1> QED
  BY <1>7 DEF n

\* There is such a function.
LEMMA UndoingExists ==
    ASSUME NEW stack, NEW ts, NEW T \in Text, Past(stack, ts, T)
    PROVE  \E f : IsUndoing(stack, splitLines(T), f)
<1> DEFINE n == Len(stack)
           f == [i \in 1..(n + 1) |-> splitLines(TextAt(ts, T, i))]
<1>1. n \in Nat /\ Len(ts) = n
  BY LenProperties DEF Past
<1>2. \A i \in 1..n : Undone(splitLines(TextAt(ts, T, i + 1)), stack[i]) = splitLines(TextAt(ts, T, i))
  BY UndoingStep
<1> HIDE DEF n
<1>3. ASSUME NEW i \in 1..(n + 1)
      PROVE  splitLines(TextAt(ts, T, i)) = IF i > n THEN splitLines(T) ELSE Undone(f[i + 1], stack[i])
  <2>1. CASE i > n
    <3>1. ~(i <= n)
      BY <1>1, <2>1
    <3> QED
      BY <1>1, <2>1, <3>1 DEF TextAt
  <2>2. CASE ~(i > n)
    <3>1. i \in 1..n /\ i + 1 \in 1..(n + 1)
      BY <1>1, <2>2
    <3>2. f[i + 1] = splitLines(TextAt(ts, T, i + 1))
      BY <3>1
    <3> HIDE DEF f
    <3> QED
      BY <1>2, <2>2, <3>1, <3>2
  <2> QED
    BY <2>1, <2>2
<1>4. f = [i \in 1..(n + 1) |-> IF i > n THEN splitLines(T) ELSE Undone(f[i + 1], stack[i])]
  BY <1>3
<1> HIDE DEF f
<1> QED
  BY <1>4 DEF IsUndoing, n

\* To undo all records one after the other gives the texts remembered.
LEMMA UndoingIsHistory ==
    ASSUME NEW stack, NEW ts, NEW T \in Text, Past(stack, ts, T)
    PROVE  Walked(Undone, stack, splitLines(T)) = ts
<1> DEFINE n == Len(stack)
           h == CHOOSE f : IsUndoing(stack, splitLines(T), f)
<1>1. IsUndoing(stack, splitLines(T), h)
  <2>1. \E f : IsUndoing(stack, splitLines(T), f)
    BY UndoingExists
  <2> QED
    BY <2>1
<1>2. Walked(Undone, stack, splitLines(T)) = [i \in DOMAIN stack |-> Joined(h[i])]
  BY DEF Walked, IsUndoing
<1>3. n \in Nat /\ Len(ts) = n /\ ts \in Seq(Text) /\ DOMAIN stack = 1..n
  BY LenProperties DEF Past
<1>4. \A i \in 1..(n + 1) : h[i] = splitLines(TextAt(ts, T, i))
  <2> HIDE DEF h
  <2> QED
    BY <1>1, UndoingGives
<1> HIDE DEF h, n
<1>5. ASSUME NEW i \in 1..n PROVE Joined(h[i]) = ts[i]
  <2>1. i \in 1..(n + 1) /\ i <= n
    BY <1>3
  <2>2. TextAt(ts, T, i) = ts[i]
    BY <1>3, <2>1 DEF TextAt
  <2>3. h[i] = splitLines(ts[i])
    BY <1>4, <2>1, <2>2
  <2>4. ts[i] \in Text
    BY <1>3, ElementOfSeq
  <2> QED
    BY <2>3, <2>4, JoinedSplit
<1>6. ts = [i \in 1..n |-> ts[i]]
  BY <1>3, LenProperties
<1> QED
  BY <1>2, <1>3, <1>5, <1>6

\* f is the function by which Walked is defined, for redoing.
IsRedoing(stack, ls, f) ==
    f = [i \in 1..(Len(stack) + 1) |-> IF i > Len(stack) THEN ls ELSE Redone(f[i + 1], stack[i])]

\* Its values are the lines of the texts remembered.
LEMMA RedoingGives ==
    ASSUME NEW stack, NEW ts, NEW T \in Text, Future(stack, ts, T), NEW f, IsRedoing(stack, splitLines(T), f)
    PROVE  \A i \in 1..(Len(stack) + 1) : f[i] = splitLines(TextAt(ts, T, i))
<1> DEFINE n == Len(stack)
           N == {j \in Nat : j <= n => f[n + 1 - j] = splitLines(TextAt(ts, T, n + 1 - j))}
<1>1. n \in Nat /\ Len(ts) = n /\ ts \in Seq(Text)
  BY LenProperties DEF Future
<1>2. \A i \in 1..(n + 1) : f[i] = IF i > n THEN splitLines(T) ELSE Redone(f[i + 1], stack[i])
  BY DEF IsRedoing
<1>3. \A i \in 1..n : Redone(splitLines(TextAt(ts, T, i + 1)), stack[i]) = splitLines(TextAt(ts, T, i))
  BY RedoingStep
<1> HIDE DEF n
<1>4. 0 \in N
  <2>1. n + 1 - 0 = n + 1 /\ n + 1 \in 1..(n + 1) /\ n + 1 > n /\ ~(n + 1 <= n)
    BY <1>1
  <2>2. TextAt(ts, T, n + 1) = T
    BY <1>1, <2>1 DEF TextAt
  <2> QED
    BY <1>2, <2>1, <2>2
<1>5. ASSUME NEW j \in Nat, j \in N PROVE j + 1 \in N
  <2> SUFFICES ASSUME j + 1 <= n PROVE f[n + 1 - (j + 1)] = splitLines(TextAt(ts, T, n + 1 - (j + 1)))
    OBVIOUS
  <2> DEFINE i == n - j
  <2>1. n + 1 - (j + 1) = i /\ n + 1 - j = i + 1 /\ i \in 1..n /\ i \in 1..(n + 1) /\ ~(i > n) /\ j <= n
    BY <1>1
  <2>2. f[i + 1] = splitLines(TextAt(ts, T, i + 1))
    BY <1>5, <2>1
  <2> HIDE DEF i
  <2>3. f[i] = Redone(f[i + 1], stack[i])
    BY <1>2, <2>1
  <2> QED
    BY <1>3, <2>1, <2>2, <2>3
<1>6. Nat \subseteq N
  <2> HIDE DEF N
  <2> QED
    BY <1>4, <1>5, NaturalInduction
<1>7. ASSUME NEW i \in 1..(n + 1) PROVE f[i] = splitLines(TextAt(ts, T, i))
  <2> DEFINE j == n + 1 - i
  <2>1. j \in Nat /\ j <= n /\ n + 1 - j = i
    BY <1>1
  <2>2. j \in N
    <3> HIDE DEF N, j
    <3> QED
      BY <1>6, <2>1
  <2> HIDE DEF j
  <2> QED
    BY <2>1, <2>2
<1> QED
  BY <1>7 DEF n

\* There is such a function.
LEMMA RedoingExists ==
    ASSUME NEW stack, NEW ts, NEW T \in Text, Future(stack, ts, T)
    PROVE  \E f : IsRedoing(stack, splitLines(T), f)
<1> DEFINE n == Len(stack)
           f == [i \in 1..(n + 1) |-> splitLines(TextAt(ts, T, i))]
<1>1. n \in Nat /\ Len(ts) = n
  BY LenProperties DEF Future
<1>2. \A i \in 1..n : Redone(splitLines(TextAt(ts, T, i + 1)), stack[i]) = splitLines(TextAt(ts, T, i))
  BY RedoingStep
<1> HIDE DEF n
<1>3. ASSUME NEW i \in 1..(n + 1)
      PROVE  splitLines(TextAt(ts, T, i)) = IF i > n THEN splitLines(T) ELSE Redone(f[i + 1], stack[i])
  <2>1. CASE i > n
    <3>1. ~(i <= n)
      BY <1>1, <2>1
    <3> QED
      BY <1>1, <2>1, <3>1 DEF TextAt
  <2>2. CASE ~(i > n)
    <3>1. i \in 1..n /\ i + 1 \in 1..(n + 1)
      BY <1>1, <2>2
    <3>2. f[i + 1] = splitLines(TextAt(ts, T, i + 1))
      BY <3>1
    <3> HIDE DEF f
    <3> QED
      BY <1>2, <2>2, <3>1, <3>2
  <2> QED
    BY <2>1, <2>2
<1>4. f = [i \in 1..(n + 1) |-> IF i > n THEN splitLines(T) ELSE Redone(f[i + 1], stack[i])]
  BY <1>3
<1> HIDE DEF f
<1> QED
  BY <1>4 DEF IsRedoing, n

\* To redo all records one after the other gives the texts remembered.
LEMMA RedoingIsHistory ==
    ASSUME NEW stack, NEW ts, NEW T \in Text, Future(stack, ts, T)
    PROVE  Walked(Redone, stack, splitLines(T)) = ts
<1> DEFINE n == Len(stack)
           h == CHOOSE f : IsRedoing(stack, splitLines(T), f)
<1>1. IsRedoing(stack, splitLines(T), h)
  <2>1. \E f : IsRedoing(stack, splitLines(T), f)
    BY RedoingExists
  <2> QED
    BY <2>1
<1>2. Walked(Redone, stack, splitLines(T)) = [i \in DOMAIN stack |-> Joined(h[i])]
  BY DEF Walked, IsRedoing
<1>3. n \in Nat /\ Len(ts) = n /\ ts \in Seq(Text) /\ DOMAIN stack = 1..n
  BY LenProperties DEF Future
<1>4. \A i \in 1..(n + 1) : h[i] = splitLines(TextAt(ts, T, i))
  <2> HIDE DEF h
  <2> QED
    BY <1>1, RedoingGives
<1> HIDE DEF h, n
<1>5. ASSUME NEW i \in 1..n PROVE Joined(h[i]) = ts[i]
  <2>1. i \in 1..(n + 1) /\ i <= n
    BY <1>3
  <2>2. TextAt(ts, T, i) = ts[i]
    BY <1>3, <2>1 DEF TextAt
  <2>3. h[i] = splitLines(ts[i])
    BY <1>4, <2>1, <2>2
  <2>4. ts[i] \in Text
    BY <1>3, ElementOfSeq
  <2> QED
    BY <2>3, <2>4, JoinedSplit
<1>6. ts = [i \in 1..n |-> ts[i]]
  BY <1>3, LenProperties
<1> QED
  BY <1>2, <1>3, <1>5, <1>6

\* The history that the refinement mapping computes is the only one an editor can hold.
LEMMA TextsAre ==
    ASSUME NEW e, NEW t, Holds(e, t)
    PROVE  Texts(e) = t
<1>1. /\ t \in Histories /\ t.present \in Text /\ e.lines = splitLines(t.present)
      /\ Past(e.undoStack, t.past, t.present) /\ Future(e.redoStack, t.future, t.present)
  BY DEF Holds, Histories
<1>2. Walked(Undone, e.undoStack, e.lines) = t.past
  BY <1>1, UndoingIsHistory
<1>3. Walked(Redone, e.redoStack, e.lines) = t.future
  BY <1>1, RedoingIsHistory
<1>4. Joined(e.lines) = t.present
  BY <1>1, JoinedSplit
<1>5. Texts(e) = [past |-> t.past, present |-> t.present, future |-> t.future]
  BY <1>2, <1>3, <1>4 DEF Texts
<1> QED
  BY <1>1, <1>5 DEF Histories
-----------------------------------------------------------------------------
(* Undo and redo                                                            *)

\* What dropping the last element of a sequence leaves.
LEMMA PopFacts ==
    ASSUME NEW S, NEW s \in Seq(S), s # << >>
    PROVE  /\ Len(s) \in Nat /\ Len(s) >= 1 /\ Pop(s) \in Seq(S) /\ Len(Pop(s)) = Len(s) - 1
           /\ s[Len(s)] \in S /\ \A i \in 1..(Len(s) - 1) : Pop(s)[i] = s[i]
<1> DEFINE n == Len(s)
           p == SubSeq(s, 1, n - 1)
<1>1. n \in Nat /\ n # 0
  BY EmptySeq
<1>2. \A i \in 1..n : s[i] \in S
  BY ElementOfSeq
<1>3. Pop(s) = p
  BY DEF Pop
<1>4. n >= 1 /\ n - 1 \in Nat /\ n - 1 <= n /\ 1 <= (n - 1) + 1 /\ (n - 1) - 1 + 1 = n - 1 /\ n \in 1..n
  <2> HIDE DEF n
  <2> QED
    BY <1>1
<1>5. /\ p \in Seq(S) /\ Len(p) = (n - 1) - 1 + 1
      /\ \A i \in 1..((n - 1) - 1 + 1) : p[i] = s[1 + i - 1]
  BY <1>4, PartFacts
<1> HIDE DEF p, n
<1>6. \A i \in 1..(n - 1) : 1 + i - 1 = i
  BY <1>1
<1> QED
  BY <1>1, <1>2, <1>3, <1>4, <1>5, <1>6 DEF n

\* When the last text remembered becomes the present one, the others keep what follows them.
LEMMA FollowingPopped ==
    ASSUME NEW ts \in Seq(Text), NEW T, ts # << >>, NEW i \in 1..(Len(ts) - 1)
    PROVE  Following(Pop(ts), ts[Len(ts)], i) = Following(ts, T, i)
<1> DEFINE n == Len(ts)
           u == Pop(ts)
<1>1. n \in Nat /\ n >= 1 /\ Len(u) = n - 1 /\ \A j \in 1..(n - 1) : u[j] = ts[j]
  BY PopFacts
<1>2. i \in 1..(n - 1)
  OBVIOUS
<1>3. Following(u, ts[n], i) = (IF i < Len(u) THEN u[i + 1] ELSE ts[n])
      /\ Following(ts, T, i) = IF i < n THEN ts[i + 1] ELSE T
  BY DEF Following
<1> HIDE DEF u, n
<1>4. i < n
  BY <1>1, <1>2
<1>5. CASE i < n - 1
  <2>1. i + 1 \in 1..(n - 1)
    BY <1>1, <1>2, <1>5
  <2> QED
    BY <1>1, <1>3, <1>4, <1>5, <2>1 DEF u, n
<1>6. CASE ~(i < n - 1)
  <2>1. i + 1 = n
    BY <1>1, <1>2, <1>6
  <2> QED
    BY <1>1, <1>3, <1>4, <1>6, <2>1 DEF u, n
<1> QED
  BY <1>5, <1>6

\* The last record is taken off the undo stack: its text is the present one.
LEMMA PastPopped ==
    ASSUME NEW stack, NEW ts, NEW T \in Text, Past(stack, ts, T), stack # << >>
    PROVE  /\ ts # << >> /\ ts[Len(ts)] \in Text /\ Len(stack) \in Nat /\ Len(stack) >= 1
           /\ Past(Pop(stack), Pop(ts), ts[Len(ts)]) /\ Len(Pop(stack)) = Len(stack) - 1
           /\ Top(stack) \in EditRecord /\ Valid(Top(stack), ts[Len(ts)], T)
<1> DEFINE n == Len(stack)
           s2 == Pop(stack)
           t2 == Pop(ts)
           T2 == ts[n]
<1>1. stack \in Seq(EditRecord) /\ ts \in Seq(Text) /\ Len(ts) = n /\ \A i \in 1..n : Valid(stack[i], ts[i], Following(ts, T, i))
  BY DEF Past
<1>2. ts # << >>
  BY <1>1, EmptySeq
<1>3. n \in Nat /\ n >= 1 /\ s2 \in Seq(EditRecord) /\ Len(s2) = n - 1 /\ \A i \in 1..(n - 1) : s2[i] = stack[i]
  BY <1>1, PopFacts
<1>4. t2 \in Seq(Text) /\ Len(t2) = n - 1 /\ T2 \in Text /\ \A i \in 1..(n - 1) : t2[i] = ts[i]
  BY <1>1, <1>2, PopFacts
<1>5. \A i \in 1..(n - 1) : Following(t2, T2, i) = Following(ts, T, i)
  BY <1>1, <1>2, FollowingPopped
<1>6. stack[n] \in EditRecord
  BY <1>1, PopFacts
<1> HIDE DEF n, s2, t2, T2
<1>7. n \in 1..n /\ ~(n < n)
  BY <1>3
<1>8. Following(ts, T, n) = T
  BY <1>1, <1>7 DEF Following
<1>9. Valid(stack[n], T2, T)
  BY <1>1, <1>7, <1>8 DEF T2
<1>10. ASSUME NEW i \in 1..(n - 1) PROVE Valid(s2[i], t2[i], Following(t2, T2, i))
  <2>1. i \in 1..n
    BY <1>3
  <2> QED
    BY <2>1, <1>1, <1>3, <1>4, <1>5
<1>11. Past(s2, t2, T2)
  BY <1>3, <1>4, <1>10 DEF Past
<1> QED
  BY <1>1, <1>2, <1>3, <1>4, <1>6, <1>9, <1>11 DEF n, s2, t2, T2, Top

\* The last record is taken off the redo stack: its text is the present one.
LEMMA FuturePopped ==
    ASSUME NEW stack, NEW ts, NEW T \in Text, Future(stack, ts, T), stack # << >>
    PROVE  /\ ts # << >> /\ ts[Len(ts)] \in Text /\ Len(stack) \in Nat /\ Len(stack) >= 1
           /\ Future(Pop(stack), Pop(ts), ts[Len(ts)]) /\ Len(Pop(stack)) = Len(stack) - 1
           /\ Top(stack) \in EditRecord /\ Valid(Top(stack), T, ts[Len(ts)])
<1> DEFINE n == Len(stack)
           s2 == Pop(stack)
           t2 == Pop(ts)
           T2 == ts[n]
<1>1. stack \in Seq(EditRecord) /\ ts \in Seq(Text) /\ Len(ts) = n /\ \A i \in 1..n : Valid(stack[i], Following(ts, T, i), ts[i])
  BY DEF Future
<1>2. ts # << >>
  BY <1>1, EmptySeq
<1>3. n \in Nat /\ n >= 1 /\ s2 \in Seq(EditRecord) /\ Len(s2) = n - 1 /\ \A i \in 1..(n - 1) : s2[i] = stack[i]
  BY <1>1, PopFacts
<1>4. t2 \in Seq(Text) /\ Len(t2) = n - 1 /\ T2 \in Text /\ \A i \in 1..(n - 1) : t2[i] = ts[i]
  BY <1>1, <1>2, PopFacts
<1>5. \A i \in 1..(n - 1) : Following(t2, T2, i) = Following(ts, T, i)
  BY <1>1, <1>2, FollowingPopped
<1>6. stack[n] \in EditRecord
  BY <1>1, PopFacts
<1> HIDE DEF n, s2, t2, T2
<1>7. n \in 1..n /\ ~(n < n)
  BY <1>3
<1>8. Following(ts, T, n) = T
  BY <1>1, <1>7 DEF Following
<1>9. Valid(stack[n], T, T2)
  BY <1>1, <1>7, <1>8 DEF T2
<1>10. ASSUME NEW i \in 1..(n - 1) PROVE Valid(s2[i], Following(t2, T2, i), t2[i])
  <2>1. i \in 1..n
    BY <1>3
  <2> QED
    BY <2>1, <1>1, <1>3, <1>4, <1>5
<1>11. Future(s2, t2, T2)
  BY <1>3, <1>4, <1>10 DEF Future
<1> QED
  BY <1>1, <1>2, <1>3, <1>4, <1>6, <1>9, <1>11 DEF n, s2, t2, T2, Top

\* A brace is typed and its line corrected: TypeAndCorrect of EditHistory.
Corrects(t, t2) ==
    /\ t2.future = << >>
    /\ \E i \in 0..Len(t.present), c \in {"}"} :
         LET typed == SubSeq(t.present, 1, i) \o <<c>> \o SubSeq(t.present, i + 1, Len(t.present))
         IN  \/ t2.past = H!Newest(Append(H!Newest(Append(t.past, t.present)), typed))
             \/ t.past # << >> /\ t2.past = H!Newest(Append(t.past, typed))

\* A step of EditHistory, or none
HistoryStep(t, t2) ==
    \/ t2 = t
    \/ t2.past = << >> /\ t2.future = << >>
    \/ t2.future = << >> /\ Remembers(t.past, t.present, TRUE, t2.past)
    \/ Corrects(t, t2)
    \/ /\ t.past # << >> /\ t2.present = t.past[Len(t.past)] /\ t2.past = Pop(t.past)
       /\ t2.future = Append(t.future, t.present)
    \/ /\ t.future # << >> /\ t2.present = t.future[Len(t.future)] /\ t2.future = Pop(t.future)
       /\ t2.past = Append(t.past, t.present)

\* undo puts back the last text of the past, and its cursor is within it (undo).
LEMMA UndoKeeps ==
    ASSUME NEW e, NEW t, Holds(e, t), e.undoStack # << >>
    PROVE  LET rec == Top(e.undoStack)
               ls == Undone(e.lines, rec)
               e2 == [lines |-> ls, cursor |-> clampPosition(ls, rec.cursorBefore), selAnchor |-> rec.cursorBefore,
                      hasSel |-> FALSE, undoStack |-> Pop(e.undoStack), redoStack |-> Append(e.redoStack, rec)]
           IN  \E t2 : Holds(e2, t2) /\ HistoryStep(t, t2)
<1> DEFINE rec == Top(e.undoStack)
           ls == Undone(e.lines, rec)
           p == rec.cursorBefore
           e2 == [lines |-> ls, cursor |-> clampPosition(ls, p), selAnchor |-> p,
                  hasSel |-> FALSE, undoStack |-> Pop(e.undoStack), redoStack |-> Append(e.redoStack, rec)]
           T == t.present
           T2 == t.past[Len(t.past)]
           t2 == [past |-> Pop(t.past), present |-> T2, future |-> Append(t.future, T)]
<1>1. /\ T \in Text /\ e.lines = splitLines(T) /\ Past(e.undoStack, t.past, T) /\ Future(e.redoStack, t.future, T)
  BY DEF Holds, Histories
<1>2. /\ t.past # << >> /\ T2 \in Text /\ Past(Pop(e.undoStack), Pop(t.past), T2)
      /\ Len(Pop(e.undoStack)) = Len(e.undoStack) - 1 /\ rec \in EditRecord /\ Valid(rec, T2, T)
      /\ Len(e.undoStack) \in Nat
  <2> HIDE DEF T
  <2> QED
    BY <1>1, PastPopped
<1> HIDE DEF T, T2, rec
<1>3. ls = splitLines(T2) /\ ls \in Docs /\ InLines(ls, p)
  <2>1. ls = splitLines(T2)
    <3>1. T \in Text /\ T2 \in Text /\ Valid(rec, T2, T)
      BY <1>1, <1>2
    <3>2. Undone(splitLines(T), rec) = splitLines(T2)
      BY <3>1, PutBack
    <3> QED
      BY <1>1, <3>2
  <2>2. splitLines(T2) \in Docs
    BY <1>2, SplitDoc
  <2> QED
    BY <1>2, <2>1, <2>2 DEF Valid
<1>4. Future(Append(e.redoStack, rec), Append(t.future, T), T2) /\ Len(Append(e.redoStack, rec)) = Len(e.redoStack) + 1
  BY <1>1, <1>2, FutureAppended
<1> HIDE DEF ls, p
<1>5. clampPosition(ls, p) = p
  BY <1>3, ClampSame
<1>6. /\ e2 \in EditorStates /\ e2.lines = splitLines(T2) /\ e2.lines = ls /\ e2.cursor = p /\ e2.selAnchor = p /\ e2.hasSel = FALSE
      /\ e2.undoStack = Pop(e.undoStack) /\ e2.redoStack = Append(e.redoStack, rec)
  <2>1. Pop(e.undoStack) \in Seq(EditRecord) /\ Append(e.redoStack, rec) \in Seq(EditRecord)
    BY <1>2, <1>4 DEF Past, Future
  <2>2. p \in Nat \X Nat
    BY <1>3 DEF InLines
  <2> QED
    BY <1>3, <1>5, <2>1, <2>2 DEF EditorStates
<1>7. t2 \in Histories /\ t2.past = Pop(t.past) /\ t2.present = T2 /\ t2.future = Append(t.future, T)
  <2>1. Pop(t.past) \in Seq(Text) /\ Append(t.future, T) \in Seq(Text)
    BY <1>2, <1>4 DEF Past, Future
  <2> QED
    BY <1>2, <2>1 DEF Histories
<1>8. Len(Pop(e.undoStack)) + Len(Append(e.redoStack, rec)) <= kMaxHistory
  <2> DEFINE x == Len(e.undoStack)
             y == Len(e.redoStack)
  <2>1. x \in Nat /\ y \in Nat /\ x + y <= kMaxHistory
    BY <1>2, LenProperties DEF Holds, EditorStates
  <2>2. Len(Pop(e.undoStack)) = x - 1 /\ Len(Append(e.redoStack, rec)) = y + 1
    BY <1>2, <1>4
  <2> HIDE DEF x, y
  <2>3. (x - 1) + (y + 1) = x + y
    BY <2>1
  <2> QED
    BY <2>1, <2>2, <2>3
<1> HIDE DEF e2, t2
<1>9. Holds(e2, t2)
  BY <1>2, <1>3, <1>4, <1>6, <1>7, <1>8 DEF Holds
<1>10. HistoryStep(t, t2)
  BY <1>2, <1>7 DEF HistoryStep, T, T2
<1> QED
  BY <1>9, <1>10 DEF e2, ls, p, rec

\* redo brings the last text of the future, and its cursor is within it (redo).
LEMMA RedoKeeps ==
    ASSUME NEW e, NEW t, Holds(e, t), e.redoStack # << >>
    PROVE  LET rec == Top(e.redoStack)
               ls == Redone(e.lines, rec)
               e2 == [lines |-> ls, cursor |-> clampPosition(ls, rec.cursorAfter), selAnchor |-> rec.cursorAfter,
                      hasSel |-> FALSE, undoStack |-> Append(e.undoStack, rec), redoStack |-> Pop(e.redoStack)]
           IN  \E t2 : Holds(e2, t2) /\ HistoryStep(t, t2)
<1> DEFINE rec == Top(e.redoStack)
           ls == Redone(e.lines, rec)
           p == rec.cursorAfter
           e2 == [lines |-> ls, cursor |-> clampPosition(ls, p), selAnchor |-> p,
                  hasSel |-> FALSE, undoStack |-> Append(e.undoStack, rec), redoStack |-> Pop(e.redoStack)]
           T == t.present
           T2 == t.future[Len(t.future)]
           t2 == [past |-> Append(t.past, T), present |-> T2, future |-> Pop(t.future)]
<1>1. /\ T \in Text /\ e.lines = splitLines(T) /\ Past(e.undoStack, t.past, T) /\ Future(e.redoStack, t.future, T)
  BY DEF Holds, Histories
<1>2. /\ t.future # << >> /\ T2 \in Text /\ Future(Pop(e.redoStack), Pop(t.future), T2)
      /\ Len(Pop(e.redoStack)) = Len(e.redoStack) - 1 /\ rec \in EditRecord /\ Valid(rec, T, T2)
      /\ Len(e.redoStack) \in Nat
  <2> HIDE DEF T
  <2> QED
    BY <1>1, FuturePopped
<1> HIDE DEF T, T2, rec
<1>3. ls = splitLines(T2) /\ ls \in Docs /\ InLines(ls, p)
  <2>1. ls = splitLines(T2)
    BY <1>1, <1>2, PutBack
  <2>2. splitLines(T2) \in Docs
    BY <1>2, SplitDoc
  <2> QED
    BY <1>2, <2>1, <2>2 DEF Valid
<1>4. Past(Append(e.undoStack, rec), Append(t.past, T), T2) /\ Len(Append(e.undoStack, rec)) = Len(e.undoStack) + 1
  BY <1>1, <1>2, PastAppended
<1> HIDE DEF ls, p
<1>5. clampPosition(ls, p) = p
  BY <1>3, ClampSame
<1>6. /\ e2 \in EditorStates /\ e2.lines = splitLines(T2) /\ e2.lines = ls /\ e2.cursor = p /\ e2.selAnchor = p /\ e2.hasSel = FALSE
      /\ e2.undoStack = Append(e.undoStack, rec) /\ e2.redoStack = Pop(e.redoStack)
  <2>1. Append(e.undoStack, rec) \in Seq(EditRecord) /\ Pop(e.redoStack) \in Seq(EditRecord)
    BY <1>2, <1>4 DEF Past, Future
  <2>2. p \in Nat \X Nat
    BY <1>3 DEF InLines
  <2> QED
    BY <1>3, <1>5, <2>1, <2>2 DEF EditorStates
<1>7. t2 \in Histories /\ t2.future = Pop(t.future) /\ t2.present = T2 /\ t2.past = Append(t.past, T)
  <2>1. Pop(t.future) \in Seq(Text) /\ Append(t.past, T) \in Seq(Text)
    BY <1>2, <1>4 DEF Past, Future
  <2> QED
    BY <1>2, <2>1 DEF Histories
<1>8. Len(Append(e.undoStack, rec)) + Len(Pop(e.redoStack)) <= kMaxHistory
  <2> DEFINE x == Len(e.redoStack)
             y == Len(e.undoStack)
  <2>1. x \in Nat /\ y \in Nat /\ y + x <= kMaxHistory
    BY <1>2, LenProperties DEF Holds, EditorStates
  <2>2. Len(Pop(e.redoStack)) = x - 1 /\ Len(Append(e.undoStack, rec)) = y + 1
    BY <1>2, <1>4
  <2> HIDE DEF x, y
  <2>3. (y + 1) + (x - 1) = y + x
    BY <2>1
  <2> QED
    BY <2>1, <2>2, <2>3
<1> HIDE DEF e2, t2
<1>9. Holds(e2, t2)
  BY <1>2, <1>3, <1>4, <1>6, <1>7, <1>8 DEF Holds
<1>10. HistoryStep(t, t2)
  BY <1>2, <1>7 DEF HistoryStep, T, T2
<1> QED
  BY <1>9, <1>10 DEF e2, ls, p, rec

\* A document that was opened has no past and no future (setText).
LEMMA FreshHolds ==
    ASSUME NEW text \in Text
    PROVE  \E t2 : Holds(Fresh(text), t2) /\ t2.past = << >> /\ t2.future = << >>
<1> DEFINE e2 == Fresh(text)
           t2 == [past |-> << >>, present |-> text, future |-> << >>]
<1>1. splitLines(text) \in Docs
  BY SplitDoc
<1>2. << >> \in Seq(Text) /\ << >> \in Seq(EditRecord) /\ Len(<< >>) = 0 /\ 1..Len(<< >>) = {}
  BY EmptySeq
<1>3. /\ e2 \in EditorStates /\ e2.lines = splitLines(text) /\ e2.cursor = <<1, 0>> /\ e2.selAnchor = <<1, 0>>
      /\ e2.hasSel = FALSE /\ e2.undoStack = << >> /\ e2.redoStack = << >>
  BY <1>1, <1>2 DEF Fresh, EditorStates
<1>4. t2 \in Histories /\ t2.past = << >> /\ t2.present = text /\ t2.future = << >>
  BY <1>2 DEF Histories
<1>5. InLines(splitLines(text), <<1, 0>>)
  <2>1. 1 \in DOMAIN splitLines(text) /\ Len(splitLines(text)[1]) \in Nat
    BY <1>1, DocFacts
  <2>2. 0 \in 0..Len(splitLines(text)[1])
    BY <2>1
  <2> QED
    BY <2>1, <2>2 DEF InLines
<1>6. kMaxHistory \in Nat
  BY EditorAssumption
<1>7. Past(<< >>, << >>, text) /\ Future(<< >>, << >>, text)
  BY <1>2 DEF Past, Future
<1>8. Len(<< >>) + Len(<< >>) <= kMaxHistory
  BY <1>2, <1>6
<1> HIDE DEF e2, t2
<1>9. Holds(e2, t2)
  BY <1>3, <1>4, <1>5, <1>7, <1>8 DEF Holds
<1> QED
  BY <1>4, <1>9 DEF e2
-----------------------------------------------------------------------------
(* What the commands put in is a text                                       *)

\* What is before a column of a line is a text.
LEMMA BeforeText ==
    ASSUME NEW line \in Text, NEW col \in 0..Len(line)
    PROVE  Before(line, col) \in Text /\ Len(Before(line, col)) = col
<1> DEFINE n == Len(line)
           s == SubSeq(line, 1, col)
<1>1. n \in Nat
  BY LenProperties DEF Text
<1>2. col \in 0..n
  OBVIOUS
<1>3. Before(line, col) = s
  BY DEF Before
<1>4. col \in Nat /\ col <= n /\ 1 <= col + 1 /\ col - 1 + 1 = col
  <2> HIDE DEF n
  <2> QED
    BY <1>1, <1>2
<1>5. s \in Seq(Byte) /\ Len(s) = col - 1 + 1
  <2>1. line \in Seq(Byte) /\ 1 \in Nat /\ col \in Nat /\ 1 >= 1 /\ col <= Len(line) /\ 1 <= col + 1
    BY <1>4 DEF Text
  <2> HIDE DEF s
  <2> QED
    BY <2>1, PartFacts DEF s
<1> HIDE DEF s
<1> QED
  BY <1>3, <1>4, <1>5 DEF Text

\* What is after a column is one.
LEMMA AfterText ==
    ASSUME NEW line \in Text, NEW col \in Nat
    PROVE  After(line, col) \in Text
<1> DEFINE n == Len(line)
<1>1. n \in Nat /\ \A i \in 1..n : line[i] \in Byte
  BY LenProperties, ElementOfSeq DEF Text
<1>2. After(line, col) = SubSeq(line, col + 1, n)
  BY DEF After
<1> HIDE DEF n
<1>3. col + 1 \in Int /\ n \in Int /\ (col + 1)..n \subseteq 1..n
  BY <1>1
<1>4. SubSeq(line, col + 1, n) \in Seq(Byte)
  BY <1>1, <1>3, SubSeqProperties
<1> QED
  BY <1>2, <1>4 DEF Text

\* A line without its first byte is a text.
LEMMA TailText ==
    ASSUME NEW line \in Text, line # << >>
    PROVE  Tail(line) \in Text
BY HeadTailProperties DEF Text

\* What the engine puts in by itself is made of bytes.
LEMMA MarkTexts ==
    /\ Indent \in Text /\ Slashes \in Text /\ <<" ">> \in Text
    /\ \A c \in DOMAIN CloserOf \cup Quotes : c \in Byte /\ Partner(c) \in Byte
<1>1. Marks \subseteq Byte
  BY EditorAssumption
<1>2. " " \in Byte /\ "/" \in Byte /\ {"(", "[", "{"} \subseteq Byte /\ Closers \subseteq Byte /\ Quotes \subseteq Byte
  BY <1>1 DEF Marks, Blank
<1>3. DOMAIN CloserOf = {"(", "[", "{"} /\ \A c \in {"(", "[", "{"} : CloserOf[c] \in Closers
  BY DEF CloserOf, Closers
<1>4. Indent \in Text /\ Slashes \in Text /\ <<" ">> \in Text
  <2>1. \A b \in Byte : <<b>> \in Seq(Byte) /\ <<b, b>> \in Seq(Byte) /\ <<b, b, b, b>> \in Seq(Byte)
    OBVIOUS
  <2> QED
    BY <1>2, <2>1 DEF Indent, Slashes, Text
<1> HIDE DEF CloserOf
<1>5. \A c \in DOMAIN CloserOf \cup Quotes : c \in Byte /\ Partner(c) \in Byte
  BY <1>2, <1>3 DEF Partner
<1> QED
  BY <1>4, <1>5

\* The whitespace a line begins with is a text.
LEMMA LeadingText ==
    ASSUME NEW line \in Text
    PROVE  leadingWhitespace(line) \in Text /\ Len(leadingWhitespace(line)) \in Nat
<1> DEFINE size == Len(line)
           IsEnd(n) == /\ \A i \in 1..n : line[i] \in Blank
                       /\ n = Len(line) \/ line[n + 1] \notin Blank
           S == {n \in Nat : n = size \/ (n < size /\ line[n + 1] \notin Blank)}
<1>1. size \in Nat
  BY LenProperties DEF Text
<1>2. PICK n \in S : \A k \in S : n <= k
  <2> HIDE DEF size
  <2>1. size \in S /\ S \subseteq Nat
    BY <1>1
  <2> HIDE DEF S
  <2> QED
    BY <2>1, LeastNatural
<1>3. n \in 0..size /\ (n = size \/ line[n + 1] \notin Blank)
  <2> HIDE DEF size
  <2> QED
    BY <1>1, <1>2
<1>4. ASSUME NEW i \in 1..n PROVE line[i] \in Blank
  <2> HIDE DEF size
  <2>1. i - 1 \in Nat /\ i - 1 < n /\ i - 1 < size /\ (i - 1) + 1 = i /\ ~(n <= i - 1)
    BY <1>1, <1>3
  <2>2. i - 1 \notin S
    BY <1>2, <2>1
  <2> QED
    BY <2>1, <2>2
<1>5. \E k \in 0..Len(line) : IsEnd(k)
  BY <1>3, <1>4
<1> DEFINE m == CHOOSE k \in 0..Len(line) : IsEnd(k)
<1>6. m \in 0..Len(line)
  <2> HIDE DEF IsEnd
  <2> QED
    BY <1>5
<1>7. leadingWhitespace(line) = Before(line, m)
  BY DEF leadingWhitespace
<1> HIDE DEF m
<1> QED
  BY <1>6, <1>7, BeforeText, LenProperties DEF Text

\* An indented line is a text.
LEMMA IndentedText ==
    ASSUME NEW line \in Text
    PROVE  Indented(line) \in Text
BY MarkTexts, ConcatText DEF Indented

\* A line made a comment is a text.
LEMMA CommentedText ==
    ASSUME NEW line \in Text
    PROVE  Commented(line) \in Text
<1> DEFINE white == leadingWhitespace(line)
           rest == After(line, Len(white))
<1>1. white \in Text /\ rest \in Text /\ Slashes \in Text /\ <<" ">> \in Text
  BY LeadingText, AfterText, MarkTexts
<1>2. Commented(line) = IF OnlyBlank(line) THEN line ELSE white \o Slashes \o <<" ">> \o rest
  BY DEF Commented
<1> HIDE DEF white, rest
<1>3. white \o Slashes \in Text
  BY <1>1, ConcatText
<1>4. (white \o Slashes) \o <<" ">> \in Text
  BY <1>1, <1>3, ConcatText
<1>5. white \o Slashes \o <<" ">> \o rest \in Text
  BY <1>1, <1>4, ConcatText
<1> QED
  BY <1>2, <1>5

\* A comment taken back is a text.
LEMMA UncommentedText ==
    ASSUME NEW line \in Text
    PROVE  Uncommented(line) \in Text
<1> DEFINE white == leadingWhitespace(line)
           rest == After(line, Len(white) + 2)
           kept == IF rest # << >> /\ rest[1] = " " THEN Tail(rest) ELSE rest
<1>1. white \in Text /\ Len(white) \in Nat
  BY LeadingText
<1>2. rest \in Text
  <2>1. Len(white) + 2 \in Nat
    BY <1>1
  <2> QED
    BY <2>1, AfterText
<1>3. Uncommented(line) = IF OnlyBlank(line) THEN line ELSE white \o kept
  BY DEF Uncommented
<1> HIDE DEF white, rest
<1>4. kept \in Text
  BY <1>2, TailText
<1> HIDE DEF kept
<1>5. white \o kept \in Text
  BY <1>1, <1>4, ConcatText
<1> QED
  BY <1>3, <1>5

\* A line with less indentation is a text.
LEMMA UnindentedText ==
    ASSUME NEW line \in Text
    PROVE  Unindented(line) \in Text
<1> DEFINE size == Least(4, Len(line))
           blank == " "
           IsEnd(n) == /\ \A i \in 1..n : line[i] = blank
                       /\ n = size \/ line[n + 1] # blank
           S == {n \in Nat : n = size \/ (n < size /\ line[n + 1] # blank)}
<1>1. size \in Nat
  BY LenProperties DEF Text, Least
<1> HIDE DEF blank
<1>2. PICK n \in S : \A k \in S : n <= k
  <2> HIDE DEF size, IsEnd
  <2>1. size \in S /\ S \subseteq Nat
    BY <1>1
  <2> HIDE DEF S
  <2> QED
    BY <2>1, LeastNatural
<1>3. n \in 0..size /\ (n = size \/ line[n + 1] # blank)
  <2> HIDE DEF size, IsEnd
  <2> QED
    BY <1>1, <1>2
<1>4. ASSUME NEW i \in 1..n PROVE line[i] = blank
  <2> HIDE DEF size, IsEnd
  <2>1. i - 1 \in Nat /\ i - 1 < n /\ i - 1 < size /\ (i - 1) + 1 = i /\ ~(n <= i - 1)
    BY <1>1, <1>3
  <2>2. i - 1 \notin S
    BY <1>2, <2>1
  <2> QED
    BY <2>1, <2>2
<1>5. \E k \in 0..size : IsEnd(k)
  BY <1>3, <1>4
<1> DEFINE m == CHOOSE k \in 0..size : IsEnd(k)
<1>6. m \in 0..size
  <2> HIDE DEF IsEnd
  <2> QED
    BY <1>5
<1>7. Unindented(line) = IF line # << >> /\ line[1] = "\t" THEN Tail(line) ELSE After(line, m)
  BY DEF Unindented, blank
<1> HIDE DEF m, size, IsEnd
<1>8. m \in Nat
  BY <1>1, <1>6
<1> QED
  BY <1>7, <1>8, TailText, AfterText

\* A newline and the indentation after it are a text.
LEMMA NewLineText ==
    ASSUME NEW before \in Text, NEW more \in {Indent, << >>}
    PROVE  <<Newline>> \o leadingWhitespace(before) \o more \in Text
<1>1. <<Newline>> \in Text /\ leadingWhitespace(before) \in Text /\ more \in Text
  BY NewlineText, LeadingText, MarkTexts
<1>2. <<Newline>> \o leadingWhitespace(before) \in Text
  BY <1>1, ConcatText
<1> QED
  BY <1>1, <1>2, ConcatText
-----------------------------------------------------------------------------
(* Edits that are a step of EditHistory                                     *)

\* The editor e2 holds, and what is remembered has made a step of EditHistory
Leads(e2, t) == \E t2 : Holds(e2, t2) /\ HistoryStep(t, t2)

\* An edit is a step of EditHistory.
LEMMA EditLeads ==
    ASSUME NEW e2, NEW t, NEW t2, NEW after, NEW p, NEW coalescable, EditMade(e2, t, t2, after, p, coalescable)
    PROVE  Leads(e2, t)
<1>1. Holds(e2, t2) /\ t2.future = << >> /\ Remembers(t.past, t.present, coalescable, t2.past)
  BY DEF EditMade
<1>2. Remembers(t.past, t.present, TRUE, t2.past)
  BY <1>1 DEF Remembers
<1> QED
  BY <1>1, <1>2 DEF Leads, HistoryStep

\* So it is with the cursor put elsewhere in the new text.
LEMMA AtLeads ==
    ASSUME NEW e2, NEW t, NEW t2, NEW after, NEW p, NEW coalescable, EditMade(e2, t, t2, after, p, coalescable),
           NEW q, InLines(splitLines(after), q)
    PROVE  Leads(At(e2, q), t)
<1>1. /\ Holds(e2, t2) /\ t2.future = << >> /\ Remembers(t.past, t.present, coalescable, t2.past)
      /\ t2.present = after /\ e2.hasSel = FALSE
  BY DEF EditMade
<1>2. Remembers(t.past, t.present, TRUE, t2.past)
  BY <1>1 DEF Remembers
<1>3. InLines(e2.lines, q)
  BY <1>1 DEF Holds
<1>4. Holds(At(e2, q), t2)
  BY <1>1, <1>3, AtHolds
<1> QED
  BY <1>1, <1>2, <1>4 DEF Leads, HistoryStep

\* So is the replacement of any range.
LEMMA AnywhereLeads ==
    ASSUME NEW e, NEW t, Holds(e, t), NEW a \in Int \X Int, NEW b \in Int \X Int,
           NEW text \in Text, NEW coalescable \in BOOLEAN, NEW soon
    PROVE  Leads(Replaced(e, a, b, text, coalescable, soon), t)
<1>1. PICK t2, after, p : EditMade(Replaced(e, a, b, text, coalescable, soon), t, t2, after, p, coalescable)
  BY ReplacedAnywhere
<1> QED
  BY <1>1, EditLeads

\* An edit between two places of the text, and the three parts they cut it into.
LEMMA EditKnown ==
    ASSUME NEW e, NEW t, Holds(e, t), NEW a, NEW b, InLines(e.lines, a), InLines(e.lines, b), Precedes(a, b),
           NEW text \in Text, NEW coalescable \in BOOLEAN, NEW soon
    PROVE  \E u, m, w \in Text : \E t2 :
             /\ IsPart(t.present, a, b, u, m, w)
             /\ EditMade(Replaced(e, a, b, text, coalescable, soon), t, t2,
                         (u \o text) \o w, PosAfter(u \o text), coalescable)
<1>1. e.lines = splitLines(t.present) /\ t.present \in Text
  BY DEF Holds, Histories
<1>2. PICK u \in Text, m \in Text, w \in Text : IsPart(t.present, a, b, u, m, w)
  <2> DEFINE T == t.present
  <2>1. T \in Text /\ InLines(splitLines(T), a) /\ InLines(splitLines(T), b)
    BY <1>1
  <2> HIDE DEF T
  <2>2. \E u, m, w \in Text : IsPart(T, a, b, u, m, w)
    BY <2>1, RangeCuts
  <2> QED
    BY <2>2 DEF T
<1>3. t.present = (u \o m) \o w /\ a = PosAfter(u) /\ b = PosAfter(u \o m)
  BY <1>2 DEF IsPart
<1>4. PICK t2 : EditMade(Replaced(e, PosAfter(u), PosAfter(u \o m), text, coalescable, soon), t, t2,
                         (u \o text) \o w, PosAfter(u \o text), coalescable)
  BY <1>3, ReplacedPart
<1>5. EditMade(Replaced(e, a, b, text, coalescable, soon), t, t2, (u \o text) \o w, PosAfter(u \o text), coalescable)
  BY <1>3, <1>4
<1> QED
  BY <1>2, <1>5

\* Everything before a place on its line is a place.
LEMMA EarlierOnLine ==
    ASSUME NEW ls \in Docs, NEW l, NEW k, InLines(ls, <<l, k>>), NEW j \in Nat, j <= k
    PROVE  InLines(ls, <<l, j>>)
<1>1. l \in Nat /\ l \in DOMAIN ls /\ k \in 0..Len(ls[l]) /\ Len(ls[l]) \in Nat
  BY DocFacts DEF InLines
<1>2. j \in 0..Len(ls[l])
  BY <1>1
<1> QED
  BY <1>1, <1>2 DEF InLines

\* Every line has its columns.
LEMMA OnLine ==
    ASSUME NEW ls \in Docs, NEW l \in 1..Len(ls), NEW k \in 0..Len(ls[l])
    PROVE  InLines(ls, <<l, k>>)
<1>1. l \in Nat /\ k \in Nat /\ l \in DOMAIN ls
  BY DocFacts
<1> QED
  BY <1>1 DEF InLines

\* The first place is in every text.
LEMMA FirstPlace ==
    ASSUME NEW ls \in Docs
    PROVE  InLines(ls, <<1, 0>>)
<1>1. 1 \in 1..Len(ls) /\ Len(ls[1]) \in Nat
  BY DocFacts
<1>2. 0 \in 0..Len(ls[1])
  BY <1>1
<1> QED
  BY <1>1, <1>2, OnLine

\* Where a text without a newline ends.
LEMMA EndOfLine ==
    ASSUME NEW p \in Nat \X Nat, NEW x \in Text, NewlineFree(x)
    PROVE  EndOf(p, x) = <<p[1], p[2] + Len(x)>>
<1>1. splitLines(x) = <<x>>
  BY LineIsOne
<1>2. Len(<<x>>) = 1
  OBVIOUS
<1> QED
  BY <1>1, <1>2 DEF EndOf

\* Where a text of two lines ends.
LEMMA EndOfTwo ==
    ASSUME NEW p \in Nat \X Nat, NEW x \in Text, NEW y \in Text, NewlineFree(x), NewlineFree(y)
    PROVE  EndOf(p, (x \o <<Newline>>) \o y) = <<p[1] + 1, Len(y)>>
<1> DEFINE v == x \o <<Newline>>
           C == splitLines(v \o y)
<1>1. splitLines(x) = <<x>> /\ splitLines(y) = <<y>>
  BY LineIsOne
<1>2. v = Append(x, Newline) /\ v \in Text /\ Newline \in Byte
  <2>1. Newline \in Byte /\ <<Newline>> \in Text
    BY NewlineText
  <2>2. v \in Text
    BY <2>1, ConcatText
  <2>3. x \o <<Newline>> = Append(x, Newline)
    BY <2>1, AppendIsConcat DEF Text
  <2> QED
    BY <2>1, <2>2, <2>3
<1>3. Len(splitLines(v)) = 2 /\ splitLines(v)[2] = << >>
  <2>1. splitLines(v) = Extended(<<x>>, Newline)
    BY <1>1, <1>2, SplitAppend
  <2>2. Extended(<<x>>, Newline) = Append(<<x>>, << >>)
    BY DEF Extended
  <2>3. <<x>> \in Seq(Text) /\ << >> \in Text /\ Len(<<x>>) = 1
    BY NewlineText
  <2>4. Len(Append(<<x>>, << >>)) = 1 + 1 /\ Append(<<x>>, << >>)[1 + 1] = << >>
    BY <2>3, AppendFacts
  <2> QED
    BY <2>1, <2>2, <2>4
<1>4. Glued(splitLines(v), splitLines(y), C)
  BY <1>2, SplitGlues
<1>5. Len(<<y>>) = 1 /\ <<y>>[1] = y
  OBVIOUS
<1>6. Len(C) = 2 + 1 - 1 /\ C[2] = << >> \o y
  BY <1>1, <1>3, <1>4, <1>5 DEF Glued
<1>7. << >> \o y = y
  BY TextPair
<1>8. EndOf(p, v \o y) = IF Len(C) = 1 THEN <<p[1], p[2] + Len(v \o y)>> ELSE <<p[1] + Len(C) - 1, Len(C[Len(C)])>>
  BY DEF EndOf
<1>9. p[1] + 2 - 1 = p[1] + 1 /\ Len(C) = 2
  BY <1>6
<1> HIDE DEF C
<1> QED
  BY <1>6, <1>7, <1>8, <1>9 DEF v

\* A place inside what was put in: the cursor of a pair, or of a moved line.
LEMMA InsideInserted ==
    ASSUME NEW u \in Text, NEW x \in Text, NEW y \in Text, NEW w \in Text, NewlineFree(x)
    PROVE  InLines(splitLines((u \o (x \o y)) \o w), <<PosAfter(u)[1], PosAfter(u)[2] + Len(x)>>)
<1>1. u \o x \in Text /\ y \o w \in Text /\ x \o y \in Text
  BY ConcatText
<1>2. (u \o (x \o y)) \o w = (u \o x) \o (y \o w)
  <2>1. u \o (x \o y) = (u \o x) \o y
    BY TextAssoc
  <2>2. ((u \o x) \o y) \o w = (u \o x) \o (y \o w)
    <3> DEFINE v == u \o x
    <3>1. v \in Text
      BY <1>1
    <3> HIDE DEF v
    <3>2. (v \o y) \o w = v \o (y \o w)
      BY <3>1, TextAssoc
    <3> QED
      BY <3>2 DEF v
  <2> QED
    BY <2>1, <2>2
<1>3. PosAfter(u \o x) = <<PosAfter(u)[1], PosAfter(u)[2] + Len(x)>>
  <2>1. EndOf(PosAfter(u), x) = PosAfter(u \o x)
    BY EndIsPos
  <2>2. PosAfter(u) \in Nat \X Nat
    BY PosIsPair
  <2> QED
    BY <2>1, <2>2, EndOfLine
<1>4. InLines(splitLines((u \o x) \o (y \o w)), PosAfter(u \o x))
  BY <1>1, Cut DEF CutAt
<1> QED
  BY <1>2, <1>3, <1>4
-----------------------------------------------------------------------------
(* Pairs and whole lines                                                    *)

\* What a place in lines is.
LEMMA PlaceFacts ==
    ASSUME NEW ls \in Docs, NEW p, InLines(ls, p)
    PROVE  /\ p \in Nat \X Nat /\ p = <<p[1], p[2]>> /\ p[1] \in Nat /\ p[2] \in Nat
           /\ Len(ls) \in Nat /\ p[1] \in 1..Len(ls) /\ ls[p[1]] \in Text
           /\ Len(ls[p[1]]) \in Nat /\ p[2] \in 0..Len(ls[p[1]])
BY DocFacts DEF InLines

\* What is known of the lines of an editor.
LEMMA EditorLines ==
    ASSUME NEW e, NEW t, Holds(e, t)
    PROVE  /\ e.lines \in Docs /\ e.lines = splitLines(t.present) /\ t.present \in Text
           /\ Len(e.lines) \in Nat /\ Len(e.lines) >= 1
           /\ \A l \in 1..Len(e.lines) : /\ e.lines[l] \in Text /\ Len(e.lines[l]) \in Nat
                                         /\ NewlineFree(e.lines[l])
           /\ InLines(e.lines, e.cursor) /\ InLines(e.lines, e.selAnchor)
<1>1. e.lines \in Docs /\ e.lines = splitLines(t.present) /\ t.present \in Text
      /\ InLines(e.lines, e.cursor) /\ InLines(e.lines, e.selAnchor)
  BY DEF Holds, EditorStates, Histories
<1>2. \A l \in 1..Len(e.lines) : NewlineFree(e.lines[l])
  BY <1>1, LinesNewlineFree
<1> QED
  BY <1>1, <1>2, DocFacts

\* An empty range is in order.
LEMMA SamePlace ==
    ASSUME NEW p \in Nat \X Nat
    PROVE  Precedes(p, p)
BY DEF Precedes

\* An opening bracket or a quote brings its partner, and the cursor is between them (insertText).
LEMMA PairLeads ==
    ASSUME NEW e, NEW t, Holds(e, t), NEW c \in Byte, NEW d \in Byte, c # Newline, NEW soon
    PROVE  Leads(At(Replaced(e, e.cursor, e.cursor, <<c, d>>, FALSE, soon), <<e.cursor[1], e.cursor[2] + 1>>), t)
<1> DEFINE p == e.cursor
           x == <<c>>
           y == <<d>>
<1>1. e.lines \in Docs /\ InLines(e.lines, p)
  BY EditorLines
<1>2. p \in Nat \X Nat /\ Precedes(p, p)
  BY <1>1, PlaceFacts, SamePlace
<1>3. x \in Text /\ y \in Text /\ <<c, d>> \in Text /\ x \o y = <<c, d>> /\ Len(x) = 1 /\ NewlineFree(x)
  <2>1. x \in Text /\ y \in Text /\ <<c, d>> \in Text
    BY DEF Text
  <2>4. Len(x) = 1 /\ x[1] = c
    OBVIOUS
  <2>2. x \o y = <<c, d>> /\ Len(x) = 1 /\ x[1] = c
    <3> DEFINE f == <<c, d>>
    <3>1. Len(y) = 1 /\ y[1] = d /\ Len(f) = 2 /\ f[1] = c /\ f[2] = d
      OBVIOUS
    <3>2. x \in Seq(Byte) /\ y \in Seq(Byte) /\ f \in Seq(Byte)
      BY <2>1 DEF Text
    <3> HIDE DEF x, y, f
    <3>3. Len(f) = Len(x) + Len(y)
      BY <2>4, <3>1
    <3>4. (\A k \in 1..Len(x) : f[k] = x[k]) /\ \A k \in 1..Len(y) : f[Len(x) + k] = y[k]
      BY <2>4, <3>1
    <3>5. x \o y = f
      BY <3>2, <3>3, <3>4, TwoParts
    <3> QED
      BY <2>4, <3>5 DEF f
  <2>3. NewlineFree(x)
    <3> HIDE DEF x
    <3> QED
      BY <2>2 DEF NewlineFree
  <2> QED
    BY <2>1, <2>2, <2>3
<1> HIDE DEF p, x, y
<1>4. PICK u \in Text, m \in Text, w \in Text : \E t2 :
             /\ IsPart(t.present, p, p, u, m, w)
             /\ EditMade(Replaced(e, p, p, <<c, d>>, FALSE, soon), t, t2,
                         (u \o <<c, d>>) \o w, PosAfter(u \o <<c, d>>), FALSE)
  BY <1>1, <1>2, <1>3, EditKnown
<1>5. PICK t2 : EditMade(Replaced(e, p, p, <<c, d>>, FALSE, soon), t, t2,
                         (u \o <<c, d>>) \o w, PosAfter(u \o <<c, d>>), FALSE)
  BY <1>4
<1>6. p = PosAfter(u)
  BY <1>4 DEF IsPart
<1>7. InLines(splitLines((u \o <<c, d>>) \o w), <<p[1], p[2] + 1>>)
  BY <1>3, <1>6, InsideInserted
<1>8. Leads(At(Replaced(e, p, p, <<c, d>>, FALSE, soon), <<p[1], p[2] + 1>>), t)
  BY <1>5, <1>7, AtLeads
<1> QED
  BY <1>8 DEF p

\* A line is duplicated, the cursor in the same column of the copy (duplicateCurrentLine).
LEMMA DuplicateLeads ==
    ASSUME NEW e, NEW t, Holds(e, t)
    PROVE  LET line == e.cursor[1]
               end == <<line, Len(e.lines[line])>>
           IN  Leads(At(Replaced(e, end, end, <<Newline>> \o e.lines[line], FALSE, FALSE),
                        <<line + 1, e.cursor[2]>>), t)
<1> DEFINE l == e.cursor[1]
           k == e.cursor[2]
           line == e.lines[l]
           end == <<l, Len(line)>>
           text == <<Newline>> \o line
<1>1. e.lines \in Docs /\ InLines(e.lines, e.cursor) /\ Len(e.lines) \in Nat
      /\ \A i \in 1..Len(e.lines) : NewlineFree(e.lines[i])
  BY EditorLines
<1>2. l \in Nat /\ k \in Nat /\ l \in 1..Len(e.lines) /\ line \in Text /\ Len(line) \in Nat /\ k \in 0..Len(line)
      /\ NewlineFree(line)
  BY <1>1, PlaceFacts
<1> HIDE DEF l, k, line
<1>3. InLines(e.lines, end)
  <2>1. Len(line) \in 0..Len(line)
    BY <1>2
  <2> QED
    BY <1>1, <1>2, <2>1, OnLine DEF line
<1>4. end \in Nat \X Nat /\ Precedes(end, end)
  BY <1>2, SamePlace
<1>5. text \in Text /\ << >> \in Text /\ NewlineFree(<< >>) /\ (<< >> \o <<Newline>>) \o line = text
  <2>1. << >> \in Text /\ <<Newline>> \in Text
    BY NewlineText
  <2>2. << >> \o <<Newline>> = <<Newline>> /\ <<Newline>> \o line \in Text
    BY <1>2, <2>1, TextPair
  <2> QED
    BY <2>1, <2>2 DEF NewlineFree
<1> HIDE DEF end, text
<1>6. PICK u \in Text, m \in Text, w \in Text : \E t2 :
             /\ IsPart(t.present, end, end, u, m, w)
             /\ EditMade(Replaced(e, end, end, text, FALSE, FALSE), t, t2,
                         (u \o text) \o w, PosAfter(u \o text), FALSE)
  BY <1>3, <1>4, <1>5, EditKnown
<1>7. PICK t2 : EditMade(Replaced(e, end, end, text, FALSE, FALSE), t, t2,
                         (u \o text) \o w, PosAfter(u \o text), FALSE)
  BY <1>6
<1>8. end = PosAfter(u)
  BY <1>6 DEF IsPart
<1>9. PosAfter(u \o text) = <<l + 1, Len(line)>>
  <2>1. EndOf(end, text) = PosAfter(u \o text)
    BY <1>5, <1>8, EndIsPos
  <2>2. EndOf(end, text) = <<end[1] + 1, Len(line)>>
    BY <1>2, <1>4, <1>5, EndOfTwo
  <2> QED
    BY <2>1, <2>2 DEF end
<1>10. InLines(splitLines((u \o text) \o w), <<l + 1, Len(line)>>) /\ splitLines((u \o text) \o w) \in Docs
  <2>1. u \o text \in Text
    BY <1>5, ConcatText
  <2>2. (u \o text) \o w \in Text
    BY <2>1, ConcatText
  <2>3. InLines(splitLines((u \o text) \o w), PosAfter(u \o text))
    BY <2>1, Cut DEF CutAt
  <2> QED
    BY <1>9, <2>2, <2>3, SplitDoc
<1>11. InLines(splitLines((u \o text) \o w), <<l + 1, k>>)
  <2>1. k <= Len(line)
    BY <1>2
  <2> QED
    BY <1>2, <1>10, <2>1, EarlierOnLine
<1>12. Leads(At(Replaced(e, end, end, text, FALSE, FALSE), <<l + 1, k>>), t)
  BY <1>7, <1>11, AtLeads
<1> QED
  BY <1>12 DEF l, k, line, end, text

\* What an edit with nothing in the place of the range leaves where the range began
DeletedTo(e, t, t2, after, a, b) ==
    /\ EditMade(Replaced(e, a, b, << >>, FALSE, FALSE), t, t2, after, a, FALSE)
    /\ after \in Text
    /\ InLines(splitLines(after), a)
    /\ splitLines(after)[a[1]] = Before(e.lines[a[1]], a[2]) \o After(e.lines[b[1]], b[2])

\* To delete a range joins what is before it and what is after it on one line.
LEMMA DeletedPart ==
    ASSUME NEW e, NEW t, Holds(e, t), NEW a, NEW b, InLines(e.lines, a), InLines(e.lines, b), Precedes(a, b)
    PROVE  \E t2, after : DeletedTo(e, t, t2, after, a, b)
<1>1. e.lines = splitLines(t.present) /\ t.present \in Text
  BY EditorLines
<1>2. PICK u \in Text, m \in Text, w \in Text : \E t2 :
             /\ IsPart(t.present, a, b, u, m, w)
             /\ EditMade(Replaced(e, a, b, << >>, FALSE, FALSE), t, t2,
                         (u \o << >>) \o w, PosAfter(u \o << >>), FALSE)
  BY NewlineText, EditKnown
<1>3. PICK t2 : EditMade(Replaced(e, a, b, << >>, FALSE, FALSE), t, t2,
                         (u \o << >>) \o w, PosAfter(u \o << >>), FALSE)
  BY <1>2
<1>4. t.present = u \o (m \o w) /\ t.present = (u \o m) \o w /\ a = PosAfter(u) /\ b = PosAfter(u \o m)
  BY <1>2 DEF IsPart
<1>5. u \o << >> = u
  BY TextPair
<1>6. u \o m \in Text /\ m \o w \in Text /\ u \o w \in Text
  BY ConcatText
<1> DEFINE x == splitLines(u)[Len(splitLines(u))]
           y == splitLines(w)[1]
<1>7. InLines(splitLines(u \o w), a) /\ splitLines(u \o w)[a[1]] = x \o y
  BY <1>4, Cut DEF CutAt
<1>8. Before(e.lines[a[1]], a[2]) = x
  <2>1. CutAt(splitLines(u \o (m \o w)), PosAfter(u), x, splitLines(m \o w)[1])
    BY <1>6, Cut
  <2> QED
    BY <1>1, <1>4, <2>1 DEF CutAt
<1>9. After(e.lines[b[1]], b[2]) = y
  <2>1. CutAt(splitLines((u \o m) \o w), PosAfter(u \o m), splitLines(u \o m)[Len(splitLines(u \o m))], y)
    BY <1>6, Cut
  <2> QED
    BY <1>1, <1>4, <2>1 DEF CutAt
<1> HIDE DEF x, y
<1>10. EditMade(Replaced(e, a, b, << >>, FALSE, FALSE), t, t2, u \o w, a, FALSE)
  BY <1>3, <1>4, <1>5
<1> QED
  BY <1>6, <1>7, <1>8, <1>9, <1>10 DEF DeletedTo

\* The only line is emptied (deleteCurrentLine).
LEMMA OnlyLineLeads ==
    ASSUME NEW e, NEW t, Holds(e, t), NEW b \in Nat \X Nat
    PROVE  Leads(At(Replaced(e, <<1, 0>>, b, << >>, FALSE, FALSE), <<1, 0>>), t)
<1>1. <<1, 0>> \in Int \X Int /\ b \in Int \X Int /\ << >> \in Text
  BY NewlineText
<1>2. PICK t2, after, p : EditMade(Replaced(e, <<1, 0>>, b, << >>, FALSE, FALSE), t, t2, after, p, FALSE)
  BY <1>1, ReplacedAnywhere
<1>3. splitLines(after) \in Docs
  BY <1>2, EditorLines DEF EditMade
<1>4. InLines(splitLines(after), <<1, 0>>)
  BY <1>3, FirstPlace
<1> QED
  BY <1>2, <1>4, AtLeads

\* A line goes with its newline, and the column is within the one that takes its place: the case that
\* needs the cursor clamped (deleteCurrentLine).
LEMMA LineGoneLeads ==
    ASSUME NEW e, NEW t, Holds(e, t), NEW l \in 1..Len(e.lines), l < Len(e.lines), NEW k \in Nat
    PROVE  Leads(At(Replaced(e, <<l, 0>>, <<l + 1, 0>>, << >>, FALSE, FALSE),
                    <<l, Least(k, Len(e.lines[l + 1]))>>), t)
<1> DEFINE n == Len(e.lines)
           next == e.lines[l + 1]
           j == Least(k, Len(next))
           a == <<l, 0>>
           b == <<l + 1, 0>>
<1>1. e.lines \in Docs /\ n \in Nat /\ \A i \in 1..n : e.lines[i] \in Text /\ Len(e.lines[i]) \in Nat
  BY EditorLines
<1>2. l \in 1..n /\ l < n
  OBVIOUS
<1>3. l \in Nat /\ l + 1 \in 1..n
  <2> HIDE DEF n
  <2> QED
    BY <1>1, <1>2
<1>4. next \in Text /\ Len(next) \in Nat /\ Len(e.lines[l]) \in Nat
  BY <1>1, <1>3
<1>5. InLines(e.lines, a) /\ InLines(e.lines, b)
  <2>1. 0 \in 0..Len(e.lines[l]) /\ 0 \in 0..Len(next)
    BY <1>4
  <2> QED
    BY <1>1, <1>3, <2>1, OnLine
<1>6. Precedes(a, b)
  BY <1>3 DEF Precedes
<1>7. a[1] = l /\ a[2] = 0 /\ b[1] = l + 1 /\ b[2] = 0
  OBVIOUS
<1>8. Before(e.lines[l], 0) = << >> /\ After(next, 0) = next
  <2>1. SubSeq(e.lines[l], 1, 0) = << >>
    BY SubSeqEmpty
  <2>2. SubSeq(next, 0 + 1, Len(next)) = next
    BY <1>4, SubSeqFull DEF Text
  <2> QED
    BY <2>1, <2>2 DEF Before, After
<1> HIDE DEF a, b, next
<1>9. PICK t2, after : DeletedTo(e, t, t2, after, a, b)
  BY <1>5, <1>6, DeletedPart
<1>10. splitLines(after)[l] = next
  <2>1. << >> \o next = next
    BY <1>4, TextPair
  <2> QED
    BY <1>7, <1>8, <1>9, <2>1 DEF next, DeletedTo
<1>11. InLines(splitLines(after), <<l, j>>)
  <2>1. j \in 0..Len(next)
    BY <1>4 DEF Least
  <2>2. splitLines(after) \in Docs
    BY <1>9, SplitDoc DEF DeletedTo
  <2>3. l \in 1..Len(splitLines(after))
    BY <1>7, <1>9, <2>2, PlaceFacts DEF DeletedTo
  <2> HIDE DEF j
  <2> QED
    BY <1>10, <2>1, <2>2, <2>3, OnLine
<1> HIDE DEF j
<1>12. Leads(At(Replaced(e, a, b, << >>, FALSE, FALSE), <<l, j>>), t)
  BY <1>9, <1>11, AtLeads DEF DeletedTo
<1> QED
  BY <1>12 DEF a, b, j, next

\* The last line goes with the newline before it (deleteCurrentLine).
LEMMA LastLineLeads ==
    ASSUME NEW e, NEW t, Holds(e, t), NEW a, NEW b, InLines(e.lines, a), InLines(e.lines, b), Precedes(a, b)
    PROVE  Leads(At(Replaced(e, a, b, << >>, FALSE, FALSE), a), t)
<1>1. PICK t2, after : DeletedTo(e, t, t2, after, a, b)
  BY DeletedPart
<1> QED
  BY <1>1, AtLeads DEF DeletedTo

\* Two lines are exchanged, and the column fits the line that moved (moveLineUp, moveLineDown).
LEMMA ExchangeLeads ==
    ASSUME NEW e, NEW t, Holds(e, t), NEW upper \in 1..Len(e.lines), upper < Len(e.lines), NEW to, NEW k \in Nat,
           \/ to = upper /\ k <= Len(e.lines[upper + 1])
           \/ to = upper + 1 /\ k <= Len(e.lines[upper])
    PROVE  Leads(At(Replaced(e, <<upper, 0>>, <<upper + 1, Len(e.lines[upper + 1])>>,
                             e.lines[upper + 1] \o <<Newline>> \o e.lines[upper], FALSE, FALSE),
                    <<to, k>>), t)
<1> DEFINE n == Len(e.lines)
           x == e.lines[upper + 1]
           y == e.lines[upper]
           a == <<upper, 0>>
           b == <<upper + 1, Len(x)>>
           rest == <<Newline>> \o y
           text == x \o <<Newline>> \o y
<1>1. e.lines \in Docs /\ n \in Nat /\ \A i \in 1..n : /\ e.lines[i] \in Text /\ Len(e.lines[i]) \in Nat
                                                       /\ NewlineFree(e.lines[i])
  BY EditorLines
<1>2. upper \in 1..n /\ upper < n
  OBVIOUS
<1>3. upper \in Nat /\ upper + 1 \in 1..n
  <2> HIDE DEF n
  <2> QED
    BY <1>1, <1>2
<1>4. x \in Text /\ y \in Text /\ Len(x) \in Nat /\ Len(y) \in Nat /\ NewlineFree(x) /\ NewlineFree(y)
  BY <1>1, <1>2, <1>3
<1>5. InLines(e.lines, a) /\ InLines(e.lines, b)
  <2>1. 0 \in 0..Len(y) /\ Len(x) \in 0..Len(x)
    BY <1>4
  <2> QED
    BY <1>1, <1>3, <2>1, OnLine
<1>6. Precedes(a, b) /\ a \in Nat \X Nat
  BY <1>3 DEF Precedes
<1>7. (to = upper /\ k <= Len(x)) \/ (to = upper + 1 /\ k <= Len(y))
  OBVIOUS
<1>8. a[1] = upper /\ a[2] = 0
  OBVIOUS
<1> HIDE DEF n, x, y, a, b
<1>9. rest \in Text /\ text = x \o rest /\ text \in Text
  <2>1. <<Newline>> \in Text
    BY NewlineText
  <2>2. (x \o <<Newline>>) \o y = x \o (<<Newline>> \o y)
    BY <1>4, <2>1, TextAssoc
  <2>3. rest \in Text
    BY <1>4, <2>1, ConcatText
  <2>4. x \o rest \in Text
    <3> HIDE DEF rest
    <3> QED
      BY <1>4, <2>3, ConcatText
  <2> QED
    BY <2>2, <2>3, <2>4
<1>10. EndOf(a, text) = <<upper + 1, Len(y)>>
  BY <1>4, <1>6, <1>8, EndOfTwo
<1> HIDE DEF rest, text
<1>11. PICK u \in Text, m \in Text, w \in Text : \E t2 :
             /\ IsPart(t.present, a, b, u, m, w)
             /\ EditMade(Replaced(e, a, b, text, FALSE, FALSE), t, t2,
                         (u \o text) \o w, PosAfter(u \o text), FALSE)
  BY <1>5, <1>6, <1>9, EditKnown
<1>12. PICK t2 : EditMade(Replaced(e, a, b, text, FALSE, FALSE), t, t2,
                         (u \o text) \o w, PosAfter(u \o text), FALSE)
  BY <1>11
<1>13. a = PosAfter(u)
  BY <1>11 DEF IsPart
<1> DEFINE ls == splitLines((u \o text) \o w)
<1>14. u \o text \in Text /\ ls \in Docs
  <2>1. u \o text \in Text
    BY <1>9, ConcatText
  <2>2. (u \o text) \o w \in Text
    BY <2>1, ConcatText
  <2> QED
    BY <2>1, <2>2, SplitDoc
<1>15. InLines(ls, <<upper, Len(x)>>)
  <2>1. InLines(splitLines((u \o (x \o rest)) \o w), <<PosAfter(u)[1], PosAfter(u)[2] + Len(x)>>)
    BY <1>4, <1>9, InsideInserted
  <2>2. PosAfter(u)[1] = upper /\ PosAfter(u)[2] + Len(x) = Len(x)
    <3>1. 0 + Len(x) = Len(x)
      BY <1>4
    <3> QED
      BY <1>8, <1>13, <3>1
  <2> QED
    BY <1>9, <2>1, <2>2
<1>16. InLines(ls, <<upper + 1, Len(y)>>)
  <2>1. PosAfter(u \o text) = <<upper + 1, Len(y)>>
    BY <1>9, <1>10, <1>13, EndIsPos
  <2>2. InLines(splitLines((u \o text) \o w), PosAfter(u \o text))
    BY <1>14, Cut DEF CutAt
  <2> QED
    BY <2>1, <2>2
<1> HIDE DEF ls
<1>17. InLines(ls, <<to, k>>)
  BY <1>7, <1>14, <1>15, <1>16, EarlierOnLine
<1>18. Leads(At(Replaced(e, a, b, text, FALSE, FALSE), <<to, k>>), t)
  BY <1>12, <1>17, AtLeads DEF ls
<1> QED
  BY <1>18 DEF x, y, a, b, text

\* A text is its first part and the rest.
LEMMA TwoHalves ==
    ASSUME NEW x \in Text, NEW n \in 0..Len(x)
    PROVE  /\ SubSeq(x, 1, n) \in Text /\ SubSeq(x, n + 1, Len(x)) \in Text
           /\ x = SubSeq(x, 1, n) \o SubSeq(x, n + 1, Len(x))
<1> DEFINE size == Len(x)
           a == SubSeq(x, 1, n)
           b == SubSeq(x, n + 1, size)
<1>1. size \in Nat /\ x \in Seq(Byte) /\ n \in 0..size
  BY LenProperties DEF Text
<1>2. a \in Text /\ Len(a) = n /\ \A i \in 1..n : a[i] = x[i]
  <2>1. a \in Text /\ Len(a) = n
    BY BeforeText DEF Before
  <2>2. n \in Nat /\ n <= size /\ 1 <= n + 1 /\ n - 1 + 1 = n /\ \A i \in 1..n : 1 + i - 1 = i
    <3> HIDE DEF size
    <3> QED
      BY <1>1
  <2>3. \A i \in 1..(n - 1 + 1) : a[i] = x[1 + i - 1]
    BY <1>1, <2>2, PartFacts
  <2> HIDE DEF a
  <2> QED
    BY <2>1, <2>2, <2>3
<1>3. b \in Text /\ Len(b) = size - n /\ \A i \in 1..(size - n) : b[i] = x[n + i]
  <2>1. n + 1 \in Nat /\ n + 1 >= 1 /\ n + 1 <= size + 1 /\ size <= size /\ size - (n + 1) + 1 = size - n
        /\ \A i \in 1..(size - n) : (n + 1) + i - 1 = n + i
    <3> HIDE DEF size
    <3> QED
      BY <1>1
  <2>2. b \in Seq(Byte) /\ Len(b) = size - (n + 1) + 1 /\ \A i \in 1..(size - (n + 1) + 1) : b[i] = x[(n + 1) + i - 1]
    <3> DEFINE from == n + 1
    <3>1. x \in Seq(Byte) /\ from \in Nat /\ size \in Nat /\ from >= 1 /\ size <= Len(x) /\ from <= size + 1
      BY <1>1, <2>1
    <3> HIDE DEF from, size
    <3>2. /\ SubSeq(x, from, size) \in Seq(Byte) /\ Len(SubSeq(x, from, size)) = size - from + 1
          /\ \A i \in 1..(size - from + 1) : SubSeq(x, from, size)[i] = x[from + i - 1]
      BY <3>1, PartFacts
    <3> QED
      BY <3>2 DEF from
  <2> HIDE DEF b
  <2> QED
    BY <2>1, <2>2 DEF Text
<1> HIDE DEF a, b, size
<1>4. Len(x) = Len(a) + Len(b)
  BY <1>1, <1>2, <1>3 DEF size
<1>5. (\A k \in 1..Len(a) : x[k] = a[k]) /\ \A k \in 1..Len(b) : x[Len(a) + k] = b[k]
  BY <1>2, <1>3
<1>6. a \o b = x
  BY <1>1, <1>2, <1>3, <1>4, <1>5, TwoParts DEF Text
<1> QED
  BY <1>2, <1>3, <1>6 DEF a, b, size

\* The line where a brace before the cursor stands is a line of the text
LEMMA OpenLine ==
    ASSUME NEW u \in Text, NEW w \in Text, NEW i \in 0..Len(u)
    PROVE  Len(splitLines(Before(u, i))) \in DOMAIN splitLines(u \o w)
<1> DEFINE v == SubSeq(u, 1, i)
           z == SubSeq(u, i + 1, Len(u))
<1>1. v \in Text /\ z \in Text /\ u = v \o z /\ Before(u, i) = v
  BY TwoHalves DEF Before
<1> HIDE DEF v, z
<1>2. u \o w = v \o (z \o w) /\ z \o w \in Text
  <2>1. (v \o z) \o w = v \o (z \o w)
    BY SMTT(30), <1>1, TextAssoc
  <2>2. z \o w \in Text
    BY <1>1, ConcatText
  <2> QED
    BY <1>1, <2>1, <2>2
<1>3. InLines(splitLines(v \o (z \o w)), PosAfter(v))
  BY <1>1, <1>2, Cut DEF CutAt
<1>4. PosAfter(v)[1] = Len(splitLines(v))
  BY <1>1, PosIsPair
<1> QED
  BY <1>1, <1>2, <1>3, <1>4 DEF InLines
-----------------------------------------------------------------------------
(* A brace that is re-indented                                              *)

\* Corrected, of EditHistory.
Braces == {"}"}

\* Dedented, of the brace after closeCol on a line, with "text" before it
DedentedAt(e, soon, line, closeCol, text) ==
    LET indent == Before(e.lines[line], closeCol)
        opens == {i \in DOMAIN text : text[i] = "{" /\ Balance(After(text, i - 1)) = 1}
        openLine == Len(splitLines(Before(text, CHOOSE i \in opens : \A j \in opens : j <= i)))
    IN  IF OnlyBlank(indent) /\ opens # {} /\ leadingWhitespace(e.lines[openLine]) # indent
        THEN Replaced(e, <<line, 0>>, <<line, closeCol>>, leadingWhitespace(e.lines[openLine]), FALSE, soon)
        ELSE e

\* The end of nothing is the first place.
LEMMA StartOfText == PosAfter(<< >>) = <<1, 0>>
<1>1. splitLines(<< >>) = << << >> >>
  BY SplitEmpty
<1>2. Len(<< << >> >>) = 1 /\ << << >> >>[1] = << >> /\ Len(<< >>) = 0
  OBVIOUS
<1> QED
  BY <1>1, <1>2 DEF PosAfter

\* The whitespace that a closing brace is given is a text
LEMMA DedentText ==
    ASSUME NEW u \in Text, NEW w \in Text, NEW opens, opens \subseteq DOMAIN u, opens # {}
    PROVE  LET openLine == Len(splitLines(Before(u, CHOOSE i \in opens : \A j \in opens : j <= i)))
           IN  leadingWhitespace(splitLines(u \o w)[openLine]) \in Text
<1> DEFINE n == Len(u)
           c == CHOOSE i \in opens : \A j \in opens : j <= i
           ls == splitLines(u \o w)
           openLine == Len(splitLines(Before(u, c)))
<1>1. n \in Nat /\ DOMAIN u = 1..n
  BY LenProperties DEF Text
<1>2. \E i \in opens : \A j \in opens : j <= i
  <2> HIDE DEF n
  <2>1. opens \subseteq Nat /\ \A j \in opens : j <= n
    BY <1>1
  <2> QED
    BY <1>1, <2>1, GreatestNatural
<1>3. c \in opens
  BY <1>2
<1> HIDE DEF c
<1>4. c \in 0..n
  BY <1>1, <1>3
<1>5. openLine \in DOMAIN ls
  BY <1>4, OpenLine
<1>6. ls \in Docs
  BY ConcatText, SplitDoc
<1> HIDE DEF ls, openLine
<1>7. ls[openLine] \in Text
  BY <1>5, <1>6, DocFacts
<1>8. leadingWhitespace(ls[openLine]) \in Text
  BY <1>7, LeadingText
<1> QED
  BY <1>8 DEF ls, openLine, c

\* An edit that types a brace, and another one right after it, are TypeAndCorrect.
LEMMA CorrectsTyped ==
    ASSUME NEW t \in Histories, NEW t2 \in Histories, NEW t3, NEW u \in Text, NEW w \in Text, NEW c \in Braces,
           t.present = u \o w, t2.present = (u \o <<c>>) \o w,
           Remembers(t.past, t.present, TRUE, t2.past),
           t3.future = << >>, Remembers(t2.past, t2.present, FALSE, t3.past)
    PROVE  Corrects(t, t3)
<1> DEFINE T == t.present
           i == Len(u)
           typed == SubSeq(T, 1, i) \o <<c>> \o SubSeq(T, i + 1, Len(T))
<1>1. i \in Nat /\ Len(w) \in Nat /\ Len(T) = i + Len(w) /\ T \in Text
  BY TextPair DEF Histories
<1>2. SubSeq(T, 1, i) = u /\ SubSeq(T, i + 1, Len(T)) = w
  <2>1. SubSeq(T, i + 1, Len(T)) = w
    <3>1. SubSeq(u \o (w \o << >>), Len(u) + 1, Len(u \o w)) = w
      BY NewlineText, MiddleOfText
    <3>2. w \o << >> = w
      BY TextPair
    <3> QED
      BY <3>1, <3>2
  <2>2. SubSeq(T, 1, i) = u
    <3>1. SubSeq(<< >> \o (u \o w), Len(<< >>) + 1, Len(<< >> \o u)) = u
      BY NewlineText, MiddleOfText
    <3>2. << >> \o (u \o w) = u \o w /\ << >> \o u = u /\ Len(<< >>) + 1 = 1
      <4>1. u \o w \in Text
        BY ConcatText
      <4> QED
        <5>1. << >> \o (u \o w) = u \o w
          BY <4>1, TextPair
        <5>2. << >> \o u = u
          BY TextPair
        <5>3. Len(<< >>) + 1 = 1
          OBVIOUS
        <5> QED
          BY <5>1, <5>2, <5>3
    <3> QED
      BY <3>1, <3>2
  <2> QED
    BY <2>1, <2>2
<1>3. typed = t2.present
  BY <1>2
<1>4. i \in 0..Len(T)
  <2> HIDE DEF i, T
  <2> QED
    BY <1>1
<1>5. t3.past = H!Newest(Append(t2.past, t2.present))
  BY DEF Remembers
<1>6. t2.past = H!Newest(Append(t.past, t.present)) \/ (t.past # << >> /\ t2.past = t.past)
  BY DEF Remembers
<1>7. \/ t3.past = H!Newest(Append(H!Newest(Append(t.past, t.present)), typed))
      \/ t.past # << >> /\ t3.past = H!Newest(Append(t.past, typed))
  BY <1>3, <1>5, <1>6
<1> QED
  BY <1>4, <1>7 DEF Corrects, Braces

\* A byte that is no newline is a text on one line.
LEMMA OneByte ==
    ASSUME NEW c \in Byte, c # Newline
    PROVE  <<c>> \in Text /\ NewlineFree(<<c>>) /\ Len(<<c>>) = 1
<1> DEFINE x == <<c>>
<1>1. x \in Text
  BY DEF Text
<1>2. Len(x) = 1 /\ x[1] = c
  OBVIOUS
<1> HIDE DEF x
<1>3. NewlineFree(x)
  BY <1>2 DEF NewlineFree
<1> QED
  BY <1>1, <1>2, <1>3 DEF x

\* A brace is typed at the cursor, and its line may be corrected: two records at once, of which the
\* first may have been merged (applySmartDedentForClosingBrace).
LEMMA BraceLeads ==
    ASSUME NEW e, NEW t, Holds(e, t), NEW soon, NEW c \in Byte, c \in Braces, c # Newline
    PROVE  Leads(Dedented(Replaced(e, e.cursor, e.cursor, <<c>>, TRUE, soon), soon), t)
<1> DEFINE p == e.cursor
           brace == <<c>>
           e2 == Replaced(e, p, p, brace, TRUE, soon)
<1>1. brace \in Text /\ NewlineFree(brace) /\ Len(brace) = 1
  BY OneByte
<1>2. e.lines \in Docs /\ InLines(e.lines, p)
  BY EditorLines
<1>3. p \in Nat \X Nat /\ Precedes(p, p)
  BY <1>2, PlaceFacts, SamePlace
<1> HIDE DEF p, brace
<1>4. PICK u \in Text, m \in Text, w \in Text : \E t2 :
             /\ IsPart(t.present, p, p, u, m, w)
             /\ EditMade(e2, t, t2, (u \o brace) \o w, PosAfter(u \o brace), TRUE)
  BY <1>1, <1>2, <1>3, EditKnown
<1>5. PICK t2 : EditMade(e2, t, t2, (u \o brace) \o w, PosAfter(u \o brace), TRUE)
  BY <1>4
<1> HIDE DEF e2
<1>6. t.present = u \o (m \o w) /\ p = PosAfter(u) /\ p = PosAfter(u \o m)
  BY <1>4 DEF IsPart
<1>7. t.present = u \o w
  <2>1. Precedes(PosAfter(u \o m), PosAfter(u))
    BY <1>3, <1>6
  <2>2. m = << >>
    BY <2>1, PosOrder
  <2>3. << >> \o w = w
    BY TextPair
  <2> QED
    BY <1>6, <2>2, <2>3
<1>8. /\ Holds(e2, t2) /\ t2.present = (u \o brace) \o w /\ e2.cursor = PosAfter(u \o brace)
      /\ Remembers(t.past, t.present, TRUE, t2.past)
  BY <1>5 DEF EditMade
<1>9. (u \o brace) \o w = u \o (brace \o w) /\ brace \o w \in Text
  <2>1. (u \o brace) \o w = u \o (brace \o w)
    BY <1>1, TextAssoc
  <2> QED
    BY <1>1, <2>1, ConcatText
<1>10. e2.lines = splitLines(u \o (brace \o w))
  BY <1>8, <1>9 DEF Holds
<1>11. p \in Nat \X Nat /\ p[1] \in Nat /\ p[2] \in Nat /\ p = <<p[1], p[2]>>
  BY <1>2, PlaceFacts
<1>12. e2.cursor[1] = p[1] /\ e2.cursor[2] - 1 = p[2]
  <2>1. PosAfter(u \o brace) = EndOf(p, brace)
    BY <1>1, <1>6, EndIsPos
  <2>2. EndOf(p, brace) = <<p[1], p[2] + 1>>
    BY <1>1, <1>11, EndOfLine
  <2> DEFINE l == p[1]
             k == p[2]
             q == e2.cursor
  <2>3. l \in Nat /\ k \in Nat /\ q = <<l, k + 1>>
    BY <1>8, <1>11, <2>1, <2>2
  <2> HIDE DEF l, k, q
  <2>4. q[1] = l /\ q[2] - 1 = k
    BY <2>3
  <2> QED
    BY <2>4 DEF l, k, q
<1>13. textOfRange(e2.lines, <<1, 0>>, p) = u
  <2> DEFINE r == brace \o w
  <2>1. r \in Text /\ << >> \in Text /\ << >> \o u = u
    BY <1>9, NewlineText, TextPair
  <2> HIDE DEF r
  <2>2. textOfRange(splitLines((<< >> \o u) \o r), PosAfter(<< >>), PosAfter(<< >> \o u)) = u
    BY <2>1, RangeIsText
  <2> QED
    BY <1>6, <1>10, <2>1, <2>2, StartOfText DEF r
<1> DEFINE opens == {i \in DOMAIN u : u[i] = "{" /\ Balance(After(u, i - 1)) = 1}
           openLine == Len(splitLines(Before(u, CHOOSE i \in opens : \A j \in opens : j <= i)))
           white == leadingWhitespace(e2.lines[openLine])
           indent == Before(e2.lines[p[1]], p[2])
           e3 == Replaced(e2, <<p[1], 0>>, <<p[1], p[2]>>, white, FALSE, soon)
<1>14. Dedented(e2, soon) = IF OnlyBlank(indent) /\ opens # {} /\ white # indent THEN e3 ELSE e2
  <2>1. <<e2.cursor[1], e2.cursor[2] - 1>> = p
    BY <1>11, <1>12
  <2>2. textOfRange(e2.lines, <<1, 0>>, <<e2.cursor[1], e2.cursor[2] - 1>>) = u
    BY <1>13, <2>1
  <2> QED
    <3>1. Dedented(e2, soon)
            = DedentedAt(e2, soon, e2.cursor[1], e2.cursor[2] - 1,
                         textOfRange(e2.lines, <<1, 0>>, <<e2.cursor[1], e2.cursor[2] - 1>>))
      BY DEF Dedented, DedentedAt
    <3>2. Dedented(e2, soon) = DedentedAt(e2, soon, p[1], p[2], u)
      <4> HIDE DEF opens, white, indent, e3
      <4> QED
        BY <1>12, <2>2, <3>1
    <3> QED
      BY <3>2 DEF DedentedAt
<1>19. opens \subseteq DOMAIN u
  OBVIOUS
<1> HIDE DEF opens
<1>15. opens # {} => white \in Text
  <2> DEFINE r == brace \o w
  <2>1. r \in Text /\ e2.lines = splitLines(u \o r) /\ opens \subseteq DOMAIN u
    BY <1>9, <1>10, <1>19
  <2> HIDE DEF r
  <2> QED
    BY <2>1, DedentText
<1> HIDE DEF white, indent
<1>16. ASSUME opens # {} PROVE Leads(e3, t)
  <2>1. white \in Text
    BY <1>15, <1>16
  <2>2. <<p[1], 0>> \in Int \X Int /\ <<p[1], p[2]>> \in Int \X Int
    BY <1>11
  <2>3. PICK t3, after, q : EditMade(e3, t2, t3, after, q, FALSE)
    BY <1>8, <2>1, <2>2, ReplacedAnywhere
  <2> HIDE DEF e3
  <2>4. Holds(e3, t3) /\ t3.future = << >> /\ Remembers(t2.past, t2.present, FALSE, t3.past)
    BY <2>3 DEF EditMade
  <2>5. t \in Histories /\ t2 \in Histories
    BY <1>8 DEF Holds
  <2>6. Corrects(t, t3)
    BY <1>7, <1>8, <2>4, <2>5, CorrectsTyped DEF brace
  <2> QED
    BY <2>4, <2>6 DEF Leads, HistoryStep
<1>17. Leads(e2, t)
  BY <1>5, EditLeads
<1> HIDE DEF e3
<1>18. Leads(Dedented(e2, soon), t)
  BY <1>14, <1>16, <1>17
<1> QED
  BY <1>18 DEF e2, p, brace
-----------------------------------------------------------------------------
(* One operation after the other                                            *)

\* The step leaves an editor that holds, a step of EditHistory on
Follows(t) == \E e2 : Becomes(e2) /\ Leads(e2, t)

\* Editor is the state of the engine.
LEMMA EditorFields ==
    /\ Editor.lines = lines /\ Editor.cursor = cursor /\ Editor.selAnchor = selAnchor /\ Editor.hasSel = hasSel
    /\ Editor.undoStack = undoStack /\ Editor.redoStack = redoStack
BY DEF Editor

\* Cursor and selection move, the texts stay (setCursor, setSelection).
LEMMA Selects ==
    ASSUME NEW e, NEW t, Holds(e, t), NEW p, NEW a, InLines(e.lines, p), InLines(e.lines, a), NEW has \in BOOLEAN,
           has <=> a # p
    PROVE  Leads([e EXCEPT !.cursor = p, !.selAnchor = a, !.hasSel = has], t)
<1> DEFINE e2 == [e EXCEPT !.cursor = p, !.selAnchor = a, !.hasSel = has]
<1>1. /\ e2 \in EditorStates /\ e2.lines = e.lines /\ e2.cursor = p /\ e2.selAnchor = a /\ e2.hasSel = has
      /\ e2.undoStack = e.undoStack /\ e2.redoStack = e.redoStack
  BY DEF Holds, EditorStates, InLines
<1> HIDE DEF e2
<1>2. Holds(e2, t)
  BY <1>1 DEF Holds
<1>3. Leads(e2, t)
  BY <1>2 DEF Leads, HistoryStep
<1> QED
  BY <1>3 DEF e2

\* A position that is asked for is a pair of numbers.
LEMMA AskedPlaces ==
    ASSUME lines \in Docs
    PROVE  Asked \subseteq Int \X Int
<1>1. Len(lines) \in Nat /\ DOMAIN lines = 1..Len(lines)
  BY DocFacts
<1>2. ASSUME NEW a \in Asked PROVE a \in Int \X Int
  <2>1. CASE a \in {<<0, 0>>, <<Len(lines) + 1, 0>>}
    BY <1>1, <2>1
  <2>2. CASE \E l \in DOMAIN lines : a \in {l} \X (0..Len(lines[l]))
    <3>1. PICK l \in DOMAIN lines : a \in {l} \X (0..Len(lines[l]))
      BY <2>2
    <3>2. l \in Int
      BY <1>1
    <3> QED
      BY <3>1, <3>2
  <2> QED
    BY <1>2, <2>1, <2>2 DEF Asked
<1> QED
  BY <1>2

\* Clamped, it is in the text.
LEMMA AskedClamped ==
    ASSUME NEW t, Holds(Editor, t), NEW a \in Asked
    PROVE  a \in Int \X Int /\ InLines(lines, clampPosition(lines, a))
<1>1. lines \in Docs
  BY EditorLines, EditorFields
<1>2. a \in Int \X Int
  BY <1>1, AskedPlaces
<1> QED
  BY <1>1, <1>2, ClampStays

\* setText.
LEMMA OpenFollows ==
    ASSUME NEW t, Holds(Editor, t), setText
    PROVE  Follows(t)
<1>1. PICK text \in Opened : Becomes(Fresh(text))
  BY DEF setText
<1>2. text \in Text
  BY EditorAssumption
<1>3. PICK t2 : Holds(Fresh(text), t2) /\ t2.past = << >> /\ t2.future = << >>
  BY <1>2, FreshHolds
<1>4. Leads(Fresh(text), t)
  BY <1>3 DEF Leads, HistoryStep
<1> QED
  BY <1>1, <1>4 DEF Follows

\* setCursor.
LEMMA SetCursorFollows ==
    ASSUME NEW t, Holds(Editor, t), setCursor
    PROVE  Follows(t)
<1>1. PICK asked \in Asked, extendSelection \in BOOLEAN :
         LET p == clampPosition(lines, asked)
             anchor == IF extendSelection THEN (IF hasSel THEN selAnchor ELSE cursor) ELSE p
         IN  Becomes([Editor EXCEPT !.cursor = p, !.selAnchor = anchor, !.hasSel = anchor # p])
  BY DEF setCursor
<1> DEFINE p == clampPosition(lines, asked)
           anchor == IF extendSelection THEN (IF hasSel THEN selAnchor ELSE cursor) ELSE p
           has == anchor # p
           e2 == [Editor EXCEPT !.cursor = p, !.selAnchor = anchor, !.hasSel = has]
<1>2. InLines(lines, p)
  BY AskedClamped
<1>3. Becomes(e2)
  BY <1>1
<1> HIDE DEF p
<1>4. InLines(lines, cursor) /\ InLines(lines, selAnchor)
  BY EditorLines, EditorFields
<1>5. InLines(lines, anchor)
  BY <1>2, <1>4
<1>6. Editor.lines = lines
  BY EditorFields
<1> HIDE DEF anchor
<1>7. Leads(e2, t)
  BY <1>2, <1>5, <1>6, Selects
<1> QED
  BY <1>3, <1>7 DEF Follows

\* setSelection.
LEMMA SetSelectionFollows ==
    ASSUME NEW t, Holds(Editor, t), setSelection
    PROVE  Follows(t)
<1>1. PICK a \in Asked, b \in Asked :
         LET p == clampPosition(lines, a)
             q == clampPosition(lines, b)
         IN  Becomes([Editor EXCEPT !.selAnchor = p, !.cursor = q, !.hasSel = p # q])
  BY DEF setSelection
<1> DEFINE p == clampPosition(lines, a)
           q == clampPosition(lines, b)
           has == p # q
           e2 == [Editor EXCEPT !.cursor = q, !.selAnchor = p, !.hasSel = has]
<1>2. InLines(lines, p) /\ InLines(lines, q)
  BY AskedClamped
<1>3. Becomes(e2)
  BY <1>1 DEF Editor
<1> HIDE DEF p, q
<1>4. Editor.lines = lines
  BY EditorFields
<1>5. Leads(e2, t)
  BY <1>2, <1>4, Selects
<1> QED
  BY <1>3, <1>5 DEF Follows

\* collapseSelectionToCursor.
LEMMA CollapseFollows ==
    ASSUME NEW t, Holds(Editor, t), collapseSelectionToCursor
    PROVE  Follows(t)
<1> DEFINE e2 == [Editor EXCEPT !.cursor = cursor, !.selAnchor = cursor, !.hasSel = FALSE]
<1>1. Becomes(e2)
  BY DEF collapseSelectionToCursor, Editor, Becomes
<1>2. InLines(Editor.lines, cursor)
  BY EditorLines, EditorFields
<1>3. FALSE \in BOOLEAN /\ (FALSE <=> cursor # cursor)
  OBVIOUS
<1>4. Leads(e2, t)
  BY <1>2, <1>3, Selects
<1> QED
  BY <1>1, <1>4 DEF Follows

\* The ends of the selection are places in the text, in order (getSelection).
LEMMA SelectionPlaces ==
    ASSUME NEW t, Holds(Editor, t)
    PROVE  /\ Selection(Editor)[1] \in Int \X Int /\ Selection(Editor)[2] \in Int \X Int
           /\ InLines(lines, Selection(Editor)[1]) /\ InLines(lines, Selection(Editor)[2])
           /\ Precedes(Selection(Editor)[1], Selection(Editor)[2])
<1>1. InLines(lines, cursor) /\ InLines(lines, selAnchor)
  BY EditorLines, EditorFields
<1>2. cursor \in Nat \X Nat /\ selAnchor \in Nat \X Nat
  BY <1>1 DEF InLines
<1>3. Selection(Editor) = IF Precedes(selAnchor, cursor) THEN <<selAnchor, cursor>> ELSE <<cursor, selAnchor>>
  BY EditorFields DEF Selection
<1>4. cursor \in Int \X Int /\ selAnchor \in Int \X Int
  BY <1>2
<1>5. Precedes(selAnchor, cursor) \/ Precedes(cursor, selAnchor)
  BY <1>2, OrderTotal
<1> QED
  BY <1>1, <1>3, <1>4, <1>5

\* undo.
LEMMA UndoFollows ==
    ASSUME NEW t, Holds(Editor, t), undo
    PROVE  Follows(t)
<1> DEFINE rec == Top(undoStack)
           ls == Undone(lines, rec)
           e2 == [lines |-> ls, cursor |-> clampPosition(ls, rec.cursorBefore), selAnchor |-> rec.cursorBefore,
                  hasSel |-> FALSE, undoStack |-> Pop(undoStack), redoStack |-> Append(redoStack, rec)]
<1>1. undoStack # << >> /\ Becomes(e2)
  BY DEF undo
<1>2. \E t2 : Holds(e2, t2) /\ HistoryStep(t, t2)
  <2> DEFINE E == Editor
             rec0 == Top(E.undoStack)
             ls0 == Undone(E.lines, rec0)
             e0 == [lines |-> ls0, cursor |-> clampPosition(ls0, rec0.cursorBefore), selAnchor |-> rec0.cursorBefore,
                    hasSel |-> FALSE, undoStack |-> Pop(E.undoStack), redoStack |-> Append(E.redoStack, rec0)]
  <2>1. Holds(E, t) /\ E.undoStack # << >>
    BY <1>1, EditorFields
  <2>2. E.lines = lines /\ E.undoStack = undoStack /\ E.redoStack = redoStack
    BY EditorFields
  <2> HIDE DEF E
  <2>3. \E t2 : Holds(e0, t2) /\ HistoryStep(t, t2)
    BY <2>1, UndoKeeps
  <2>4. e0 = e2
    BY <2>2
  <2> QED
    BY <2>3, <2>4
<1>3. Leads(e2, t)
  BY <1>2 DEF Leads
<1> QED
  BY <1>1, <1>3 DEF Follows

\* redo.
LEMMA RedoFollows ==
    ASSUME NEW t, Holds(Editor, t), redo
    PROVE  Follows(t)
<1> DEFINE rec == Top(redoStack)
           ls == Redone(lines, rec)
           e2 == [lines |-> ls, cursor |-> clampPosition(ls, rec.cursorAfter), selAnchor |-> rec.cursorAfter,
                  hasSel |-> FALSE, undoStack |-> Append(undoStack, rec), redoStack |-> Pop(redoStack)]
<1>1. redoStack # << >> /\ Becomes(e2)
  BY DEF redo
<1>2. \E t2 : Holds(e2, t2) /\ HistoryStep(t, t2)
  <2> DEFINE E == Editor
             rec0 == Top(E.redoStack)
             ls0 == Redone(E.lines, rec0)
             e0 == [lines |-> ls0, cursor |-> clampPosition(ls0, rec0.cursorAfter), selAnchor |-> rec0.cursorAfter,
                    hasSel |-> FALSE, undoStack |-> Append(E.undoStack, rec0), redoStack |-> Pop(E.redoStack)]
  <2>1. Holds(E, t) /\ E.redoStack # << >>
    BY <1>1, EditorFields
  <2>2. E.lines = lines /\ E.undoStack = undoStack /\ E.redoStack = redoStack
    BY EditorFields
  <2> HIDE DEF E
  <2>3. \E t2 : Holds(e0, t2) /\ HistoryStep(t, t2)
    BY <2>1, RedoKeeps
  <2>4. e0 = e2
    BY <2>2
  <2> QED
    BY <2>3, <2>4
<1>3. Leads(e2, t)
  BY <1>2 DEF Leads
<1> QED
  BY <1>1, <1>3 DEF Follows

\* The cursor indexes a line, and a column of it: what every operation takes for granted.
LEMMA CursorPlace ==
    ASSUME NEW t, Holds(Editor, t)
    PROVE  /\ lines \in Docs /\ InLines(lines, cursor) /\ cursor \in Nat \X Nat /\ cursor \in Int \X Int
           /\ cursor[1] \in Nat /\ cursor[2] \in Nat /\ Len(lines) \in Nat /\ cursor[1] \in 1..Len(lines)
           /\ lines[cursor[1]] \in Text /\ Len(lines[cursor[1]]) \in Nat /\ cursor[2] \in 0..Len(lines[cursor[1]])
<1>1. lines \in Docs /\ InLines(lines, cursor)
  BY EditorLines, EditorFields
<1>2. cursor \in Nat \X Nat /\ cursor[1] \in Nat /\ cursor[2] \in Nat /\ Len(lines) \in Nat
      /\ cursor[1] \in 1..Len(lines) /\ lines[cursor[1]] \in Text
      /\ Len(lines[cursor[1]]) \in Nat /\ cursor[2] \in 0..Len(lines[cursor[1]])
  BY <1>1, PlaceFacts
<1>3. cursor \in Int \X Int
  BY <1>2
<1> QED
  BY <1>1, <1>2, <1>3

\* A step that replaces any range by any text.
LEMMA RangeFollows ==
    ASSUME NEW t, Holds(Editor, t), NEW a \in Int \X Int, NEW b \in Int \X Int,
           NEW text \in Text, NEW coalescable \in BOOLEAN, NEW soon,
           Becomes(Replaced(Editor, a, b, text, coalescable, soon))
    PROVE  Follows(t)
BY AnywhereLeads DEF Follows

\* replaceRange.
LEMMA ReplaceFollows ==
    ASSUME NEW t, Holds(Editor, t), replaceRange
    PROVE  Follows(t)
<1>1. PICK a \in Asked, b \in Asked, text \in Pasted : Becomes(Replaced(Editor, a, b, text, FALSE, FALSE))
  BY DEF replaceRange
<1>2. a \in Int \X Int /\ b \in Int \X Int
  BY AskedClamped
<1>3. text \in Text
  BY EditorAssumption
<1> QED
  BY <1>1, <1>2, <1>3, RangeFollows

\* A step that replaces the selection.
LEMMA SelectionGone ==
    ASSUME NEW t, Holds(Editor, t), NEW text \in Text, NEW soon,
           Becomes(Replaced(Editor, Selection(Editor)[1], Selection(Editor)[2], text, FALSE, soon))
    PROVE  Follows(t)
BY SelectionPlaces, RangeFollows

\* deleteBackward: a selection, the end of the line before, a pair, or a byte.
LEMMA BackwardFollows ==
    ASSUME NEW t, Holds(Editor, t), deleteBackward
    PROVE  Follows(t)
<1>1. << >> \in Text
  BY NewlineText
<1>2. CASE hasSel
  <2>1. Becomes(Replaced(Editor, Selection(Editor)[1], Selection(Editor)[2], << >>, FALSE, FALSE))
    BY <1>2 DEF deleteBackward, deleteSelection
  <2> QED
    BY <1>1, <2>1, SelectionGone
<1>3. CASE ~hasSel
  <2>1. PICK soon \in BOOLEAN : Becomes(BytesBack(soon))
    BY <1>3 DEF deleteBackward
  <2>2. cursor # <<1, 0>>
    BY <1>3 DEF deleteBackward
  <2> DEFINE l == cursor[1]
             k == cursor[2]
  <2>3. lines \in Docs /\ cursor \in Int \X Int /\ cursor = <<l, k>> /\ l \in Nat /\ k \in Nat /\ Len(lines) \in Nat
        /\ l \in 1..Len(lines)
    BY CursorPlace
  <2>4. BytesBack(soon) =
          IF k = 0 THEN Replaced(Editor, <<l - 1, Len(lines[l - 1])>>, cursor, << >>, FALSE, soon)
          ELSE IF IsPair(lines[l][k], NextByte)
          THEN Replaced(Editor, <<l, k - 1>>, <<l, k + 1>>, << >>, FALSE, soon)
          ELSE Replaced(Editor, <<l, k - 1>>, cursor, << >>, TRUE, soon)
    BY DEF BytesBack
  <2> HIDE DEF l, k
  <2>5. CASE k = 0
    <3>1. l - 1 \in 1..Len(lines)
      <4>1. l # 1
        BY <2>2, <2>3, <2>5
      <4> QED
        BY <2>3, <4>1
    <3>2. Len(lines[l - 1]) \in Nat
      BY <2>3, <3>1, DocFacts
    <3>3. <<l - 1, Len(lines[l - 1])>> \in Int \X Int
      BY <2>3, <3>2
    <3> QED
      BY <1>1, <2>1, <2>3, <2>4, <2>5, <3>3, RangeFollows
  <2>6. CASE k # 0
    <3>1. <<l, k - 1>> \in Int \X Int /\ <<l, k + 1>> \in Int \X Int
      BY <2>3
    <3>2. CASE IsPair(lines[l][k], NextByte)
      <4>1. Becomes(Replaced(Editor, <<l, k - 1>>, <<l, k + 1>>, << >>, FALSE, soon))
        BY <2>1, <2>4, <2>6, <3>2
      <4> QED
        BY <1>1, <3>1, <4>1, RangeFollows
    <3>3. CASE ~IsPair(lines[l][k], NextByte)
      <4>1. Becomes(Replaced(Editor, <<l, k - 1>>, cursor, << >>, TRUE, soon))
        BY <2>1, <2>4, <2>6, <3>3
      <4> QED
        BY <1>1, <2>3, <3>1, <4>1, RangeFollows
    <3> QED
      BY <3>2, <3>3
  <2> QED
    BY <2>5, <2>6
<1> QED
  BY <1>2, <1>3

\* deleteForward: a selection, the end of the line, or a byte.
LEMMA ForwardFollows ==
    ASSUME NEW t, Holds(Editor, t), deleteForward
    PROVE  Follows(t)
<1>1. << >> \in Text
  BY NewlineText
<1>2. CASE hasSel
  <2>1. Becomes(Replaced(Editor, Selection(Editor)[1], Selection(Editor)[2], << >>, FALSE, FALSE))
    BY <1>2 DEF deleteForward, deleteSelection
  <2> QED
    BY <1>1, <2>1, SelectionGone
<1>3. CASE ~hasSel
  <2>1. PICK soon \in BOOLEAN : Becomes(BytesForward(soon))
    BY <1>3 DEF deleteForward
  <2> DEFINE l == cursor[1]
             k == cursor[2]
  <2>2. cursor \in Int \X Int /\ l \in Nat /\ k \in Nat
    BY CursorPlace
  <2>3. BytesForward(soon) =
          IF k = Len(lines[l]) THEN Replaced(Editor, cursor, <<l + 1, 0>>, << >>, FALSE, soon)
          ELSE Replaced(Editor, cursor, <<l, k + 1>>, << >>, TRUE, soon)
    BY DEF BytesForward
  <2> HIDE DEF l, k
  <2>4. <<l + 1, 0>> \in Int \X Int /\ <<l, k + 1>> \in Int \X Int
    BY <2>2
  <2>5. CASE k = Len(lines[l])
    <3>1. Becomes(Replaced(Editor, cursor, <<l + 1, 0>>, << >>, FALSE, soon))
      BY <2>1, <2>3, <2>5
    <3> QED
      BY <1>1, <2>2, <2>4, <3>1, RangeFollows
  <2>6. CASE k # Len(lines[l])
    <3>1. Becomes(Replaced(Editor, cursor, <<l, k + 1>>, << >>, TRUE, soon))
      BY <2>1, <2>3, <2>6
    <3> QED
      BY <1>1, <2>2, <2>4, <3>1, RangeFollows
  <2> QED
    BY <2>5, <2>6
<1> QED
  BY <1>2, <1>3

\* duplicateCurrentLine.
LEMMA DuplicateFollows ==
    ASSUME NEW t, Holds(Editor, t), duplicateCurrentLine
    PROVE  Follows(t)
<1> DEFINE E == Editor
           line == cursor[1]
           end == <<line, Len(lines[line])>>
           e2 == At(Replaced(Editor, end, end, <<Newline>> \o lines[line], FALSE, FALSE), <<line + 1, cursor[2]>>)
<1>1. Becomes(e2)
  BY DEF duplicateCurrentLine
<1>2. E.lines = lines /\ E.cursor = cursor /\ Holds(E, t)
  BY EditorFields
<1>3. Leads(e2, t)
  <2> HIDE DEF E
  <2>1. LET l == E.cursor[1]
            place == <<l, Len(E.lines[l])>>
        IN  Leads(At(Replaced(E, place, place, <<Newline>> \o E.lines[l], FALSE, FALSE),
                     <<l + 1, E.cursor[2]>>), t)
    BY <1>2, DuplicateLeads
  <2> QED
    BY <1>2, <2>1 DEF E
<1> QED
  BY <1>1, <1>3 DEF Follows

\* deleteCurrentLine.
LEMMA DeleteLineFollows ==
    ASSUME NEW t, Holds(Editor, t), deleteCurrentLine
    PROVE  Follows(t)
<1> DEFINE n == Len(lines)
           l == cursor[1]
           k == cursor[2]
           end == <<l, Len(lines[l])>>
           prevEnd == <<l - 1, Len(lines[l - 1])>>
<1>1. Becomes(LineDeleted)
  BY DEF deleteCurrentLine
<1>2. lines \in Docs /\ n \in Nat /\ l \in 1..n /\ l \in Nat /\ k \in Nat /\ Len(lines[l]) \in Nat
  BY CursorPlace
<1>3. Editor.lines = lines
  BY EditorFields
<1>4. LineDeleted =
        IF n = 1 THEN At(Replaced(Editor, <<1, 0>>, end, << >>, FALSE, FALSE), <<1, 0>>)
        ELSE IF l < n
        THEN At(Replaced(Editor, <<l, 0>>, <<l + 1, 0>>, << >>, FALSE, FALSE), <<l, Least(k, Len(lines[l + 1]))>>)
        ELSE At(Replaced(Editor, prevEnd, end, << >>, FALSE, FALSE), prevEnd)
  BY DEF LineDeleted
<1>5. Len(lines[l]) \in 0..Len(lines[l])
  BY <1>2
<1>6. InLines(lines, end)
  BY <1>2, <1>5, OnLine
<1> HIDE DEF l, k, n
<1>7. CASE n = 1
  <2>1. end \in Nat \X Nat
    BY <1>2
  <2>2. Leads(At(Replaced(Editor, <<1, 0>>, end, << >>, FALSE, FALSE), <<1, 0>>), t)
    BY <2>1, OnlyLineLeads
  <2> QED
    BY <1>1, <1>4, <1>7, <2>2 DEF Follows
<1>8. CASE n # 1 /\ l < n
  <2>1. Leads(At(Replaced(Editor, <<l, 0>>, <<l + 1, 0>>, << >>, FALSE, FALSE),
                 <<l, Least(k, Len(Editor.lines[l + 1]))>>), t)
    <3>1. l \in 1..Len(Editor.lines) /\ l < Len(Editor.lines)
      BY <1>2, <1>3, <1>8 DEF n
    <3> QED
      BY <1>2, <3>1, LineGoneLeads
  <2> QED
    BY <1>1, <1>3, <1>4, <1>8, <2>1 DEF Follows
<1>9. CASE n # 1 /\ ~(l < n)
  <2>1. l - 1 \in 1..n
    BY <1>2, <1>9
  <2>2. Len(lines[l - 1]) \in Nat /\ Len(lines[l - 1]) \in 0..Len(lines[l - 1])
    <3>1. Len(lines[l - 1]) \in Nat
      BY <1>2, <2>1, DocFacts DEF n
    <3> QED
      BY <3>1
  <2>3. InLines(lines, prevEnd)
    BY <1>2, <2>1, <2>2, OnLine DEF n
  <2>4. Precedes(prevEnd, end)
    BY <1>2, <2>1 DEF Precedes
  <2> HIDE DEF prevEnd, end
  <2>5. Leads(At(Replaced(Editor, prevEnd, end, << >>, FALSE, FALSE), prevEnd), t)
    BY <1>3, <1>6, <2>3, <2>4, LastLineLeads
  <2> QED
    BY <1>1, <1>4, <1>9, <2>5 DEF Follows
<1> QED
  BY <1>7, <1>8, <1>9

\* moveLineUp.
LEMMA MoveUpFollows ==
    ASSUME NEW t, Holds(Editor, t), moveLineUp
    PROVE  Follows(t)
<1> DEFINE E == Editor
           n == Len(lines)
           l == cursor[1]
           k == cursor[2]
           u == l - 1
<1>1. l > 1 /\ Becomes(Exchanged(u, u))
  BY DEF moveLineUp
<1>2. n \in Nat /\ l \in 1..n /\ l \in Nat /\ k \in Nat /\ k \in 0..Len(lines[l]) /\ Len(lines[l]) \in Nat
  BY CursorPlace
<1>3. E.lines = lines /\ Holds(E, t)
  BY EditorFields
<1>4. Exchanged(u, u) = At(Replaced(E, <<u, 0>>, <<u + 1, Len(lines[u + 1])>>,
                                    lines[u + 1] \o <<Newline>> \o lines[u], FALSE, FALSE), <<u, k>>)
  BY DEF Exchanged
<1> HIDE DEF E, l, k, n
<1>5. u \in 1..n /\ u < n /\ u + 1 = l /\ k <= Len(lines[l])
  BY <1>1, <1>2
<1> HIDE DEF u
<1>6. Leads(At(Replaced(E, <<u, 0>>, <<u + 1, Len(E.lines[u + 1])>>,
                        E.lines[u + 1] \o <<Newline>> \o E.lines[u], FALSE, FALSE), <<u, k>>), t)
  <2>1. u \in 1..Len(E.lines) /\ u < Len(E.lines) /\ k \in Nat /\ k <= Len(E.lines[u + 1])
    BY <1>2, <1>3, <1>5 DEF n
  <2> QED
    BY <1>3, <2>1, ExchangeLeads
<1> QED
  BY <1>1, <1>3, <1>4, <1>6 DEF Follows

\* moveLineDown.
LEMMA MoveDownFollows ==
    ASSUME NEW t, Holds(Editor, t), moveLineDown
    PROVE  Follows(t)
<1> DEFINE E == Editor
           n == Len(lines)
           u == cursor[1]
           k == cursor[2]
           to == u + 1
<1>1. u < n /\ Becomes(Exchanged(u, to))
  BY DEF moveLineDown
<1>2. n \in Nat /\ u \in 1..n /\ u \in Nat /\ k \in Nat /\ k \in 0..Len(lines[u]) /\ Len(lines[u]) \in Nat
  BY CursorPlace
<1>3. E.lines = lines /\ Holds(E, t)
  BY EditorFields
<1>4. Exchanged(u, to) = At(Replaced(E, <<u, 0>>, <<u + 1, Len(lines[u + 1])>>,
                                     lines[u + 1] \o <<Newline>> \o lines[u], FALSE, FALSE), <<to, k>>)
  BY DEF Exchanged
<1> HIDE DEF E, u, k, n
<1>5. k <= Len(lines[u])
  BY <1>2
<1>6. Leads(At(Replaced(E, <<u, 0>>, <<u + 1, Len(E.lines[u + 1])>>,
                        E.lines[u + 1] \o <<Newline>> \o E.lines[u], FALSE, FALSE), <<to, k>>), t)
  <2>1. u \in 1..Len(E.lines) /\ u < Len(E.lines) /\ k \in Nat /\ k <= Len(E.lines[u]) /\ to = u + 1
    BY <1>1, <1>2, <1>3, <1>5 DEF n
  <2> QED
    BY <1>3, <2>1, ExchangeLeads
<1> QED
  BY <1>1, <1>3, <1>4, <1>6 DEF Follows

\* The ends of what a command on whole lines rewrites, and their lines.
Ends == IF hasSel THEN Selection(Editor) ELSE <<cursor, cursor>>
\* Their lines.
First == Ends[1][1]
Last == Ends[2][1]

\* They are lines of the text, in order.
LEMMA EndsOrdered ==
    ASSUME NEW t, Holds(Editor, t)
    PROVE  /\ First \in Nat /\ Last \in Nat /\ First <= Last
           /\ First \in 1..Len(lines) /\ Last \in 1..Len(lines) /\ Len(lines) \in Nat
           /\ \A i \in 1..Len(lines) : lines[i] \in Text /\ Len(lines[i]) \in Nat
<1> DEFINE a == Ends[1]
           b == Ends[2]
<1>1. lines \in Docs
  BY EditorLines, EditorFields
<1>2. InLines(lines, a) /\ InLines(lines, b) /\ Precedes(a, b)
  <2>1. InLines(lines, cursor) /\ Precedes(cursor, cursor)
    BY CursorPlace, SamePlace
  <2> QED
    BY <2>1, SelectionPlaces DEF Ends
<1>3. First = a[1] /\ Last = b[1]
  BY DEF First, Last
<1> HIDE DEF a, b
<1>4. a[1] \in Nat /\ b[1] \in Nat /\ a[1] \in 1..Len(lines) /\ b[1] \in 1..Len(lines)
  BY <1>1, <1>2, PlaceFacts
<1>5. a[1] <= b[1]
  BY <1>2, <1>4 DEF Precedes
<1> QED
  BY <1>1, <1>3, <1>4, <1>5, DocFacts

\* Lines that were rewritten join to a text.
LEMMA JoinedRewritten ==
    ASSUME NEW n \in Nat, n >= 1, NEW g \in [1..n -> Text]
    PROVE  Joined(g) \in Text
<1>1. g \in Seq(Text) /\ Len(g) = n
  OBVIOUS
<1>2. g # << >>
  BY <1>1, EmptySeq
<1> QED
  BY <1>1, <1>2, JoinedText DEF Docs

\* A step that replaces the selected lines by as many texts.
LEMMA LinesFollow ==
    ASSUME NEW t, Holds(Editor, t), NEW g \in [1..(Last - First + 1) -> Text],
           Becomes(Replaced(Editor, <<First, 0>>, <<Last, Len(lines[Last])>>, Joined(g), FALSE, FALSE))
    PROVE  Follows(t)
<1>1. /\ First \in Nat /\ Last \in Nat /\ First <= Last /\ Len(lines[Last]) \in Nat
  BY EndsOrdered
<1> DEFINE n == Last - First + 1
<1>2. n \in Nat /\ n >= 1
  BY <1>1
<1>3. g \in [1..n -> Text]
  OBVIOUS
<1>4. <<First, 0>> \in Int \X Int /\ <<Last, Len(lines[Last])>> \in Int \X Int
  BY <1>1
<1> HIDE DEF n
<1>5. Joined(g) \in Text
  BY <1>2, <1>3, JoinedRewritten
<1> QED
  BY <1>4, <1>5, RangeFollows

\* A selected line is a text.
LEMMA SelectedLine ==
    ASSUME NEW t, Holds(Editor, t), NEW i \in 1..(Last - First + 1)
    PROVE  lines[First + i - 1] \in Text
<1>1. /\ First \in Nat /\ Last \in Nat /\ First \in 1..Len(lines) /\ Last \in 1..Len(lines) /\ Len(lines) \in Nat
      /\ \A j \in 1..Len(lines) : lines[j] \in Text
  BY EndsOrdered
<1> DEFINE n == Len(lines)
<1>2. n \in Nat /\ First \in 1..n /\ Last \in 1..n
  BY <1>1
<1> HIDE DEF n
<1>3. First + i - 1 \in 1..n
  BY <1>2
<1> QED
  BY <1>1, <1>3 DEF n

\* indentSelection.
LEMMA IndentedFollows ==
    ASSUME NEW t, Holds(Editor, t), Becomes(Rewritten(Indented))
    PROVE  Follows(t)
<1> DEFINE g == [i \in 1..(Last - First + 1) |-> Indented(lines[First + i - 1])]
<1>1. Becomes(Replaced(Editor, <<First, 0>>, <<Last, Len(lines[Last])>>, Joined(g), FALSE, FALSE))
  BY DEF Rewritten, Ends, First, Last
<1>2. g \in [1..(Last - First + 1) -> Text]
  <2>1. \A i \in 1..(Last - First + 1) : Indented(lines[First + i - 1]) \in Text
    BY SelectedLine, IndentedText
  <2> QED
    BY <2>1
<1> HIDE DEF g
<1> QED
  BY <1>1, <1>2, LinesFollow

\* unindentSelection.
LEMMA UnindentedFollows ==
    ASSUME NEW t, Holds(Editor, t), Becomes(Rewritten(Unindented))
    PROVE  Follows(t)
<1> DEFINE g == [i \in 1..(Last - First + 1) |-> Unindented(lines[First + i - 1])]
<1>1. Becomes(Replaced(Editor, <<First, 0>>, <<Last, Len(lines[Last])>>, Joined(g), FALSE, FALSE))
  BY DEF Rewritten, Ends, First, Last
<1>2. g \in [1..(Last - First + 1) -> Text]
  <2>1. \A i \in 1..(Last - First + 1) : Unindented(lines[First + i - 1]) \in Text
    BY SelectedLine, UnindentedText
  <2> QED
    BY <2>1
<1> HIDE DEF g
<1> QED
  BY <1>1, <1>2, LinesFollow

\* toggleLineComment, where a line is no comment yet.
LEMMA CommentedFollows ==
    ASSUME NEW t, Holds(Editor, t), Becomes(Rewritten(Commented))
    PROVE  Follows(t)
<1> DEFINE g == [i \in 1..(Last - First + 1) |-> Commented(lines[First + i - 1])]
<1>1. Becomes(Replaced(Editor, <<First, 0>>, <<Last, Len(lines[Last])>>, Joined(g), FALSE, FALSE))
  BY DEF Rewritten, Ends, First, Last
<1>2. g \in [1..(Last - First + 1) -> Text]
  <2>1. \A i \in 1..(Last - First + 1) : Commented(lines[First + i - 1]) \in Text
    BY SelectedLine, CommentedText
  <2> QED
    BY <2>1
<1> HIDE DEF g
<1> QED
  BY <1>1, <1>2, LinesFollow

\* toggleLineComment, where all are.
LEMMA UncommentedFollows ==
    ASSUME NEW t, Holds(Editor, t), Becomes(Rewritten(Uncommented))
    PROVE  Follows(t)
<1> DEFINE g == [i \in 1..(Last - First + 1) |-> Uncommented(lines[First + i - 1])]
<1>1. Becomes(Replaced(Editor, <<First, 0>>, <<Last, Len(lines[Last])>>, Joined(g), FALSE, FALSE))
  BY DEF Rewritten, Ends, First, Last
<1>2. g \in [1..(Last - First + 1) -> Text]
  <2>1. \A i \in 1..(Last - First + 1) : Uncommented(lines[First + i - 1]) \in Text
    BY SelectedLine, UncommentedText
  <2> QED
    BY <2>1
<1> HIDE DEF g
<1> QED
  BY <1>1, <1>2, LinesFollow

\* toggleLineComment.
LEMMA ToggleFollows ==
    ASSUME NEW t, Holds(Editor, t), toggleLineComment
    PROVE  Follows(t)
<1>1. Becomes(Rewritten(Uncommented)) \/ Becomes(Rewritten(Commented))
  BY DEF toggleLineComment
<1> QED
  BY <1>1, CommentedFollows, UncommentedFollows

\* insertText of one byte with "smart": stepped over, paired, or typed.
LEMMA ByteFollows ==
    ASSUME NEW t, Holds(Editor, t), ~hasSel, NEW c \in Byte, c # Newline, NEW soon, Becomes(TypedByte(c, soon))
    PROVE  Follows(t)
<1> DEFINE E == Editor
           typed == Replaced(E, cursor, cursor, <<c>>, TRUE, soon)
<1>1. TypedByte(c, soon) =
        IF StepsOver(c) THEN At(E, <<cursor[1], cursor[2] + 1>>)
        ELSE IF Pairs(c)
        THEN At(Replaced(E, cursor, cursor, <<c, Partner(c)>>, FALSE, soon), <<cursor[1], cursor[2] + 1>>)
        ELSE IF c = "}" THEN Dedented(typed, soon) ELSE typed
  BY DEF TypedByte
<1>2. /\ lines \in Docs /\ InLines(lines, cursor) /\ cursor \in Nat \X Nat /\ cursor \in Int \X Int
      /\ cursor[1] \in Nat /\ cursor[2] \in Nat /\ cursor[1] \in 1..Len(lines)
      /\ Len(lines[cursor[1]]) \in Nat
  BY CursorPlace
<1>3. E.lines = lines /\ E.cursor = cursor /\ E.hasSel = hasSel /\ Holds(E, t)
  BY EditorFields
<1> HIDE DEF E
<1>4. CASE StepsOver(c)
  <2>1. cursor[2] < Len(lines[cursor[1]])
    <3>1. c # "none"
      BY <1>4 DEF StepsOver, Closers, Quotes
    <3>2. NextByte = c
      BY <1>4 DEF StepsOver
    <3> QED
      BY <3>1, <3>2 DEF NextByte
  <2>2. cursor[2] + 1 \in 0..Len(lines[cursor[1]])
    BY <1>2, <2>1
  <2>3. InLines(E.lines, <<cursor[1], cursor[2] + 1>>)
    BY <1>2, <1>3, <2>2, OnLine
  <2>4. E.hasSel = FALSE
    BY <1>3 DEF Holds, EditorStates
  <2>5. Holds(At(E, <<cursor[1], cursor[2] + 1>>), t)
    BY <1>3, <2>3, <2>4, AtHolds
  <2> QED
    BY <1>1, <1>4, <2>5 DEF Follows, Leads, HistoryStep
<1>5. CASE ~StepsOver(c) /\ Pairs(c)
  <2>1. Partner(c) \in Byte
    BY <1>5, MarkTexts DEF Pairs
  <2>2. Leads(At(Replaced(E, E.cursor, E.cursor, <<c, Partner(c)>>, FALSE, soon), <<E.cursor[1], E.cursor[2] + 1>>), t)
    BY <1>3, <2>1, PairLeads
  <2> QED
    BY <1>1, <1>3, <1>5, <2>2 DEF Follows
<1>6. CASE ~StepsOver(c) /\ ~Pairs(c) /\ c = "}"
  <2>1. c \in Braces
    BY <1>6 DEF Braces
  <2>2. Leads(Dedented(Replaced(E, E.cursor, E.cursor, <<c>>, TRUE, soon), soon), t)
    BY <1>3, <2>1, BraceLeads
  <2> QED
    BY <1>1, <1>3, <1>6, <2>2 DEF Follows
<1>7. CASE ~StepsOver(c) /\ ~Pairs(c) /\ c # "}"
  <2>1. Becomes(typed)
    BY <1>1, <1>7
  <2>2. <<c>> \in Text
    BY OneByte
  <2> QED
    BY <1>2, <2>1, <2>2, RangeFollows DEF E
<1> QED
  BY <1>4, <1>5, <1>6, <1>7

\* What Enter puts in is a text.
LEMMA NewLineTyped ==
    ASSUME NEW t, Holds(Editor, t)
    PROVE  NewLine \in Text
<1> DEFINE before == Before(lines[cursor[1]], cursor[2])
           more == IF EndsInBrace(before) THEN Indent ELSE << >>
<1>1. before \in Text
  BY CursorPlace, BeforeText
<1>2. NewLine = <<Newline>> \o leadingWhitespace(before) \o more
  BY DEF NewLine
<1> HIDE DEF before
<1>3. more \in {Indent, << >>}
  OBVIOUS
<1> HIDE DEF more
<1> QED
  BY <1>1, <1>2, <1>3, NewLineText

\* insertText: over a selection, as Enter, as one byte, or as it is.
LEMMA InsertFollows ==
    ASSUME NEW t, Holds(Editor, t), insertText
    PROVE  Follows(t)
<1>1. PICK text \in Keys, smart \in BOOLEAN, soon \in BOOLEAN :
         Becomes(CASE hasSel ->
                        Replaced(Editor, Selection(Editor)[1], Selection(Editor)[2], text, FALSE, soon)
                   [] ~hasSel /\ smart /\ text = <<Newline>> ->
                        Replaced(Editor, cursor, cursor, NewLine, FALSE, soon)
                   [] ~hasSel /\ smart /\ Len(text) = 1 /\ text # <<Newline>> -> TypedByte(text[1], soon)
                   [] OTHER -> Replaced(Editor, cursor, cursor, text, FALSE, soon))
  BY DEF insertText
<1>2. text \in Text
  BY EditorAssumption
<1>3. cursor \in Int \X Int
  BY CursorPlace
<1> DEFINE Enter == ~hasSel /\ smart /\ text = <<Newline>>
           One == ~hasSel /\ smart /\ Len(text) = 1 /\ text # <<Newline>>
<1>4. CASE hasSel
  <2>1. Becomes(Replaced(Editor, Selection(Editor)[1], Selection(Editor)[2], text, FALSE, soon))
    BY <1>1, <1>4
  <2> QED
    BY <1>2, <2>1, SelectionGone
<1>5. CASE Enter
  <2>1. Becomes(Replaced(Editor, cursor, cursor, NewLine, FALSE, soon))
    BY <1>1, <1>5
  <2>2. NewLine \in Text
    BY NewLineTyped
  <2> QED
    BY <1>3, <2>1, <2>2, RangeFollows
<1>6. CASE One
  <2>1. Becomes(TypedByte(text[1], soon))
    BY <1>1, <1>6
  <2>2. text[1] \in Byte /\ text = <<text[1]>>
    BY <1>2, <1>6 DEF Text
  <2>3. text[1] # Newline
    BY <1>6, <2>2
  <2> QED
    BY <1>6, <2>1, <2>2, <2>3, ByteFollows
<1>7. CASE ~hasSel /\ ~Enter /\ ~One
  <2>1. Becomes(Replaced(Editor, cursor, cursor, text, FALSE, soon))
    BY <1>1, <1>7
  <2> QED
    BY <1>2, <1>3, <2>1, RangeFollows
<1> QED
  BY <1>4, <1>5, <1>6, <1>7

\* Whatever the operation: the editor it leaves holds, and EditHistory has made a step or none.
LEMMA NextFollows ==
    ASSUME NEW t, Holds(Editor, t), Next
    PROVE  Follows(t)
BY OpenFollows, SetCursorFollows, SetSelectionFollows, CollapseFollows, InsertFollows, BackwardFollows,
   ForwardFollows, ReplaceFollows, UndoFollows, RedoFollows, DuplicateFollows, DeleteLineFollows,
   MoveUpFollows, MoveDownFollows, ToggleFollows, IndentedFollows, UnindentedFollows
   DEF Next, indentSelection, unindentSelection
-----------------------------------------------------------------------------
(* The theorems                                                             *)

\* The inductive invariant: the lines are those of a text, cursor and selection are in it, and the
\* records of both stacks describe the edits between the texts they lead through.
Remembered == Holds(Editor, Texts(Editor))

\* A property of no run: records are never more than kMaxHistory, those undone among them.
RecordsBounded == Len(undoStack) + Len(redoStack) <= kMaxHistory

\* Becomes gives all of the editor's state.
LEMMA BecomesEditor ==
    ASSUME NEW e2 \in EditorStates, Becomes(e2)
    PROVE  Editor' = e2
<1>1. e2 = [lines |-> e2.lines, cursor |-> e2.cursor, selAnchor |-> e2.selAnchor, hasSel |-> e2.hasSel,
            undoStack |-> e2.undoStack, redoStack |-> e2.redoStack]
  BY DEF EditorStates
<1> QED
  BY <1>1 DEF Editor, Becomes

\* It holds of the first document.
LEMMA InitRemembers ==
    ASSUME Init
    PROVE  Remembered /\ Texts(Editor).past = << >> /\ Texts(Editor).future = << >>
<1>1. PICK text \in Opened :
         LET e == Fresh(text)
         IN  /\ lines = e.lines /\ cursor = e.cursor /\ selAnchor = e.selAnchor /\ hasSel = e.hasSel
             /\ undoStack = e.undoStack /\ redoStack = e.redoStack
  BY DEF Init
<1>2. text \in Text
  BY EditorAssumption
<1>3. PICK t : Holds(Fresh(text), t) /\ t.past = << >> /\ t.future = << >>
  BY <1>2, FreshHolds
<1>4. Editor = Fresh(text)
  BY <1>1 DEF Editor, Fresh
<1>5. Texts(Fresh(text)) = t
  BY <1>3, TextsAre
<1> QED
  BY <1>3, <1>4, <1>5 DEF Remembered

\* Every operation keeps it, and makes a step of EditHistory or none.
LEMMA NextRemembers ==
    ASSUME Remembered, Next
    PROVE  Remembered' /\ HistoryStep(Texts(Editor), Texts(Editor'))
<1> DEFINE t == Texts(Editor)
<1>1. Holds(Editor, t)
  BY DEF Remembered
<1> HIDE DEF t
<1>2. Follows(t)
  BY <1>1, NextFollows
<1>3. PICK e2 : Becomes(e2) /\ Leads(e2, t)
  BY <1>2 DEF Follows
<1>4. PICK t2 : Holds(e2, t2) /\ HistoryStep(t, t2)
  BY <1>3 DEF Leads
<1>5. Editor' = e2
  <2>1. e2 \in EditorStates
    BY <1>4 DEF Holds
  <2> QED
    BY <1>3, <2>1, BecomesEditor
<1>6. Texts(e2) = t2
  BY <1>4, TextsAre
<1>7. Holds(Editor', Texts(Editor'))
  BY <1>4, <1>5, <1>6
<1> QED
  BY <1>4, <1>5, <1>6, <1>7 DEF Remembered, t

\* A stutter changes nothing.
LEMMA SameRemembers ==
    ASSUME Remembered, UNCHANGED vars
    PROVE  Remembered' /\ Editor' = Editor
<1>1. Editor' = Editor
  BY DEF vars, Editor
<1>2. Holds(Editor', Texts(Editor'))
  BY <1>1 DEF Remembered
<1> QED
  BY <1>1, <1>2 DEF Remembered

\* What follows from it.
LEMMA RememberedMeans ==
    ASSUME Remembered
    PROVE  CursorInText /\ RecordsBounded
<1> DEFINE t == Texts(Editor)
<1>1. Holds(Editor, t)
  BY DEF Remembered
<1> HIDE DEF t
<1>2. InLines(lines, cursor) /\ InLines(lines, selAnchor) /\ (hasSel <=> selAnchor # cursor)
      /\ Len(undoStack) + Len(redoStack) <= kMaxHistory
  BY <1>1, EditorFields DEF Holds
<1> QED
  BY <1>2 DEF CursorInText, InText, InLines, RecordsBounded

\* It is inductive.
LEMMA StepRemembers ==
    ASSUME Remembered, [Next]_vars
    PROVE  Remembered'
BY NextRemembers, SameRemembers

\* Whatever is typed, deleted, merged, undone and redone, in any document: each record still says what
\* its edit took out and put in, and where (pushUndo, applyReplaceTracked, undo, redo).
THEOREM AlwaysRemembered == Spec => []Remembered
<1>1. Init => Remembered
  BY InitRemembers
<1>2. Remembered /\ [Next]_vars => Remembered'
  BY StepRemembers
<1> QED
  BY <1>1, <1>2, PTL DEF Spec

\* Every operation leaves cursor and selection within the text, and a selection is never empty: the
\* next operation indexes the lines with them unchecked.
THEOREM CursorStays == Spec => []CursorInText
<1>1. Remembered => CursorInText
  BY RememberedMeans
<1> QED
  BY <1>1, AlwaysRemembered, PTL

\* The two stacks together never hold more than kMaxHistory records: redo pushes without looking at the
\* bound, which is safe only because each record it pushes was popped by undo (pushUndo, undo, redo).
THEOREM HistoryBounded == Spec => []RecordsBounded
<1>1. Remembered => RecordsBounded
  BY RememberedMeans
<1> QED
  BY <1>1, AlwaysRemembered, PTL

\* It, and the variable texts of MCEditorEngine is what it is defined to be.
Written == Remembered /\ texts = Texts(Editor)

\* It holds at first, as a first state of EditHistory.
LEMMA InitWritten ==
    ASSUME MCInit
    PROVE  Written /\ H!Init
BY InitRemembers DEF MCInit, Written, H!Init

\* What the lemmas call a step of EditHistory is one.
LEMMA MoveIsEdit ==
    ASSUME NEW t, NEW t2, HistoryStep(t, t2), texts = t, texts' = t2
    PROVE  [H!Next]_(H!history)
<1>1. CASE t2 = t
  BY <1>1 DEF H!history
<1>2. CASE t2.past = << >> /\ t2.future = << >>
  BY <1>2 DEF H!Next, H!Open
<1>3. CASE t2.future = << >> /\ Remembers(t.past, t.present, TRUE, t2.past)
  BY <1>3 DEF Remembers, H!Next, H!Edit
<1>4. CASE Corrects(t, t2)
  BY <1>4 DEF Corrects, H!Next, H!TypeAndCorrect
<1>5. CASE /\ t.past # << >> /\ t2.present = t.past[Len(t.past)] /\ t2.past = Pop(t.past)
           /\ t2.future = Append(t.future, t.present)
  BY <1>5 DEF Pop, H!Next, H!Undo
<1>6. CASE /\ t.future # << >> /\ t2.present = t.future[Len(t.future)] /\ t2.future = Pop(t.future)
           /\ t2.past = Append(t.past, t.present)
  BY <1>6 DEF Pop, H!Next, H!Redo
<1> QED
  BY <1>1, <1>2, <1>3, <1>4, <1>5, <1>6 DEF HistoryStep

\* It is inductive, and each step is one of EditHistory or a stutter.
LEMMA StepWritten ==
    ASSUME Written, [MCNext]_<<vars, texts>>
    PROVE  Written' /\ [H!Next]_(H!history)
<1>1. CASE MCNext
  <2>1. Next /\ texts' = Texts(Editor')
    BY <1>1 DEF MCNext
  <2>2. Remembered' /\ HistoryStep(texts, texts')
    BY <2>1, NextRemembers DEF Written
  <2>3. [H!Next]_(H!history)
    BY <2>2, MoveIsEdit
  <2> QED
    BY <2>1, <2>2, <2>3 DEF Written
<1>2. CASE UNCHANGED <<vars, texts>>
  <2>1. Remembered' /\ Editor' = Editor
    BY <1>2, SameRemembers DEF Written
  <2>2. UNCHANGED H!history
    BY <1>2 DEF H!history
  <2> QED
    BY <1>2, <2>1, <2>2 DEF Written
<1> QED
  BY <1>1, <1>2

\* The editor implements EditHistory: undo goes back through exactly the texts that were, and redo
\* through those undone, however records were merged, dropped or re-indented, for every alphabet, all
\* documents, keys and texts to paste, and every kMaxHistory (pushUndo, undo, redo).
THEOREM UndoIsExact == MCSpec => IsHistory
<1>1. MCInit => Written /\ H!Init
  BY InitWritten
<1>2. Written /\ [MCNext]_<<vars, texts>> => Written' /\ [H!Next]_(H!history)
  BY StepWritten
<1> QED
  BY <1>1, <1>2, PTL DEF MCSpec, IsHistory, H!Spec

=============================================================================
