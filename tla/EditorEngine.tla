----------------------------- MODULE EditorEngine -----------------------------
(***************************************************************************)
(* The text buffer of the code editor (app/src/main/cpp/editor/            *)
(* rin_editor_engine.cpp): the lines, the cursor and the selection, the    *)
(* edits, and the two stacks of records by which they are undone and       *)
(* redone.  A record holds only what an edit took out and put in, and      *)
(* where; consecutive ones are merged.  The editor of the IDE calls one    *)
(* operation at a time.                                                    *)
(*                                                                         *)
(* A text is a sequence of bytes, each a string; a position is a line,     *)
(* counted from 1, and the number of bytes before it on that line.  Of the *)
(* clock the engine only asks whether the last record is recent: "soon".   *)
(***************************************************************************)
EXTENDS Integers, Sequences

CONSTANTS
    Byte,         \* what texts are made of
    Opened,       \* texts of documents that are opened
    Keys,         \* what is typed, one insertText each
    Pasted,       \* what is put in the place of a range
    kMaxHistory,  \* records kept for undo
    MaxMoves      \* bound: operations other than undo and redo

VARIABLES
    lines,        \* lines_
    cursor,       \* cursor_
    selAnchor,    \* selAnchor_
    hasSel,       \* hasSel_
    undoStack,
    redoStack,
    moves         \* operations so far

vars == <<lines, cursor, selAnchor, hasSel, undoStack, redoStack, moves>>

Editor == [lines |-> lines, cursor |-> cursor, selAnchor |-> selAnchor, hasSel |-> hasSel,
           undoStack |-> undoStack, redoStack |-> redoStack]

(***************************************************************************)
(* Bytes that the engine, or the text it is given, tells apart.            *)
(***************************************************************************)
Newline == "\n"
Blank == {" ", "\t"}
CloserOf == [c \in {"(", "[", "{"} |-> CASE c = "(" -> ")" [] c = "[" -> "]" [] c = "{" -> "}"]
Closers == {")", "]", "}"}
Quotes == {"\"", "'"}
WordBytes == {"a", "b", "_"}
Indent == <<" ", " ", " ", " ">>
Slashes == <<"/", "/">>

Marks == {Newline, "/", "(", "[", "{"} \cup Blank \cup Closers \cup Quotes \cup WordBytes

Text == Seq(Byte)

ASSUME EditorAssumption ==
    /\ kMaxHistory \in Nat \ {0}
    /\ MaxMoves \in Nat
    /\ Opened # {}
    /\ Opened \cup Keys \cup Pasted \subseteq Text
    /\ Marks \subseteq Byte

splitLines(text) ==
    LET upTo[n \in 0..Len(text)] ==
            IF n = 0 THEN << << >> >>
            ELSE LET parts == upTo[n - 1]
                 IN  IF text[n] = Newline THEN Append(parts, << >>)
                     ELSE [parts EXCEPT ![Len(parts)] = Append(@, text[n])]
    IN  upTo[Len(text)]

(***************************************************************************)
(* getText.                                                                *)
(***************************************************************************)
Joined(ls) ==
    LET upTo[n \in 1..Len(ls)] == IF n = 1 THEN ls[1] ELSE upTo[n - 1] \o <<Newline>> \o ls[n]
    IN  upTo[Len(ls)]

Before(line, col) == SubSeq(line, 1, col)
After(line, col) == SubSeq(line, col + 1, Len(line))

leadingWhitespace(line) ==
    Before(line, CHOOSE n \in 0..Len(line) : /\ \A i \in 1..n : line[i] \in Blank
                                             /\ n = Len(line) \/ line[n + 1] \notin Blank)

OnlyBlank(line) == \A i \in DOMAIN line : line[i] \in Blank

----------------------------------------------------------------------------
(***************************************************************************)
(* Positions.                                                              *)
(***************************************************************************)
Least(a, b) == IF a < b THEN a ELSE b
Clamped(low, n, high) == IF n < low THEN low ELSE Least(n, high)

clampLine(ls, line) == Clamped(1, line, Len(ls))
clampCol(ls, line, col) == Clamped(0, col, Len(ls[clampLine(ls, line)]))
clampPosition(ls, p) == <<clampLine(ls, p[1]), clampCol(ls, p[1], p[2])>>

Precedes(p, q) == p[1] < q[1] \/ (p[1] = q[1] /\ p[2] <= q[2])

(***************************************************************************)
(* getSelection: the two ends in order.                                    *)
(***************************************************************************)
Selection(e) == IF Precedes(e.selAnchor, e.cursor) THEN <<e.selAnchor, e.cursor>>
                ELSE <<e.cursor, e.selAnchor>>

textOfRange(ls, p, q) ==
    IF p[1] = q[1] THEN SubSeq(ls[p[1]], p[2] + 1, q[2])
    ELSE Joined(<<After(ls[p[1]], p[2])>> \o SubSeq(ls, p[1] + 1, q[1] - 1)
                  \o <<Before(ls[q[1]], q[2])>>)

(***************************************************************************)
(* applyRawReplace: the lines with "text" in the place of the range, and   *)
(* where it then ends.                                                     *)
(***************************************************************************)
RawReplaced(ls, p, q, text) ==
    SubSeq(ls, 1, p[1] - 1)
      \o splitLines(Before(ls[p[1]], p[2]) \o text \o After(ls[q[1]], q[2]))
      \o SubSeq(ls, q[1] + 1, Len(ls))

EndOf(p, text) ==
    LET parts == splitLines(text)
    IN  IF Len(parts) = 1 THEN <<p[1], p[2] + Len(text)>>
        ELSE <<p[1] + Len(parts) - 1, Len(parts[Len(parts)])>>

----------------------------------------------------------------------------
(***************************************************************************)
(* Records.  "start" is shared; "origEnd" is where the removed text ended  *)
(* before the edit, "newEnd" where the inserted one ends after it.         *)
(***************************************************************************)

(***************************************************************************)
(* pushUndo's two ways to add a record to the one before it: typed         *)
(* characters that follow each other, and backspaces.                      *)
(***************************************************************************)
ContiguousTyping_Anywhere(top, rec) == top.removed = << >> /\ rec.removed = << >>

ContiguousTyping(top, rec) ==
    top.newEnd = rec.start /\ top.removed = << >> /\ rec.removed = << >>

ContiguousBackspace(top, rec) ==
    top.inserted = << >> /\ rec.inserted = << >> /\ rec.origEnd = top.start

Merged(top, rec) ==
    IF ContiguousTyping(top, rec)
    THEN [top EXCEPT !.inserted = @ \o rec.inserted, !.newEnd = rec.newEnd,
                     !.cursorAfter = rec.cursorAfter]
    ELSE [top EXCEPT !.removed = rec.removed \o @, !.start = rec.start,
                     !.newEnd = rec.start, !.cursorAfter = rec.cursorAfter]

Merges(stack, rec, soon) ==
    /\ soon /\ rec.coalescable /\ stack # << >>
    /\ LET top == stack[Len(stack)]
       IN  top.coalescable /\ (ContiguousTyping(top, rec) \/ ContiguousBackspace(top, rec))

pushUndo(stack, rec, soon) ==
    IF Merges(stack, rec, soon) THEN [stack EXCEPT ![Len(stack)] = Merged(@, rec)]
    ELSE IF Len(stack) = kMaxHistory THEN Tail(Append(stack, rec))
    ELSE Append(stack, rec)

(***************************************************************************)
(* applyReplaceTracked: every edit goes through it.  The range is clamped  *)
(* and put in order, the lines change, the record is pushed, and the       *)
(* cursor ends up after the new text.                                      *)
(***************************************************************************)
Replaced(e, a, b, text, coalescable, soon) ==
    LET ends == LET p == clampPosition(e.lines, a)
                    q == clampPosition(e.lines, b)
                IN  IF Precedes(p, q) THEN <<p, q>> ELSE <<q, p>>
        after == EndOf(ends[1], text)
        rec == [start |-> ends[1], origEnd |-> ends[2], newEnd |-> after,
                removed |-> textOfRange(e.lines, ends[1], ends[2]), inserted |-> text,
                cursorBefore |-> e.cursor, cursorAfter |-> after, coalescable |-> coalescable]
    IN  [lines |-> RawReplaced(e.lines, ends[1], ends[2], text),
         cursor |-> after, selAnchor |-> after, hasSel |-> FALSE,
         undoStack |-> pushUndo(e.undoStack, rec, soon), redoStack |-> << >>]

(***************************************************************************)
(* The cursor put somewhere without a selection.                           *)
(***************************************************************************)
At(e, p) == [e EXCEPT !.cursor = p, !.selAnchor = p]

Becomes(e) ==
    /\ lines' = e.lines
    /\ cursor' = e.cursor
    /\ selAnchor' = e.selAnchor
    /\ hasSel' = e.hasSel
    /\ undoStack' = e.undoStack
    /\ redoStack' = e.redoStack

Moves == moves < MaxMoves /\ moves' = moves + 1

(***************************************************************************)
(* The positions the editor asks for.  RinNativeEditor converts the        *)
(* columns of the screen to bytes, so they are never inside a character;   *)
(* a line above the first or below the last one is clamped.                *)
(***************************************************************************)
OnCharacter(line, col) == col \in DOMAIN line => line[col] # "hi"

Asked == {<<0, 0>>, <<Len(lines) + 1, 0>>}
           \cup UNION {{p \in {l} \X (0..Len(lines[l])) : OnCharacter(lines[l], p[2])} : l \in DOMAIN lines}

----------------------------------------------------------------------------
(***************************************************************************)
(* Opening, cursor and selection.                                          *)
(***************************************************************************)
Fresh(text) == [lines |-> splitLines(text), cursor |-> <<1, 0>>, selAnchor |-> <<1, 0>>,
                hasSel |-> FALSE, undoStack |-> << >>, redoStack |-> << >>]

setText ==
    /\ Moves
    /\ \E text \in Opened : Becomes(Fresh(text))

setCursor ==
    /\ Moves
    /\ \E asked \in Asked, extendSelection \in BOOLEAN :
         LET p == clampPosition(lines, asked)
             anchor == IF extendSelection THEN (IF hasSel THEN selAnchor ELSE cursor) ELSE p
         IN  Becomes([Editor EXCEPT !.cursor = p, !.selAnchor = anchor, !.hasSel = anchor # p])

setSelection ==
    /\ Moves
    /\ \E a, b \in Asked :
         LET p == clampPosition(lines, a)
             q == clampPosition(lines, b)
         IN  Becomes([Editor EXCEPT !.selAnchor = p, !.cursor = q, !.hasSel = p # q])

collapseSelectionToCursor ==
    /\ hasSel
    /\ Moves
    /\ Becomes([Editor EXCEPT !.selAnchor = cursor, !.hasSel = FALSE])

----------------------------------------------------------------------------
(***************************************************************************)
(* Typing.                                                                 *)
(***************************************************************************)
NextByte == IF cursor[2] < Len(lines[cursor[1]]) THEN lines[cursor[1]][cursor[2] + 1] ELSE "none"

(***************************************************************************)
(* Enter keeps the indentation of what is before the cursor, and adds to   *)
(* it after an opening brace.                                              *)
(***************************************************************************)
EndsInBrace(line) ==
    \E i \in DOMAIN line : line[i] = "{" /\ OnlyBlank(After(line, i))

NewLine ==
    LET before == Before(lines[cursor[1]], cursor[2])
    IN  <<Newline>> \o leadingWhitespace(before) \o (IF EndsInBrace(before) THEN Indent ELSE << >>)

(***************************************************************************)
(* A bracket or a quote that is there already is stepped over; an opening  *)
(* one brings its partner; anything else is typed as it is.                *)
(***************************************************************************)
StepsOver(c) == c \in Closers \cup Quotes /\ NextByte = c

Partner(c) == IF c \in DOMAIN CloserOf THEN CloserOf[c] ELSE c

Pairs(c) == c \in DOMAIN CloserOf \/ (c \in Quotes /\ NextByte \notin WordBytes)

(***************************************************************************)
(* applySmartDedentForClosingBrace: a brace that is alone on its line gets *)
(* the indentation of the line of the brace it closes.                     *)
(***************************************************************************)
Balance(text) == Len(SelectSeq(text, LAMBDA c : c = "{")) - Len(SelectSeq(text, LAMBDA c : c = "}"))

Dedented(e, soon) ==
    LET line == e.cursor[1]
        closeCol == e.cursor[2] - 1
        indent == Before(e.lines[line], closeCol)
        text == textOfRange(e.lines, <<1, 0>>, <<line, closeCol>>)
        opens == {i \in DOMAIN text : text[i] = "{" /\ Balance(After(text, i - 1)) = 1}
        openLine == Len(splitLines(Before(text, CHOOSE i \in opens : \A j \in opens : j <= i)))
    IN  IF OnlyBlank(indent) /\ opens # {} /\ leadingWhitespace(e.lines[openLine]) # indent
        THEN Replaced(e, <<line, 0>>, <<line, closeCol>>, leadingWhitespace(e.lines[openLine]), FALSE, soon)
        ELSE e

(***************************************************************************)
(* insertText with smart: one byte, at the cursor.                         *)
(***************************************************************************)
TypedByte(c, soon) ==
    IF StepsOver(c) THEN At(Editor, <<cursor[1], cursor[2] + 1>>)
    ELSE IF Pairs(c)
    THEN At(Replaced(Editor, cursor, cursor, <<c, Partner(c)>>, FALSE, soon), <<cursor[1], cursor[2] + 1>>)
    ELSE LET typed == Replaced(Editor, cursor, cursor, <<c>>, TRUE, soon)
         IN  IF c = "}" THEN Dedented(typed, soon) ELSE typed

insertText ==
    /\ Moves
    /\ \E text \in Keys, smart, soon \in BOOLEAN :
         Becomes(CASE hasSel ->
                        Replaced(Editor, Selection(Editor)[1], Selection(Editor)[2], text, FALSE, soon)
                   [] ~hasSel /\ smart /\ text = <<Newline>> ->
                        Replaced(Editor, cursor, cursor, NewLine, FALSE, soon)
                   [] ~hasSel /\ smart /\ Len(text) = 1 /\ text # <<Newline>> -> TypedByte(text[1], soon)
                   [] OTHER -> Replaced(Editor, cursor, cursor, text, FALSE, soon))

----------------------------------------------------------------------------
(***************************************************************************)
(* Deleting: the selection, a pair of brackets or quotes, one byte, or the *)
(* end of a line.                                                          *)
(***************************************************************************)
deleteSelection == Replaced(Editor, Selection(Editor)[1], Selection(Editor)[2], << >>, FALSE, FALSE)

IsPair(c, d) == (c \in DOMAIN CloserOf /\ CloserOf[c] = d) \/ (c \in Quotes /\ c = d)

BytesBack(soon) ==
    LET line == cursor[1]
        col == cursor[2]
    IN  IF col = 0 THEN Replaced(Editor, <<line - 1, Len(lines[line - 1])>>, cursor, << >>, FALSE, soon)
        ELSE IF IsPair(lines[line][col], NextByte)
        THEN Replaced(Editor, <<line, col - 1>>, <<line, col + 1>>, << >>, FALSE, soon)
        ELSE Replaced(Editor, <<line, col - 1>>, cursor, << >>, TRUE, soon)

deleteBackward ==
    /\ hasSel \/ cursor # <<1, 0>>
    /\ Moves
    /\ \E soon \in BOOLEAN : Becomes(IF hasSel THEN deleteSelection ELSE BytesBack(soon))

BytesForward(soon) ==
    LET line == cursor[1]
        col == cursor[2]
    IN  IF col = Len(lines[line]) THEN Replaced(Editor, cursor, <<line + 1, 0>>, << >>, FALSE, soon)
        ELSE Replaced(Editor, cursor, <<line, col + 1>>, << >>, TRUE, soon)

deleteForward ==
    /\ hasSel \/ cursor # <<Len(lines), Len(lines[Len(lines)])>>
    /\ Moves
    /\ \E soon \in BOOLEAN : Becomes(IF hasSel THEN deleteSelection ELSE BytesForward(soon))

replaceRange ==
    /\ Moves
    /\ \E a, b \in Asked, text \in Pasted : Becomes(Replaced(Editor, a, b, text, FALSE, FALSE))

----------------------------------------------------------------------------
(***************************************************************************)
(* Undo and redo put one record back and move it to the other stack.       *)
(***************************************************************************)
Top(stack) == stack[Len(stack)]
Pop(stack) == SubSeq(stack, 1, Len(stack) - 1)

Undone(ls, rec) == RawReplaced(ls, rec.start, rec.newEnd, rec.removed)
Redone(ls, rec) == RawReplaced(ls, rec.start, rec.origEnd, rec.inserted)

undo ==
    /\ undoStack # << >>
    /\ LET rec == Top(undoStack)
           ls == Undone(lines, rec)
           back == clampPosition(ls, rec.cursorBefore)
       IN  Becomes([lines |-> ls, cursor |-> back, selAnchor |-> rec.cursorBefore, hasSel |-> FALSE,
                    undoStack |-> Pop(undoStack), redoStack |-> Append(redoStack, rec)])
    /\ UNCHANGED moves

redo ==
    /\ redoStack # << >>
    /\ LET rec == Top(redoStack)
           ls == Redone(lines, rec)
           on == clampPosition(ls, rec.cursorAfter)
       IN  Becomes([lines |-> ls, cursor |-> on, selAnchor |-> rec.cursorAfter, hasSel |-> FALSE,
                    undoStack |-> Append(undoStack, rec), redoStack |-> Pop(redoStack)])
    /\ UNCHANGED moves

----------------------------------------------------------------------------
(***************************************************************************)
(* Whole lines.                                                            *)
(***************************************************************************)
duplicateCurrentLine ==
    /\ Moves
    /\ LET line == cursor[1]
           end == <<line, Len(lines[line])>>
       IN  Becomes(At(Replaced(Editor, end, end, <<Newline>> \o lines[line], FALSE, FALSE),
                      <<line + 1, cursor[2]>>))

LineDeleted_KeepsColumn == LET line == cursor[1] IN IF line < Len(lines) THEN At(Replaced(Editor, <<line, 0>>, <<line + 1, 0>>, << >>, FALSE, FALSE), cursor) ELSE Editor

LineDeleted ==
    LET line == cursor[1]
        end == <<line, Len(lines[line])>>
    IN  IF Len(lines) = 1 THEN At(Replaced(Editor, <<1, 0>>, end, << >>, FALSE, FALSE), <<1, 0>>)
        ELSE IF line < Len(lines)
        THEN At(Replaced(Editor, <<line, 0>>, <<line + 1, 0>>, << >>, FALSE, FALSE),
                <<line, Least(cursor[2], Len(lines[line + 1]))>>)
        ELSE LET prevEnd == <<line - 1, Len(lines[line - 1])>>
             IN  At(Replaced(Editor, prevEnd, end, << >>, FALSE, FALSE), prevEnd)

deleteCurrentLine ==
    /\ Moves
    /\ Becomes(LineDeleted)

(***************************************************************************)
(* moveLineUp and moveLineDown exchange two lines.                         *)
(***************************************************************************)
Exchanged(upper, to) ==
    At(Replaced(Editor, <<upper, 0>>, <<upper + 1, Len(lines[upper + 1])>>,
                lines[upper + 1] \o <<Newline>> \o lines[upper], FALSE, FALSE),
       <<to, cursor[2]>>)

moveLineUp ==
    /\ cursor[1] > 1
    /\ Moves
    /\ Becomes(Exchanged(cursor[1] - 1, cursor[1] - 1))

moveLineDown ==
    /\ cursor[1] < Len(lines)
    /\ Moves
    /\ Becomes(Exchanged(cursor[1], cursor[1] + 1))

(***************************************************************************)
(* The commands that rewrite the selected lines, or the cursor's.          *)
(***************************************************************************)
Rewritten(Rewrite(_)) ==
    LET ends == IF hasSel THEN Selection(Editor) ELSE <<cursor, cursor>>
        from == ends[1][1]
        to == ends[2][1]
    IN  Replaced(Editor, <<from, 0>>, <<to, Len(lines[to])>>,
                 Joined([i \in 1..(to - from + 1) |-> Rewrite(lines[from + i - 1])]), FALSE, FALSE)

SelectedLines == IF hasSel THEN Selection(Editor)[1][1]..Selection(Editor)[2][1] ELSE {cursor[1]}

IsComment(line) ==
    LET n == Len(leadingWhitespace(line)) IN SubSeq(line, n + 1, Least(n + 2, Len(line))) = Slashes

Commented(line) ==
    LET white == leadingWhitespace(line)
    IN  IF OnlyBlank(line) THEN line
        ELSE white \o Slashes \o <<" ">> \o After(line, Len(white))

Uncommented(line) ==
    LET white == leadingWhitespace(line)
        rest == After(line, Len(white) + 2)
    IN  IF OnlyBlank(line) THEN line
        ELSE white \o (IF rest # << >> /\ rest[1] = " " THEN Tail(rest) ELSE rest)

toggleLineComment ==
    /\ Moves
    /\ Becomes(IF \A l \in SelectedLines : OnlyBlank(lines[l]) \/ IsComment(lines[l])
               THEN Rewritten(Uncommented) ELSE Rewritten(Commented))

Indented(line) == IF line = << >> THEN line ELSE Indent \o line

indentSelection == Moves /\ Becomes(Rewritten(Indented))

(***************************************************************************)
(* Four blanks at most, or one tab.                                        *)
(***************************************************************************)
Unindented(line) ==
    IF line # << >> /\ line[1] = "\t" THEN Tail(line)
    ELSE After(line, CHOOSE n \in 0..Least(4, Len(line)) :
                       /\ \A i \in 1..n : line[i] = " "
                       /\ n = Least(4, Len(line)) \/ line[n + 1] # " ")

unindentSelection == Moves /\ Becomes(Rewritten(Unindented))

----------------------------------------------------------------------------
Init ==
    /\ moves = 0
    /\ \E text \in Opened :
         LET e == Fresh(text)
         IN  /\ lines = e.lines /\ cursor = e.cursor /\ selAnchor = e.selAnchor /\ hasSel = e.hasSel
             /\ undoStack = e.undoStack /\ redoStack = e.redoStack

Next ==
    \/ setText \/ setCursor \/ setSelection \/ collapseSelectionToCursor
    \/ insertText \/ deleteBackward \/ deleteForward \/ replaceRange
    \/ undo \/ redo
    \/ duplicateCurrentLine \/ deleteCurrentLine \/ moveLineUp \/ moveLineDown
    \/ toggleLineComment \/ indentSelection \/ unindentSelection

Spec == Init /\ [][Next]_vars

----------------------------------------------------------------------------
(***************************************************************************)
(* The texts that undoing, and redoing, one record after the other gives.  *)
(***************************************************************************)
Walked(Step(_, _), stack, ls) ==
    LET from[i \in 1..(Len(stack) + 1)] ==
            IF i > Len(stack) THEN ls ELSE Step(from[i + 1], stack[i])
    IN  [i \in DOMAIN stack |-> Joined(from[i])]

Texts(e) == [past |-> Walked(Undone, e.undoStack, e.lines), present |-> Joined(e.lines),
             future |-> Walked(Redone, e.redoStack, e.lines)]

(***************************************************************************)
(* Every operation leaves both ends of the selection within the text, and  *)
(* a selection is never empty: the lines are indexed with them unchecked   *)
(* by the next operation.                                                  *)
(***************************************************************************)
InText(p) == p[1] \in DOMAIN lines /\ p[2] \in 0..Len(lines[p[1]])

CursorInText == InText(cursor) /\ InText(selAnchor) /\ (hasSel <=> selAnchor # cursor)

(***************************************************************************)
(* rin_editor_engine.h:172-174: Backspace and Delete take one character.    *)
(* No operation of the engine leaves half of one.                          *)
(***************************************************************************)
WholeCharacters ==
    \A l \in DOMAIN lines : \A i \in 1..Len(lines[l]) :
        /\ lines[l][i] = "hi" => i < Len(lines[l]) /\ lines[l][i + 1] = "lo"
        /\ lines[l][i] = "lo" => i > 1 /\ lines[l][i - 1] = "hi"
=============================================================================
