----------------------------- MODULE EditHistory -----------------------------
(***************************************************************************)
(* What somebody who edits relies on: the document is the present one of a *)
(* sequence of texts, undo and redo walk along it, and an edit forgets the *)
(* texts undone before it.  No record of an edit, no position, no merging  *)
(* of records: only texts.                                                 *)
(***************************************************************************)
EXTENDS Integers, Sequences

CONSTANTS MaxHistory,  \* how many edits can be undone
          Corrected    \* characters the engine may re-indent as they are typed

VARIABLES past,        \* the texts undo goes back to, the nearest one last
          present,
          future       \* the texts redo goes on to, the nearest one last

history == <<past, present, future>>

Init == past = << >> /\ future = << >>

(***************************************************************************)
(* A document is opened: nothing can be undone.                            *)
(***************************************************************************)
Open == past' = << >> /\ future' = << >>

Newest(texts) == IF Len(texts) > MaxHistory THEN Tail(texts) ELSE texts

(***************************************************************************)
(* An edit is undone by itself, or together with the edit before it.       *)
(***************************************************************************)
Edit ==
    /\ future' = << >>
    /\ \/ past' = Newest(Append(past, present))
       \/ past # << >> /\ past' = past

(***************************************************************************)
(* A character is typed and its line re-indented: the text in between has  *)
(* the character and is otherwise the present one.                         *)
(***************************************************************************)
TypeAndCorrect ==
    /\ future' = << >>
    /\ \E i \in 0..Len(present), c \in Corrected :
         LET typed == SubSeq(present, 1, i) \o <<c>> \o SubSeq(present, i + 1, Len(present))
         IN  \/ past' = Newest(Append(Newest(Append(past, present)), typed))
             \/ past # << >> /\ past' = Newest(Append(past, typed))

Undo ==
    /\ past # << >>
    /\ present' = past[Len(past)]
    /\ past' = SubSeq(past, 1, Len(past) - 1)
    /\ future' = Append(future, present)

Redo ==
    /\ future # << >>
    /\ present' = future[Len(future)]
    /\ future' = SubSeq(future, 1, Len(future) - 1)
    /\ past' = Append(past, present)

Next == Open \/ Edit \/ TypeAndCorrect \/ Undo \/ Redo

Spec == Init /\ [][Next]_history
=============================================================================
