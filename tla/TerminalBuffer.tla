--------------------------- MODULE TerminalBuffer ---------------------------
(***************************************************************************)
(* RinTerminalBuffer (RinTerminal.kt): the transcript all runs share.      *)
(* Every method of the class is @Synchronized, so each is one operator on  *)
(* the buffer's state.  Text is abstracted to WHO wrote it:                *)
(*   section   the run whose section is open (the last startJob that has   *)
(*             not been closed by finishJob), 0 when none is;              *)
(*   streamed  the runs whose chunks `streamed` has collected since the    *)
(*             section was opened;                                         *)
(*   partial   the runs with text on the line that has no '\n' yet.        *)
(* Completed lines, colours and the history of commands are left out.      *)
(***************************************************************************)
EXTENDS Naturals

NoSection == 0

EmptyBuffer == [section |-> NoSection, streamed |-> {}, partial |-> {}]

Buffers(Run) == [section : Run \cup {NoSection}, streamed : SUBSET Run, partial : SUBSET Run]

\* startJob: flush the unfinished line, forget what was streamed, open a section.
StartJob(t, j) == [section |-> j, streamed |-> {}, partial |-> {}]

\* onChunk: write the text and remember it as streamed.  `eol` tells whether
\* the chunk ends its line.
OnChunk(t, j, eol) ==
    [t EXCEPT !.streamed = @ \cup {j},
              !.partial  = IF eol THEN {} ELSE @ \cup {j}]

\* prompt: the question stays on the unfinished line, the answer completes it.
Prompt(t, j) == [t EXCEPT !.partial = @ \cup {j}]

\* answer: commits the question's line, with the text or with "^C".
Answer(t) == [t EXCEPT !.partial = {}]

\* clear: drops the lines and the unfinished one, but not `streamed`.
Clear(t) == [t EXCEPT !.partial = {}]

\* Mutant: finishJob forgets to reset `streamed`.
FinishJob_KeepsStreamed(t) == [t EXCEPT !.section = NoSection, !.partial = {}]

\* finishJob: flush, print what was not streamed, write the status line.
FinishJob(t) == [section |-> NoSection, streamed |-> {}, partial |-> {}]

\* finishJob prints the rest of `output` only if `output` starts with what was
\* streamed; text of another run among it makes that test fail (and text of
\* another run before a run that streamed nothing hides its whole output).
ShowsWholeOutput(t, j) == t.streamed \subseteq {j}
=============================================================================
