---------------------------- MODULE MCEditorEngine ----------------------------
(***************************************************************************)
(* Small documents and a few keys for EditorEngine.  "texts" is computed   *)
(* from the state of the engine and written down beside it, once a step:   *)
(* the refinement mapping is then a variable, which TLC need not compute   *)
(* again wherever EditHistory mentions it.                                 *)
(***************************************************************************)
EXTENDS EditorEngine

VARIABLE texts

MCInit == Init /\ texts = Texts(Editor)

MCNext == Next /\ \E e \in {Editor'} : texts' = Texts(e)

MCSpec == MCInit /\ [][MCNext]_<<vars, texts>>

H == INSTANCE EditHistory WITH
        MaxHistory <- kMaxHistory, Corrected <- {"}"},
        past <- texts.past, present <- texts.present, future <- texts.future

(***************************************************************************)
(* Whatever was typed, deleted, merged, moved or commented, undo goes back *)
(* through exactly the texts that were, and redo through those undone:     *)
(* records only hold differences and positions (pushUndo, undo, redo), and *)
(* one wrong end of one record would spoil every text before it.           *)
(***************************************************************************)
IsHistory == H!Spec

(* The bytes that the engine tells apart, and the two of a wide character. *)
Bytes == Marks \cup {"hi", "lo"}

(* A block to close, and two letters. *)
SmallTexts == {<<"{", "\n", " ">>, <<"a", "b">>}

SmallKeys == {<<"a">>, <<"{">>, <<"}">>, <<"'">>, <<"\n">>}

SmallPasted == {<<"b", "\n", "a">>}

(* A character of two bytes, on a line of its own. *)
WideTexts == {<<"a", "\n", "hi", "lo">>, <<"{", "hi", "lo", "}">>}

WideKeys == {<<"hi", "lo">>, <<"a">>}

WidePasted == {<<"hi", "lo">>}
=============================================================================
