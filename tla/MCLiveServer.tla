---------------------------- MODULE MCLiveServer ----------------------------
(***************************************************************************)
(* What the users of the preview do, for model checking LiveServer.        *)
(***************************************************************************)
EXTENDS LiveServer
CONSTANTS home, card

Do(cmd, page) == [cmd |-> cmd, to |-> page]
Visits == {<<Do("reload", home), Do("back", home)>>, <<Do("navigate", card), Do("back", home)>>}
Looks == {<<>>}
=============================================================================
