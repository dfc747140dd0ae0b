----------------------------- MODULE LiveServer -----------------------------
(***************************************************************************)
(* The live preview server of Indsin (rin_indsin_live.cpp) and the page    *)
(* that shows the preview (client/index.html).                             *)
(*                                                                         *)
(* A browser has a session of the engine on the server.  It sends one      *)
(* command at a time, each behind the one before (the promise `chain`),    *)
(* and shows the frame of each answer; frames that the                     *)
(* server makes by itself, when a file is saved or an editor pushes its    *)
(* buffer, wait in the client's queue for the thread of its event stream.  *)
(* Handlers hold g_mu from end to end: each is one step.  The watcher      *)
(* looks at the files without the lock and feeds the sessions in a second  *)
(* step.  A text is the number of the edit that wrote it.                  *)
(***************************************************************************)
EXTENDS Integers, Sequences, FiniteSets, SequencesExt

CONSTANTS
    Clients,     \* the browsers
    Pages,       \* source files a browser can show
    Imports,     \* files that pages import
    Entry,       \* g_entry
    MaxSaves,    \* bound: times a file is saved
    MaxPushes,   \* bound: buffers an editor pushes
    Scripts,     \* bounds: what the user of a browser does, one command after another
    MaxDrops,    \* bound: event streams that break
    Ordered,     \* what the server sends to a browser arrives in the order it was sent
    EarlySaves   \* files may be saved before the first look of the watcher

Commands == {"tap", "reload", "navigate", "replace", "back"}
Call(cmd) == [cmd |-> cmd, to |-> Entry]

ASSUME LiveServerAssumption ==
    /\ Entry \in Pages /\ Pages \cap Imports = {}
    /\ MaxSaves \in Nat /\ MaxPushes \in Nat /\ MaxDrops \in Nat
    /\ \A s \in Scripts : \A i \in DOMAIN s : s[i].cmd \in Commands /\ s[i].to \in Pages
    /\ Ordered \in BOOLEAN /\ EarlySaves \in BOOLEAN

VARIABLES
    file,      \* per file on disk: its text and how often it was written (mtime)
    buffer,    \* per page: the text an editor has pushed since the file was saved
    edits,     \* saves and pushes so far
    tracked,   \* g_tracked, the writes the watcher has seen; `first` before its first look
    changed,   \* files of the last look that are still to be fed
    docs,      \* g_docs
    client,    \* g_clients: the session of each browser, its queue and its stream generation
    stream,    \* threads in serveEvents, per browser and connection
    browser,   \* what each page knows, shows and waits for
    inbox      \* per browser: messages under way to it

vars == <<file, buffer, edits, tracked, changed, docs, client, stream, browser, inbox>>
disk == <<file, buffer, edits>>
watch == <<tracked, changed>>

Files == Pages \cup Imports
NoText == -1
Texts == 0 .. MaxSaves + MaxPushes
Conns == 1 .. 1 + 2 * MaxDrops   \* a break costs a new stream, and one more if the session was freed
Kinds == {"call", "open", "stream"}   \* what brings a message to a browser

NoClient == [live |-> FALSE, page |-> Entry, stack |-> <<>>, applied |-> NoText,
             read |-> [f \in Imports |-> 0], gen |-> 0, q |-> <<>>]
NoStream == [pc |-> "none", gen |-> 0]
Blank == [reason |-> "none", page |-> Entry, text |-> NoText]
NoSession == [Blank EXCEPT !.reason = "gone"]

Init ==
    /\ file = [f \in Files |-> [text |-> 0, writes |-> 0]]
    /\ buffer = [p \in Pages |-> NoText]
    /\ edits = [saves |-> 0, pushes |-> 0]
    /\ tracked = [first |-> TRUE, writes |-> [f \in Files |-> 0]]
    /\ changed = {}
    /\ docs = [p \in Pages |-> IF p = Entry THEN 0 ELSE NoText]
    /\ client = [c \in Clients |-> NoClient]
    /\ stream = [c \in Clients |-> [k \in Conns |-> NoStream]]
    /\ \E plan \in [Clients -> Scripts] :
          browser = [c \in Clients |->
             [need |-> "asked", es |-> 0, conns |-> 0, drops |-> 0, call |-> Call("none"),
              plan |-> plan[c], shown |-> Blank, timer |-> FALSE, lost |-> FALSE]]
    /\ inbox = [c \in Clients |-> <<>>]

(***************************************************************************)
(* Sessions and frames.                                                    *)
(***************************************************************************)
Frame(cl, reason) == [reason |-> reason, page |-> cl.page, text |-> cl.applied]

\* A new session runs the page, which reads its imports from the disk at that moment.  A hot
\* update parses the page and compares it with what is shown; it runs nothing, imports included.
StartSession(cl, text) == [cl EXCEPT !.applied = text, !.read = [f \in Imports |-> file[f].writes]]
HotApply(cl, text) == [cl EXCEPT !.applied = text]

\* Every caller lets its frame replace the last one: a queue holds one frame at most.
PushQ(cl, frame) == [cl EXCEPT !.q = <<frame>>]
Fed(cl, text, reason) == PushQ(HotApply(cl, text), Frame(HotApply(cl, text), reason))

\* getDoc(page, true)
Reread(p) == [docs EXCEPT ![p] = file[p].text]

(***************************************************************************)
(* The author: an editor, and whatever else writes files of the project.   *)
(***************************************************************************)
NewText == edits.saves + edits.pushes + 1

Save(f) ==
    /\ edits.saves < MaxSaves /\ (tracked.first => EarlySaves)
    /\ edits' = [edits EXCEPT !.saves = @ + 1]
    /\ \E text \in {NewText} \cup (IF f \in Pages THEN {buffer[f]} \ {NoText} ELSE {}) :
          file' = [file EXCEPT ![f] = [text |-> text, writes |-> @.writes + 1]]
    /\ buffer' = [p \in Pages |-> IF p = f THEN NoText ELSE buffer[p]]
    /\ UNCHANGED <<watch, docs, client, stream, browser, inbox>>

\* The command "source": the text goes to every session on that page.
PushBuffer(p) ==
    /\ edits.pushes < MaxPushes
    /\ edits' = [edits EXCEPT !.pushes = @ + 1]
    /\ buffer' = [buffer EXCEPT ![p] = NewText]
    /\ docs' = [docs EXCEPT ![p] = NewText]
    /\ client' = [c \in Clients |->
          IF client[c].live /\ client[c].page = p THEN Fed(client[c], NewText, "edit") ELSE client[c]]
    /\ UNCHANGED <<file, watch, stream, browser, inbox>>

(***************************************************************************)
(* The watcher.  Its first look only remembers what it sees.               *)
(***************************************************************************)
Seen == [f \in Files |-> file[f].writes]

Scan ==
    /\ changed = {} /\ (tracked.first \/ tracked.writes # Seen)
    /\ changed' = IF tracked.first THEN {} ELSE {f \in Files : tracked.writes[f] # Seen[f]}
    /\ tracked' = [first |-> FALSE, writes |-> Seen]
    /\ UNCHANGED <<disk, docs, client, stream, browser, inbox>>

\* The documents that changed are read again ...
Refreshed_NotRead == docs
Refreshed == [p \in Pages |-> IF p \in changed /\ docs[p] # NoText THEN file[p].text ELSE docs[p]]

\* ... and a session is left alone only if its own page changed into what it shows already.
Refeeds(cl) == ~(cl.page \in changed /\ Refreshed[cl.page] = cl.applied)

Feed ==
    /\ changed # {}
    /\ changed' = {}
    /\ docs' = Refreshed
    /\ client' = [c \in Clients |->
          IF client[c].live /\ Refeeds(client[c])
          THEN Fed(client[c], Refreshed[client[c].page], "file") ELSE client[c]]
    /\ UNCHANGED <<disk, tracked, stream, browser, inbox>>

(***************************************************************************)
(* Commands of a browser.                                                  *)
(***************************************************************************)
Post(c, via, frame) == inbox' = [inbox EXCEPT ![c] = Append(@, [via |-> via, frame |-> frame])]

\* The page sends the next command when the last one is answered.
Free(b) == b.call.cmd = "none"

\* The request to open goes behind the command under way; commands go beside it.
SendOpen(c) ==
    /\ browser[c].need = "open" /\ Free(browser[c])
    /\ browser' = [browser EXCEPT ![c].need = "asked"]
    /\ UNCHANGED <<disk, watch, docs, client, stream, inbox>>

\* "open" makes the client when it is new; it keeps queue and generation of one that is there.
Open(c) ==
    /\ browser[c].need = "asked"
    /\ browser' = [browser EXCEPT ![c].need = "opening", ![c].lost = FALSE]
    /\ docs' = Reread(Entry)
    /\ \E cl \in {StartSession([client[c] EXCEPT !.live = TRUE, !.page = Entry, !.stack = <<>>],
                               file[Entry].text)} :
          client' = [client EXCEPT ![c] = cl] /\ Post(c, "open", Frame(cl, "open"))
    /\ UNCHANGED <<disk, watch, stream>>

Tick(c) ==
    /\ browser[c].timer /\ Free(browser[c]) /\ browser[c].need \notin {"asked", "opening"}
    /\ browser' = [browser EXCEPT ![c].call = Call("tick"), ![c].timer = FALSE]
    /\ UNCHANGED <<disk, watch, docs, client, stream, inbox>>

\* The button that reloads works before anything is shown.
Command(c) ==
    /\ browser[c].plan # <<>> /\ Free(browser[c])
    /\ browser[c].shown # Blank \/ Head(browser[c].plan).cmd = "reload"
    /\ browser' = [browser EXCEPT ![c].call = Head(browser[c].plan), ![c].plan = Tail(@)]
    /\ UNCHANGED <<disk, watch, docs, client, stream, inbox>>

Asked(c, cmds) == browser[c].call.cmd \in cmds

\* An answer tells the present state: it makes good for frames that were lost before.
Handled(c, cl, reason) ==
    /\ client' = [client EXCEPT ![c] = cl]
    /\ Post(c, "call", Frame(cl, reason))
    /\ browser' = [browser EXCEPT ![c].call = Call("answered"), ![c].lost = FALSE]
    /\ UNCHANGED <<disk, watch, stream>>

\* 410.
Gone(c) ==
    /\ Asked(c, Commands \cup {"tick"}) /\ ~client[c].live
    /\ Post(c, "call", NoSession)
    /\ browser' = [browser EXCEPT ![c].call = Call("answered")]
    /\ UNCHANGED <<disk, watch, docs, client, stream>>

Render(c) ==
    /\ Asked(c, {"tap", "tick"}) /\ client[c].live
    /\ Handled(c, client[c], browser[c].call.cmd) /\ docs' = docs

Reload(c) ==
    /\ Asked(c, {"reload"}) /\ client[c].live
    /\ docs' = Reread(client[c].page)
    /\ Handled(c, StartSession(client[c], file[client[c].page].text), "reload")

Navigate(c, p) ==
    /\ Asked(c, {"navigate", "replace"}) /\ browser[c].call.to = p /\ client[c].live
    /\ docs' = Reread(p)
    /\ Handled(c, StartSession([client[c] EXCEPT !.page = p,
                    !.stack = IF Asked(c, {"navigate"}) THEN Append(@, client[c].page) ELSE @],
                    file[p].text), "navigate")

\* A document that is known already is not read again on the way back.
Back(c) ==
    /\ Asked(c, {"back"}) /\ client[c].live /\ client[c].stack # <<>>
    /\ docs' = docs
    /\ Handled(c, StartSession([client[c] EXCEPT !.page = Last(client[c].stack), !.stack = Front(@)],
                    docs[Last(client[c].stack)]), "navigate")

\* 409: there is no history, and the page shows nothing new.
NoHistory(c) ==
    /\ Asked(c, {"back"}) /\ client[c].live /\ client[c].stack = <<>>
    /\ browser' = [browser EXCEPT ![c].call = Call("none")]
    /\ UNCHANGED <<disk, watch, docs, client, stream, inbox>>

(***************************************************************************)
(* Event streams.                                                          *)
(***************************************************************************)
Connect(c) ==
    /\ browser[c].need \in {"connect", "reconnect"}
    /\ IF client[c].live
       THEN \E k \in {browser[c].conns + 1}, g \in {client[c].gen + 1} :
               /\ client' = [client EXCEPT ![c].gen = g]
               /\ stream' = [stream EXCEPT ![c][k] = [pc |-> "wait", gen |-> g]]
               /\ browser' = [browser EXCEPT ![c].need = "none", ![c].es = k, ![c].conns = k]
       ELSE browser' = [browser EXCEPT ![c].need = "open"] /\ UNCHANGED <<client, stream>>
    /\ UNCHANGED <<disk, watch, docs, inbox>>

Superseded_Never(c, k) == FALSE
Superseded(c, k) == client[c].gen # stream[c][k].gen

\* The thread wakes for a frame, a connection that takes over, or after 12 seconds.  It takes all
\* frames and sends them; what it sends to a browser that has gone is lost, and may be refused.
Ends(c, k) ==
    /\ stream[c][k].pc = "wait" /\ Superseded(c, k)
    /\ stream' = [stream EXCEPT ![c][k].pc = "over"]
    /\ UNCHANGED <<disk, watch, docs, client, browser, inbox>>

Drain(c, k) ==
    /\ stream[c][k].pc = "wait" /\ ~Superseded(c, k) /\ client[c].q # <<>>
    /\ client' = [client EXCEPT ![c].q = <<>>]
    /\ \/ /\ browser[c].es = k
          /\ Post(c, "stream", client[c].q[1])
          /\ UNCHANGED <<stream, browser>>
       \/ /\ browser[c].es # k
          /\ \E pc \in {"wait", "over"} : stream' = [stream EXCEPT ![c][k].pc = pc]
          /\ browser' = [browser EXCEPT ![c].lost = TRUE]
          /\ UNCHANGED inbox
    /\ UNCHANGED <<disk, watch, docs>>

\* A ping may show the thread that the browser has gone; else it changes nothing.
Ping(c, k) ==
    /\ stream[c][k].pc = "wait" /\ ~Superseded(c, k) /\ client[c].q = <<>> /\ browser[c].es # k
    /\ stream' = [stream EXCEPT ![c][k].pc = "over"]
    /\ UNCHANGED <<disk, watch, docs, client, browser, inbox>>

OffStream(msgs) == SelectSeq(msgs, LAMBDA m : m.via # "stream")

\* The connection breaks; an EventSource then connects again by itself.
Drop(c) ==
    /\ browser[c].es # 0 /\ browser[c].need = "none" /\ browser[c].drops < MaxDrops
    /\ browser' = [browser EXCEPT ![c].es = 0, ![c].need = "reconnect", ![c].drops = @ + 1,
                       ![c].lost = @ \/ OffStream(inbox[c]) # inbox[c]]
    /\ inbox' = [inbox EXCEPT ![c] = OffStream(@)]
    /\ UNCHANGED <<disk, watch, docs, client, stream>>

\* gcLoop frees a client that nothing has asked for in 15 minutes.
Collect(c) ==
    /\ client[c].live /\ browser[c].need = "reconnect"
    /\ browser[c].call = Call("none") /\ inbox[c] = <<>>
    /\ \A k \in Conns : stream[c][k].pc \in {"none", "over"}
    /\ client' = [client EXCEPT ![c] = NoClient]
    /\ UNCHANGED <<disk, watch, docs, stream, browser, inbox>>

(***************************************************************************)
(* The page: it shows a frame, and asks for one more a second after frames *)
(* that may be overtaken.  Pages that animate ask all the time: left out.  *)
(***************************************************************************)
Rearms_OnOpen == {"open", "navigate", "reload"}
Rearms == {"open", "file", "edit", "navigate", "reload"}

\* A command whose answer is 410 is over when a session is open again, and the request for one
\* waits in the chain for that command to be over: nothing is ever sent again.
AfterCall(b, m) ==
    IF m.via = "call" THEN Call(IF m.frame = NoSession THEN "stuck" ELSE "none") ELSE b.call
OnFrame(b, m) == [b EXCEPT !.shown = m.frame, !.timer = m.frame.reason \in Rearms]

\* The answer to "open" closes the old stream, with what is still under way in it.
OnOpen(b, m, rest) ==
    [OnFrame(b, m) EXCEPT !.need = "connect", !.es = 0, !.lost = @ \/ OffStream(rest) # rest]
OnMessage(b, m, rest) ==
    IF m.frame = NoSession THEN b
    ELSE IF m.via = "open" THEN OnOpen(b, m, rest) ELSE OnFrame(b, m)

Deliver(c, via) ==
    \E i \in DOMAIN inbox[c] :
       /\ inbox[c][i].via = via
       /\ \A j \in 1 .. i - 1 : ~Ordered /\ inbox[c][j].via # via
       /\ \E m \in {inbox[c][i]}, rest \in {RemoveAt(inbox[c], i)} :
             /\ inbox' = [inbox EXCEPT ![c] = IF via = "open" THEN OffStream(rest) ELSE rest]
             /\ browser' = [browser EXCEPT ![c] = [OnMessage(@, m, rest) EXCEPT !.call = AfterCall(browser[c], m)]]
       /\ UNCHANGED <<disk, watch, docs, client, stream>>

(***************************************************************************)
(* Specification.  The author, the user and the network owe nothing; the   *)
(* threads of the server run (a stream wakes at least every 12 seconds),   *)
(* messages arrive, and the page does what its timers and callbacks tell   *)
(* it.  That a ping finds out about a broken connection is not assumed.    *)
(***************************************************************************)
Serve(c) ==
    \/ Gone(c) \/ Render(c) \/ Reload(c) \/ (\E p \in Pages : Navigate(c, p))
    \/ Back(c) \/ NoHistory(c)

Next ==
    \/ \E f \in Files : Save(f)
    \/ \E p \in Pages : PushBuffer(p)
    \/ Scan \/ Feed
    \/ \E c \in Clients :
          \/ SendOpen(c) \/ Open(c) \/ Tick(c) \/ Command(c) \/ Serve(c)
          \/ Connect(c) \/ Drop(c) \/ Collect(c)
          \/ \E k \in Conns : Ends(c, k) \/ Drain(c, k) \/ Ping(c, k)
          \/ \E via \in Kinds : Deliver(c, via)

Spec == Init /\ [][Next]_vars

ClientFairness(c) ==
    /\ WF_vars(SendOpen(c)) /\ WF_vars(Open(c)) /\ WF_vars(Connect(c)) /\ WF_vars(Tick(c)) /\ WF_vars(Serve(c))
    /\ \A k \in Conns : WF_vars(Ends(c, k)) /\ WF_vars(Drain(c, k))
    /\ \A via \in Kinds : WF_vars(Deliver(c, via))
Fairness == WF_vars(Scan) /\ WF_vars(Feed) /\ \A c \in Clients : ClientFairness(c)
FairSpec == Spec /\ Fairness

(***************************************************************************)
(* Properties.                                                             *)
(***************************************************************************)
TypeOK ==
    /\ file \in [Files -> [text : Texts, writes : 0 .. MaxSaves]]
    /\ buffer \in [Pages -> Texts \cup {NoText}] /\ docs \in [Pages -> Texts \cup {NoText}]
    /\ changed \subseteq Files
    /\ \A c \in Clients : /\ client[c].page \in Pages /\ client[c].gen \in {0} \cup Conns
                           /\ Len(client[c].q) <= 1 /\ browser[c].es \in {0} \cup Conns

\* Out of step for good: a frame went into a broken connection and the page has asked for nothing
\* since, or a command was answered 410 and the page asks for nothing any more.
Stuck(c) == browser[c].call.cmd = "stuck"
OutOfStep(c) == browser[c].lost \/ Stuck(c)

\* Once the author stops, every browser that is not out of step comes to show what is saved, or
\* what the editor has pushed since: whatever saves, pushes, page changes and reconnects went
\* before, a session that was freed and opened again included, and in whatever order the frames
\* that were made before the last one come out of the queue (handleApi, watcherLoop,
\* scheduleTick).
Fresh(c) == browser[c].shown.text \in {file[browser[c].shown.page].text, buffer[browser[c].shown.page]}
SavedIsShown == \A c \in Clients : <>[](OutOfStep(c) \/ Fresh(c))

\* What docs/indsin_live_preview.md:27 says of a saved file, for every browser that has lost no
\* frame, those whose session was freed in the meantime included (api, openSession, gcLoop).
SavedReachesAll == \A c \in Clients : <>[](browser[c].lost \/ Fresh(c))

\* The page a browser shows comes to be the page its taps go to, though a frame of the page it
\* has left may still wait in the queue and be shown on top of the new one, unless it is out of
\* step (handleApi, pushQ).
PageIsShown ==
    \A c \in Clients : <>[](OutOfStep(c) \/ browser[c].shown.page = client[c].page)

\* The thread of a connection that the browser has given up ends, though nothing tells it that the
\* connection is broken or that another one has taken its place (serveEvents).
OldStreamsEnd ==
    \A c \in Clients : <>[](\A k \in Conns : stream[c][k].pc = "wait" => browser[c].es = k)

\* "ANY tracked file change re-feeds the current page (re-parse resolves @import again)": when the
\* watcher has dealt with what it saw, every session has read every import as it was then, or as
\* it is now (watcherLoop, hotApply).
ImportsFed ==
    (changed = {} /\ ~tracked.first) =>
       \A c \in Clients, f \in Imports : client[c].live => client[c].read[f] >= tracked.writes[f]
=============================================================================
