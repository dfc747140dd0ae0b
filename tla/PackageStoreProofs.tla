------------------------- MODULE PackageStoreProofs -------------------------
(***************************************************************************)
(* Proofs about the store of the package manager, for any number of        *)
(* shells, versions, files and publications, whatever the archives hold.   *)
(*                                                                         *)
(* StoreInv of PackageStore is inductive. Its parts are kept one by one:   *)
(* the types with AtWork, what every file may hold (OnlyPublished), the    *)
(* import file where nobody purges (EntryStays), what a single publisher   *)
(* announces (AsPublished), what it and a single installer know of each    *)
(* other (Unheard, AsAnnounced, PassesWhole), and what an undisturbed      *)
(* install relies on where there is one installer (SteadyInv).             *)
(***************************************************************************)
EXTENDS PackageStore, TLAPS

-----------------------------------------------------------------------------
(* Types                                                                   *)

\* What the shells run is fixed with their scenes.
LEMMA ScenesFixed ==
    ASSUME [Next]_vars
    PROVE  scene' = scene /\ \A commands : All(commands)' = All(commands)
<1>1. scene' = scene
  <2>1. ASSUME NEW s \in Shells, \/ Begin(s) \/ Kill(s) \/ Resolve(s) \/ Check(s) \/ Download(s)
                                  \/ Store(s) \/ Verify(s) \/ Open(s) \/ OpenFile(s) \/ WriteFile(s)
                                  \/ OpenSum(s)
        PROVE  scene' = scene
    BY <2>1 DEF Begin, Kill, Resolve, Check, Download, Store, Verify, Open, OpenFile, WriteFile, OpenSum
  <2>2. ASSUME NEW s \in Shells, \/ WriteSum(s) \/ OpenLock(s) \/ WriteLock(s) \/ OpenArchive(s)
                                  \/ WriteArchive(s) \/ OpenMeta(s) \/ WriteMeta(s) \/ CleanOne(s)
                                  \/ Cleaned(s) \/ PurgeOne(s) \/ Purged(s)
        PROVE  scene' = scene
    BY <2>2 DEF WriteSum, OpenLock, WriteLock, OpenArchive, WriteArchive, OpenMeta, WriteMeta, CleanOne,
       Cleaned, PurgeOne, Purged
  <2> QED
    BY <2>1, <2>2, Zenon DEF Next, vars
<1> QED
  BY <1>1 DEF All

\* The command a shell is given is one of its scene.
LEMMA GivenKnown ==
    ASSUME TypeOK, NEW s \in Shells, ran[s] < Len(scene[s])
    PROVE  Given(s) \in Commands /\ \A commands : Given(s) \in commands => s \in All(commands)
<1>1. ran[s] + 1 \in DOMAIN scene[s] /\ scene[s] \in Seq(Commands)
  BY DEF TypeOK
<1>2. Given(s) \in ToSet(scene[s]) /\ Given(s) \in Commands
  BY <1>1 DEF Given, ToSet
<1> QED
  BY <1>2 DEF All

\* Every state a step puts a shell in is one of its states.
LEMMA Moves ==
    ASSUME NEW r \in ShellState, NEW p \in Places, NEW c \in File(Contents)
    PROVE  /\ [r EXCEPT !.pc = p] \in ShellState
           /\ [r EXCEPT !.pc = p, !.held = c] \in ShellState
           /\ [r EXCEPT !.pc = p, !.sum = c] \in ShellState
           /\ [r EXCEPT !.steady = FALSE] \in ShellState
           /\ \A files \in Seq(Files) :
                 /\ [r EXCEPT !.pc = p, !.held = c, !.todo = files] \in ShellState
                 /\ [r EXCEPT !.pc = p, !.todo = files] \in ShellState
           /\ \A v \in Versions, steady \in BOOLEAN :
                 [r EXCEPT !.pc = p, !.v = v, !.want = c, !.steady = steady] \in ShellState
BY DEF ShellState

\* A shell at rest is in one of its states.
LEMMA IdleState == \A last \in {"none", "ok", "failed"} : Idle(last) \in ShellState
<1>1. Absent \in File(Contents) /\ Absent \in File(Versions) /\ "idle" \in Places
  BY DEF File, Places
<1>2. Absent = 0 /\ <<>> \in Seq(Files)
  BY DEF Absent
<1> QED
  BY <1>1, <1>2 DEF Idle, ShellState

\* At first no file holds anything and every shell is at rest.
LEMMA InitType == Init => TypeOK
<1> SUFFICES ASSUME Init PROVE TypeOK
  OBVIOUS
<1>1. shell \in [Shells -> ShellState]
  BY IdleState DEF Init
<1>2. scene \in [Shells -> Seq(Commands)] /\ ran \in [Shells -> Nat] /\ blind \in BOOLEAN
      /\ published \in [Versions -> Seq(Contents)]
  <2>1. scene \in Scenes /\ Scenes \subseteq [Shells -> Seq(Commands)]
    BY StoreAssumption DEF Init
  <2>2. <<>> \in Seq(Contents)
    OBVIOUS
  <2> QED
    BY <2>1, <2>2 DEF Init
<1>3. Absent \in File(Contents) /\ Absent \in File(Versions)
  BY DEF File
<1>4. /\ reg \in [Versions -> [archive : File(Contents), meta : File(Contents)]]
      /\ cache \in [Versions -> File(Contents)] /\ lock \in [Shells -> File(Versions)]
  BY <1>3 DEF Init
<1>5. inst \in [Versions -> [files : [Files -> File(Contents)], sum : File(Contents)]]
  <2>1. [f \in Files |-> Absent] \in [Files -> File(Contents)]
    BY <1>3
  <2> QED
    BY <1>3, <2>1 DEF Init
<1> QED
  BY <1>1, <1>2, <1>4, <1>5 DEF TypeOK

\* At first nobody is at work.
LEMMA InitAtWork == Init => AtWork
<1> SUFFICES ASSUME Init, NEW s \in Shells
             PROVE  shell[s].pc = "idle" /\ shell[s].cmd = "none"
  BY DEF AtWork, Installing, Unpacking, Publishing
<1> QED
  BY DEF Init, Idle

\* The shell a step leaves alone is in a state of its type, and so is the one
\* that takes it when its new state is.
LEMMA ShellType ==
    ASSUME TypeOK, NEW s \in Shells, NEW r \in ShellState,
           shell' = [shell EXCEPT ![s] = r]
    PROVE  shell' \in [Shells -> ShellState']
<1>1. ShellState' = ShellState
  BY DEF ShellState
<1> HIDE DEF ShellState
<1> QED
  BY <1>1 DEF TypeOK

\* Each step of an install keeps the types.
LEMMA InstallType ==
    ASSUME TypeOK, AtWork, NEW s \in Shells,
           Resolve(s) \/ Check(s) \/ Download(s) \/ Store(s) \/ Verify(s) \/ Open(s)
           \/ OpenFile(s) \/ WriteFile(s) \/ OpenSum(s) \/ WriteSum(s) \/ OpenLock(s) \/ WriteLock(s)
    PROVE  TypeOK'
<1>1. shell[s] \in ShellState /\ published' = published /\ shell \in [Shells -> ShellState]
      /\ UNCHANGED <<scene, ran, reg, published>>
  BY DEF TypeOK, Resolve, Check, Download, Store, Verify, Open, OpenFile, WriteFile, OpenSum, WriteSum, OpenLock,
     WriteLock
<1>2. /\ shell[s].want \in File(Contents) /\ shell[s].sum \in File(Contents)
      /\ shell[s].held \in File(Contents) /\ shell[s].todo \in Seq(Files)
      /\ shell[s].had \in File(Versions) /\ shell[s].steady \in BOOLEAN
  BY <1>1 DEF ShellState
<1>3. shell[s].pc \in Installing => V(s) \in Versions
  BY DEF AtWork
<1>4. \A r \in ShellState : shell' = [shell EXCEPT ![s] = r] => shell' \in [Shells -> ShellState']
  BY <1>1, ShellType
<1>5. Installing \subseteq Places /\ \A last \in {"none", "ok", "failed"} : Idle(last) \in ShellState
  BY IdleState DEF Places
<1>6. ASSUME Fail(s) PROVE shell' \in [Shells -> ShellState']
  BY <1>1, <1>4, <1>5, <1>6 DEF Fail
<1>7. ASSUME NEW p \in Installing, Go(s, p) PROVE shell' \in [Shells -> ShellState']
  <2>1. [shell[s] EXCEPT !.pc = p] \in ShellState /\ shell' = [shell EXCEPT ![s] = [shell[s] EXCEPT !.pc = p]]
    BY <1>1, <1>2, <1>5, <1>7, Moves DEF Go
  <2> QED
    BY <1>4, <2>1
<1>8. CASE Resolve(s)
  <2>1. ASSUME ~Fail(s) PROVE shell' \in [Shells -> ShellState']
    <3>1. PICK v \in Versions : shell' = [shell EXCEPT ![s].pc = "check", ![s].v = v, ![s].want = reg[v].meta,
                                              ![s].steady = Whole(v)]
      BY <1>8, <2>1 DEF Resolve, Available
    <3>2. reg[v].meta \in File(Contents) /\ Whole(v) \in BOOLEAN /\ "check" \in Places
      BY <1>5 DEF TypeOK, Installing, Whole
    <3>3. [shell[s] EXCEPT !.pc = "check", !.v = v, !.want = reg[v].meta, !.steady = Whole(v)] \in ShellState
      BY <1>1, <3>2, Moves
    <3>4. shell' = [shell EXCEPT ![s] = [shell[s] EXCEPT !.pc = "check", !.v = v, !.want = reg[v].meta, !.steady = Whole(v)]]
      BY <1>1, <3>1
    <3> QED
      BY <1>4, <3>3, <3>4
  <2> QED
    BY <1>1, <1>6, <1>8, <2>1 DEF Resolve, TypeOK
<1>9. CASE Check(s)
  <2>1. shell' \in [Shells -> ShellState']
    BY <1>4, <1>5, <1>7, <1>9 DEF Check, Installing
  <2> QED
    BY <1>1, <1>9, <2>1 DEF Check, TypeOK
<1>10. CASE Download(s)
  <2>0. V(s) \in Versions /\ Blank \in File(Contents)
    BY <1>3, <1>10 DEF Download, At, Installing, File
  <2>1. reg[V(s)].archive \in File(Contents) /\ "store" \in Places
    BY <1>5, <2>0 DEF TypeOK, Installing
  <2>2. shell' = [shell EXCEPT ![s] = [shell[s] EXCEPT !.pc = "store", !.held = reg[V(s)].archive]]
    BY <1>1, <1>10 DEF Download
  <2>3. shell' \in [Shells -> ShellState']
    BY <1>1, <1>4, <2>1, <2>2, Moves
  <2> QED
    BY <1>1, <1>10, <2>0, <2>3 DEF Download, TypeOK
<1>11. CASE Store(s)
  <2>0. V(s) \in Versions
    BY <1>3, <1>11 DEF Store, At, Installing
  <2>1. shell' \in [Shells -> ShellState']
    BY <1>7, <1>11 DEF Store, Installing
  <2> QED
    BY <1>1, <1>2, <1>11, <2>0, <2>1 DEF Store, TypeOK
<1>12. CASE Verify(s)
  <2>0. V(s) \in Versions /\ Absent \in File(Contents) /\ "open" \in Places
    BY <1>3, <1>5, <1>12 DEF Verify, At, Installing, File
  <2>1. ASSUME ~Fail(s) PROVE shell' \in [Shells -> ShellState']
    <3>1. shell' = [shell EXCEPT ![s] = [shell[s] EXCEPT !.pc = "open", !.sum = cache[V(s)]]]
      BY <1>1, <1>12, <2>1 DEF Verify
    <3>2. cache[V(s)] \in File(Contents)
      BY <2>0 DEF TypeOK
    <3> QED
      BY <1>1, <1>4, <2>0, <3>1, <3>2, Moves
  <2>2. cache' \in [Versions -> File(Contents)] /\ blind' \in BOOLEAN /\ UNCHANGED <<inst, lock>>
    BY <1>12, <2>0 DEF Verify, TypeOK
  <2> QED
    BY <1>1, <1>6, <2>1, <2>2 DEF TypeOK
<1>13. CASE Open(s)
  <2>0. V(s) \in Versions /\ "unpack" \in Places
    BY <1>3, <1>5, <1>13 DEF Open, At, Installing, Unpacking
  <2>1. ASSUME cache[V(s)] \in Contents PROVE shell' \in [Shells -> ShellState']
    <3>1. shell' = [shell EXCEPT ![s] = [shell[s] EXCEPT !.pc = "unpack", !.held = cache[V(s)],
                                                       !.todo = FilesOf[cache[V(s)]]]]
      BY <1>1, <1>13, <2>1 DEF Open
    <3>2. cache[V(s)] \in File(Contents) /\ FilesOf[cache[V(s)]] \in Seq(Files)
      BY <2>0, <2>1, StoreAssumption DEF TypeOK
    <3> QED
      BY <1>1, <1>4, <2>0, <3>1, <3>2, Moves
  <2> QED
    BY <1>1, <1>6, <1>13, <2>1 DEF Open, AfterOpen, TypeOK
<1>14. CASE OpenFile(s) \/ WriteFile(s)
  <2>1. /\ shell[s].todo # <<>> /\ V(s) \in Versions /\ Blank \in File(Contents)
        /\ "unpack" \in Places /\ "write file" \in Installing
    <3>1. shell[s].pc \in Unpacking /\ shell[s].todo # <<>>
      BY <1>14 DEF OpenFile, WriteFile, At, Unpacking, AtWork
    <3> QED
      BY <1>3, <1>5, <3>1 DEF Installing, Unpacking, File
  <2>2. Head(shell[s].todo) \in Files /\ Tail(shell[s].todo) \in Seq(Files)
    <3>1. shell[s].todo # <<>> /\ shell[s].todo \in Seq(Files)
      BY <1>2, <2>1
    <3> QED
      BY <3>1
  <2>3. shell' \in [Shells -> ShellState']
    <3>1. CASE OpenFile(s)
      BY <1>7, <2>1, <3>1 DEF OpenFile
    <3>2. CASE WriteFile(s)
      <4>1. shell' = [shell EXCEPT ![s] = [shell[s] EXCEPT !.pc = "unpack", !.todo = Tail(shell[s].todo)]]
        BY <1>1, <3>2 DEF WriteFile
      <4> QED
        BY <1>1, <1>2, <1>4, <2>1, <2>2, <4>1, Moves
    <3> QED
      BY <1>14, <3>1, <3>2
  <2>4. PICK c \in File(Contents) : inst' = [inst EXCEPT ![V(s)].files[Head(shell[s].todo)] = c]
    BY <1>2, <1>14, <2>1 DEF OpenFile, WriteFile, Content
  <2>5. inst' \in [Versions -> [files : [Files -> File(Contents)], sum : File(Contents)]]
    BY <2>1, <2>2, <2>4 DEF TypeOK
  <2> QED
    BY <1>1, <1>14, <2>3, <2>5 DEF OpenFile, WriteFile, TypeOK
<1>15. CASE OpenSum(s) \/ WriteSum(s)
  <2>0. V(s) \in Versions /\ Blank \in File(Contents)
    BY <1>3, <1>15 DEF OpenSum, WriteSum, At, Installing, Unpacking, File
  <2>1. shell' \in [Shells -> ShellState']
    BY <1>7, <1>15 DEF OpenSum, WriteSum, Installing
  <2>2. inst' \in [Versions -> [files : [Files -> File(Contents)], sum : File(Contents)]]
    <3>1. inst \in [Versions -> [files : [Files -> File(Contents)], sum : File(Contents)]]
      BY DEF TypeOK
    <3>2. PICK x \in File(Contents) : inst' = [inst EXCEPT ![V(s)].sum = x]
      <4>1. CASE OpenSum(s)
        BY <2>0, <4>1 DEF OpenSum
      <4>2. CASE WriteSum(s)
        BY <1>2, <4>2 DEF WriteSum, ShellState
      <4> QED
        BY <1>15, <4>1, <4>2
    <3> QED
      BY <2>0, <3>1, <3>2
  <2> QED
    BY <1>1, <1>15, <2>1, <2>2 DEF OpenSum, WriteSum, TypeOK
<1>16. CASE OpenLock(s)
  <2>0. Blank \in File(Versions)
    BY DEF File
  <2>1. shell' \in [Shells -> ShellState']
    BY <1>7, <1>16 DEF OpenLock, Installing
  <2> QED
    BY <1>1, <1>16, <2>0, <2>1 DEF OpenLock, TypeOK
<1>17. CASE WriteLock(s)
  <2>0. V(s) \in Versions /\ V(s) \in File(Versions)
    BY <1>3, <1>17 DEF WriteLock, At, Installing, File
  <2>1. [Idle("ok") EXCEPT !.v = V(s), !.had = shell[s].had] \in ShellState
    BY <1>2, <2>0, IdleState DEF ShellState
  <2>2. shell' \in [Shells -> ShellState']
    BY <1>4, <1>17, <2>1 DEF WriteLock
  <2> QED
    BY <1>1, <1>17, <2>0, <2>2 DEF WriteLock, TypeOK
<1> QED
  BY <1>8, <1>9, <1>10, <1>11, <1>12, <1>13, <1>14, <1>15, <1>16, <1>17

\* So does each step of a publication,
LEMMA PublishType ==
    ASSUME TypeOK, AtWork, NEW s \in Shells,
           OpenArchive(s) \/ WriteArchive(s) \/ OpenMeta(s) \/ WriteMeta(s)
    PROVE  TypeOK'
<1>1. shell[s] \in ShellState /\ shell \in [Shells -> ShellState]
      /\ UNCHANGED <<scene, ran, cache, inst, lock, published, blind>>
  BY DEF TypeOK, OpenArchive, WriteArchive, OpenMeta, WriteMeta
<1>2. V(s) \in Versions /\ shell[s].held \in File(Contents) /\ shell[s].sum \in File(Contents)
      /\ Blank \in File(Contents)
  <2>1. shell[s].pc \in Publishing
    BY DEF OpenArchive, WriteArchive, OpenMeta, WriteMeta, At, Publishing
  <2> QED
    BY <1>1, <2>1 DEF AtWork, ShellState, File
<1>3. \A r \in ShellState : shell' = [shell EXCEPT ![s] = r] => shell' \in [Shells -> ShellState']
  BY <1>1, ShellType
<1>4. Publishing \subseteq Places /\ ShellState' = ShellState
  BY <1>1 DEF Places, ShellState
<1>5. ASSUME NEW p \in Publishing, Disturb(s, p) PROVE shell' \in [Shells -> ShellState']
  <2>1. \A t \in Shells : shell[t] \in ShellState /\ [shell[t] EXCEPT !.steady = FALSE] \in ShellState
                         /\ [shell[t] EXCEPT !.pc = p] \in ShellState
    <3>1. Absent \in File(Contents)
      BY DEF File
    <3> QED
      BY <1>1, <1>4, <3>1, Moves
  <2> HIDE DEF ShellState
  <2> QED
    BY <1>4, <1>5, <2>1 DEF Disturb
<1>6. reg' \in [Versions -> [archive : File(Contents), meta : File(Contents)]]
  <2>1. reg \in [Versions -> [archive : File(Contents), meta : File(Contents)]]
    BY DEF TypeOK
  <2>2. PICK c \in File(Contents) : \/ reg' = [reg EXCEPT ![V(s)].archive = c]
                                        \/ reg' = [reg EXCEPT ![V(s)].meta = c]
    BY <1>2 DEF OpenArchive, WriteArchive, OpenMeta, WriteMeta
  <2> QED
    BY <1>1, <1>2, <2>1, <2>2
<1>7. CASE OpenArchive(s) \/ WriteArchive(s)
  <2>1. shell' \in [Shells -> ShellState']
    BY <1>5, <1>7 DEF OpenArchive, WriteArchive, Publishing
  <2> QED
    BY <1>1, <1>6, <2>1 DEF TypeOK
<1>8. CASE OpenMeta(s)
  <2>1. reg[V(s)].archive \in File(Contents) /\ "write meta" \in Places
    BY <1>2, <1>4 DEF TypeOK, Publishing
  <2>2. shell' = [shell EXCEPT ![s] = [shell[s] EXCEPT !.pc = "write meta", !.sum = reg[V(s)].archive]]
    BY <1>1, <1>8 DEF OpenMeta
  <2>3. shell' \in [Shells -> ShellState']
    BY <1>1, <1>3, <2>1, <2>2, Moves
  <2> QED
    BY <1>1, <1>6, <2>3 DEF TypeOK
<1>9. CASE WriteMeta(s)
  <2>1. shell' \in [Shells -> ShellState']
    BY <1>3, <1>9, IdleState DEF WriteMeta
  <2> QED
    BY <1>1, <1>6, <2>1 DEF TypeOK
<1> QED
  BY <1>7, <1>8, <1>9

\* and each step of clean, and being killed,
LEMMA CleanType ==
    ASSUME TypeOK, AtWork, NEW s \in Shells,
           CleanOne(s) \/ Cleaned(s) \/ PurgeOne(s) \/ Purged(s) \/ Kill(s)
    PROVE  TypeOK'
<1>1. shell[s] \in ShellState /\ shell \in [Shells -> ShellState]
      /\ UNCHANGED <<scene, ran, reg, lock, published, blind>>
  BY DEF TypeOK, CleanOne, Cleaned, PurgeOne, Purged, Kill
<1>2. Absent \in File(Contents) /\ ShellState' = ShellState
  BY <1>1 DEF TypeOK, File, ShellState
<1>3. \A r \in ShellState : shell' = [shell EXCEPT ![s] = r] => shell' \in [Shells -> ShellState']
  BY <1>1, ShellType
<1>4. shell' \in [Shells -> ShellState']
  <2>1. shell' = shell \/ shell' = [shell EXCEPT ![s] = Idle("none")] \/ shell' = [shell EXCEPT ![s] = Idle("ok")]
        \/ shell' = [shell EXCEPT ![s] = [shell[s] EXCEPT !.pc = "purge"]]
    BY <1>1 DEF CleanOne, Cleaned, PurgeOne, Purged, Kill, Go
  <2>2. [shell[s] EXCEPT !.pc = "purge"] \in ShellState
    <3>1. "purge" \in Places
      BY DEF Places
    <3> QED
      BY <1>1, <1>2, <3>1, Moves
  <2> HIDE DEF ShellState
  <2> QED
    BY <1>1, <1>2, <1>3, <2>1, <2>2, IdleState
<1>5. cache' \in [Versions -> File(Contents)]
  BY <1>2 DEF TypeOK, CleanOne, Cleaned, PurgeOne, Purged, Kill
<1>6. inst' \in [Versions -> [files : [Files -> File(Contents)], sum : File(Contents)]]
  <2>1. inst \in [Versions -> [files : [Files -> File(Contents)], sum : File(Contents)]]
    BY DEF TypeOK
  <2>2. CASE inst' = inst
    BY <1>1, <2>1, <2>2
  <2>3. ASSUME NEW v \in Versions, NEW f \in Files, inst' = [inst EXCEPT ![v].files[f] = Absent]
        PROVE  inst' \in [Versions -> [files : [Files -> File(Contents)], sum : File(Contents)]]
    BY <1>2, <2>1, <2>3
  <2>4. ASSUME NEW v \in Versions, inst' = [inst EXCEPT ![v].sum = Absent]
        PROVE  inst' \in [Versions -> [files : [Files -> File(Contents)], sum : File(Contents)]]
    BY <1>2, <2>1, <2>4
  <2>5. inst' = inst \/ \E v \in Versions : inst' = [inst EXCEPT ![v].sum = Absent]
                                         \/ \E f \in Files : inst' = [inst EXCEPT ![v].files[f] = Absent]
    BY DEF CleanOne, Cleaned, PurgeOne, Purged, Kill
  <2> QED
    BY <2>2, <2>3, <2>4, <2>5
<1> QED
  BY <1>1, <1>4, <1>5, <1>6 DEF TypeOK

\* What the trees of a version become when it is published with one more.
Gives(v, c) == published' = [published EXCEPT ![v] = IF Newest(v, c) THEN @ ELSE Append(@, c)]

\* and beginning a command.
LEMMA BeginType ==
    ASSUME TypeOK, NEW s \in Shells, Begin(s)
    PROVE  TypeOK'
<1>1. /\ shell \in [Shells -> ShellState] /\ ShellState' = ShellState
      /\ UNCHANGED <<scene, reg, cache, inst, lock, blind>>
      /\ ran' = [ran EXCEPT ![s] = @ + 1] /\ ran[s] < Len(scene[s])
  BY DEF TypeOK, Begin, ShellState
<1>2. published' \in [Versions -> Seq(Contents)] /\ ran' \in [Shells -> Nat]
  <2>1. published \in [Versions -> Seq(Contents)] /\ ran \in [Shells -> Nat]
    BY DEF TypeOK
  <2>2. published' = published \/ \E v \in Versions, c \in Contents : Gives(v, c)
    BY DEF Begin, Gives
  <2>3. ASSUME NEW v \in Versions, NEW c \in Contents, Gives(v, c) PROVE published' \in [Versions -> Seq(Contents)]
    <3>1. published[v] \in Seq(Contents) /\ Append(published[v], c) \in Seq(Contents)
      BY <2>1
    <3> QED
      BY <2>1, <2>3, <3>1 DEF Gives
  <2> QED
    BY <1>1, <2>1, <2>2, <2>3
<1>3. shell' \in [Shells -> ShellState']
  <2>1. Idle("none") \in ShellState /\ lock[s] \in File(Versions) /\ Given(s) \in Commands
    BY <1>1, IdleState, GivenKnown DEF TypeOK
  <2>2. ASSUME NEW r \in ShellState, shell' = [shell EXCEPT ![s] = r] PROVE shell' \in [Shells -> ShellState']
    BY <2>2, ShellType
  <2>3. CASE shell' = [shell EXCEPT ![s] = [Idle("none") EXCEPT !.pc = "resolve", !.cmd = Given(s), !.had = lock[s]]]
    <3>1. [Idle("none") EXCEPT !.pc = "resolve", !.cmd = Given(s), !.had = lock[s]] \in ShellState
      BY <2>1 DEF ShellState, Places
    <3> QED
      BY <2>2, <2>3, <3>1
  <2>4. CASE shell' = [shell EXCEPT ![s] = [Idle("none") EXCEPT !.pc = "clean", !.cmd = Given(s)]]
    <3>1. [Idle("none") EXCEPT !.pc = "clean", !.cmd = Given(s)] \in ShellState
      BY <2>1 DEF ShellState, Places
    <3> QED
      BY <2>2, <2>4, <3>1
  <2>5. ASSUME NEW v \in Versions, NEW c \in Contents,
               shell' = [shell EXCEPT ![s] = [Idle("none") EXCEPT !.pc = "copy", !.cmd = "publish", !.v = v,
                                                                   !.held = c]]
        PROVE  shell' \in [Shells -> ShellState']
    <3>1. c \in File(Contents) /\ "copy" \in Places /\ "publish" \in Commands
      BY DEF File, Places, Publishing, Commands
    <3>2. [Idle("none") EXCEPT !.pc = "copy", !.cmd = "publish", !.v = v, !.held = c] \in ShellState
      BY <2>1, <3>1 DEF ShellState
    <3> QED
      BY <2>2, <2>5, <3>2
  <2> QED
    BY <2>3, <2>4, <2>5 DEF Begin
<1> HIDE DEF ShellState
<1> QED
  BY <1>1, <1>2, <1>3 DEF TypeOK

\* Every step keeps the types.
LEMMA NextType == TypeOK /\ AtWork /\ [Next]_vars => TypeOK'
<1> SUFFICES ASSUME TypeOK, AtWork, [Next]_vars PROVE TypeOK'
  OBVIOUS
<1>1. CASE UNCHANGED vars
  BY <1>1 DEF TypeOK, ShellState, vars
<1> QED
  BY <1>1, BeginType, InstallType, PublishType, CleanType DEF Next

-----------------------------------------------------------------------------
(* What each step does, field by field                                     *)

\* A step of one shell.
Step(s) ==
    \/ Begin(s) \/ Kill(s)
    \/ Resolve(s) \/ Check(s) \/ Download(s) \/ Store(s) \/ Verify(s) \/ Open(s)
    \/ OpenFile(s) \/ WriteFile(s) \/ OpenSum(s) \/ WriteSum(s) \/ OpenLock(s) \/ WriteLock(s)
    \/ OpenArchive(s) \/ WriteArchive(s) \/ OpenMeta(s) \/ WriteMeta(s)
    \/ CleanOne(s) \/ Cleaned(s) \/ PurgeOne(s) \/ Purged(s)

\* What a step makes of a shell, field by field.
Becomes(s, pc, v, want, sum, held, todo, steady) ==
    /\ shell'[s].pc = pc /\ shell'[s].v = v /\ shell'[s].want = want /\ shell'[s].sum = sum
    /\ shell'[s].held = held /\ shell'[s].todo = todo /\ shell'[s].steady = steady
    /\ shell'[s].cmd = shell[s].cmd /\ shell'[s].last = shell[s].last

\* The shell only goes on.
Stands(s, pc) ==
    Becomes(s, pc, V(s), shell[s].want, shell[s].sum, shell[s].held, shell[s].todo, shell[s].steady)

\* The command ends.
Ends(s, last) ==
    /\ shell'[s].pc = "idle" /\ shell'[s].cmd = "none"
    /\ shell'[s].want = Absent /\ shell'[s].sum = Absent /\ shell'[s].held = Absent
    /\ shell'[s].steady = FALSE /\ shell'[s].last = last

\* The shell stays where it is; it may be disturbed.
Same(t) == /\ Becomes(t, shell[t].pc, V(t), shell[t].want, shell[t].sum, shell[t].held, shell[t].todo,
                      shell'[t].steady)
           /\ shell'[t].steady => shell[t].steady

\* A shell put at rest has ended its command.
LEMMA EndsIdle ==
    ASSUME TypeOK, NEW s \in Shells, NEW last, shell' = [shell EXCEPT ![s] = Idle(last)]
    PROVE  Ends(s, last)
BY DEF TypeOK, Ends, Idle

\* A command that fails ends, and says so if nobody disturbed it.
LEMMA FailEnds ==
    ASSUME TypeOK, NEW s \in Shells, Fail(s)
    PROVE  Ends(s, IF shell[s].steady THEN "failed" ELSE "none")
BY DEF TypeOK, Fail, Ends, Idle

\* Going on changes where the shell stands and nothing else.
LEMMA GoEffect ==
    ASSUME TypeOK, NEW s \in Shells, NEW p, Go(s, p)
    PROVE  Stands(s, p)
<1>1. shell[s] \in ShellState /\ shell'[s] = [shell[s] EXCEPT !.pc = p]
  BY DEF TypeOK, Go
<1> QED
  BY <1>1 DEF Stands, Becomes, V, ShellState

\* An install that resolves finds a version and what the registry says of it.
LEMMA ResolveEffect ==
    ASSUME TypeOK, NEW s \in Shells, Resolve(s)
    PROVE  /\ shell[s].pc = "resolve"
           /\ \/ Fail(s)
              \/ \E v \in Versions : /\ reg[v].archive # Absent /\ reg[v].meta # Absent
                                     /\ Becomes(s, "check", v, reg[v].meta, shell[s].sum, shell[s].held,
                                                shell[s].todo, Whole(v))
<1>1. CASE ~Fail(s)
  <2>1. PICK v \in Versions :
           /\ reg[v].archive # Absent /\ reg[v].meta # Absent
           /\ shell' = [shell EXCEPT ![s].pc = "check", ![s].v = v, ![s].want = reg[v].meta,
                                              ![s].steady = Whole(v)]
    BY <1>1 DEF Resolve, Available
  <2>2. shell[s] \in ShellState
    BY DEF TypeOK
  <2>3. shell'[s] = [shell[s] EXCEPT !.pc = "check", !.v = v, !.want = reg[v].meta, !.steady = Whole(v)]
    BY <2>1 DEF TypeOK
  <2>4. Becomes(s, "check", v, reg[v].meta, shell[s].sum, shell[s].held, shell[s].todo, Whole(v))
    BY <2>2, <2>3 DEF Becomes, ShellState
  <2> QED
    BY <2>1, <2>4 DEF Resolve, At
<1> QED
  BY <1>1 DEF Resolve, At

\* The check sends the install on by what store and cache hold.
LEMMA CheckEffect ==
    ASSUME TypeOK, NEW s \in Shells, Check(s)
    PROVE  /\ shell[s].pc = "check"
           /\ \/ IsInstalledAndValid(V(s), shell[s].want) /\ Stands(s, "lock")
              \/ /\ ~IsInstalledAndValid(V(s), shell[s].want)
                 /\ IsArchiveCached(V(s), shell[s].want) /\ Stands(s, "verify")
              \/ /\ ~IsInstalledAndValid(V(s), shell[s].want)
                 /\ ~IsArchiveCached(V(s), shell[s].want) /\ Stands(s, "download")
              \/ Ends(s, "none")
BY GoEffect, EndsIdle DEF Check, At

\* A download holds the archive of the registry.
LEMMA DownloadEffect ==
    ASSUME TypeOK, NEW s \in Shells, Download(s)
    PROVE  /\ shell[s].pc = "download"
           /\ Becomes(s, "store", V(s), shell[s].want, shell[s].sum, reg[V(s)].archive, shell[s].todo,
                      shell[s].steady)
<1>1. shell[s] \in ShellState /\ shell'[s] = [shell[s] EXCEPT !.pc = "store", !.held = reg[V(s)].archive]
  BY DEF TypeOK, Download
<1>2. Becomes(s, "store", V(s), shell[s].want, shell[s].sum, reg[V(s)].archive, shell[s].todo,
              shell[s].steady)
  BY <1>1 DEF Becomes, V, ShellState
<1> QED
  BY <1>2 DEF Download, At

\* A verified archive is the one that is wanted, unless there was no checksum.
LEMMA VerifyEffect ==
    ASSUME TypeOK, NEW s \in Shells, Verify(s)
    PROVE  /\ shell[s].pc = "verify"
           /\ \/ /\ Fail(s) /\ (blind' <=> blind)
                 /\ cache[V(s)] = Absent \/ cache[V(s)] # shell[s].want
                 /\ cache' = cache \/ cache' = [cache EXCEPT ![V(s)] = Absent]
              \/ /\ cache' = cache /\ cache[V(s)] # Absent
                 /\ shell[s].want = Blank \/ cache[V(s)] = shell[s].want
                 /\ blind' <=> (blind \/ shell[s].want = Blank)
                 /\ Becomes(s, "open", V(s), shell[s].want, cache[V(s)], shell[s].held, shell[s].todo,
                            shell[s].steady)
<1>0. shell[s] \in ShellState
  BY DEF TypeOK
<1>1. CASE Fail(s)
  <2>1. shell'[s].pc = "idle"
    BY <1>1, FailEnds DEF Ends
  <2>3. shell'[s].pc # "open"
    BY <2>1
  <2>4. blind' <=> blind
    BY <2>3 DEF Verify
  <2>5. shell' # [shell EXCEPT ![s].pc = "open", ![s].sum = cache[V(s)]]
    BY <1>0, <2>3 DEF TypeOK, ShellState
  <2> QED
    BY <1>1, <2>4, <2>5 DEF Verify, At
<1>2. CASE ~Fail(s)
  <2>1. shell'[s] = [shell[s] EXCEPT !.pc = "open", !.sum = cache[V(s)]]
    BY <1>2 DEF TypeOK, Verify
  <2>2. Becomes(s, "open", V(s), shell[s].want, cache[V(s)], shell[s].held, shell[s].todo, shell[s].steady)
    BY <1>0, <2>1 DEF Becomes, V, ShellState
  <2> QED
    BY <1>2, <2>2 DEF Verify, At, Becomes
<1> QED
  BY <1>1, <1>2

\* What is opened is unpacked from its first file on.
LEMMA OpenEffect ==
    ASSUME TypeOK, NEW s \in Shells, Open(s)
    PROVE  /\ shell[s].pc = "open"
           /\ \/ Fail(s) /\ cache[V(s)] \notin Contents
              \/ /\ cache[V(s)] \in Contents
                 /\ Becomes(s, "unpack", V(s), shell[s].want, shell[s].sum, cache[V(s)],
                            FilesOf[cache[V(s)]], shell[s].steady)
<1>0. shell[s] \in ShellState
  BY DEF TypeOK
<1>1. CASE cache[V(s)] \in Contents
  <2>1. shell'[s] = [shell[s] EXCEPT !.pc = "unpack", !.held = cache[V(s)], !.todo = FilesOf[cache[V(s)]]]
    BY <1>1 DEF TypeOK, Open
  <2> QED
    BY <1>0, <1>1, <2>1 DEF Becomes, V, Open, At, ShellState
<1> QED
  BY <1>1 DEF Open, At

\* Unpacking goes on with the next file.
LEMMA WriteFileEffect ==
    ASSUME TypeOK, AtWork, NEW s \in Shells, WriteFile(s)
    PROVE  /\ shell[s].pc = "write file" /\ shell[s].todo # <<>> /\ shell[s].todo \in Seq(Files)
           /\ Becomes(s, "unpack", V(s), shell[s].want, shell[s].sum, shell[s].held,
                      Tail(shell[s].todo), shell[s].steady)
<1>0. shell[s] \in ShellState /\ shell[s].todo \in Seq(Files)
  BY DEF TypeOK, ShellState
<1>1. shell'[s] = [shell[s] EXCEPT !.pc = "unpack", !.todo = Tail(shell[s].todo)]
  BY DEF TypeOK, WriteFile
<1>2. shell[s].pc = "write file" /\ shell[s].todo # <<>>
  BY DEF WriteFile, At, AtWork
<1> QED
  BY <1>0, <1>1, <1>2 DEF Becomes, V, ShellState

\* An install ends with its lock.
LEMMA WriteLockEffect ==
    ASSUME TypeOK, NEW s \in Shells, WriteLock(s)
    PROVE  shell[s].pc = "write lock" /\ Ends(s, "ok")
BY DEF TypeOK, WriteLock, At, Ends, Idle

\* The steps that only go on, or end the command.
LEMMA GoesOn ==
    ASSUME TypeOK, NEW s \in Shells
    PROVE  /\ Store(s) => shell[s].pc = "store" /\ Stands(s, "verify")
           /\ OpenFile(s) => shell[s].pc = "unpack" /\ shell[s].todo # <<>> /\ Stands(s, "write file")
           /\ OpenSum(s) => shell[s].pc = "unpack" /\ shell[s].todo = <<>> /\ Stands(s, "sum")
           /\ WriteSum(s) => shell[s].pc = "sum" /\ Stands(s, "lock")
           /\ OpenLock(s) => shell[s].pc = "lock" /\ Stands(s, "write lock")
           /\ Cleaned(s) => shell[s].pc = "clean"
                            /\ ((shell[s].cmd = "purge" /\ Stands(s, "purge")) \/ Ends(s, "ok"))
           /\ Kill(s) => Ends(s, "none")
           /\ Purged(s) => Ends(s, "ok")
           /\ CleanOne(s) \/ PurgeOne(s) => shell' = shell
           /\ CleanOne(s) => shell[s].pc = "clean"
           /\ PurgeOne(s) => shell[s].pc = "purge"
           /\ WriteMeta(s) => shell[s].pc = "write meta" /\ Ends(s, "ok")
BY GoEffect, EndsIdle DEF Store, OpenFile, OpenSum, WriteSum, OpenLock, Cleaned, Kill, Purged, CleanOne,
   PurgeOne, WriteMeta, At

\* A publication goes from the archive to its checksum.
LEMMA PublishEffect ==
    ASSUME TypeOK, NEW s \in Shells
    PROVE  /\ OpenArchive(s) => shell[s].pc = "copy" /\ Stands(s, "write archive")
           /\ WriteArchive(s) => shell[s].pc = "write archive" /\ Stands(s, "digest")
           /\ OpenMeta(s) => shell[s].pc = "digest"
                             /\ Becomes(s, "write meta", V(s), shell[s].want, reg[V(s)].archive,
                                        shell[s].held, shell[s].todo, shell[s].steady)
<1>0. shell[s] \in ShellState
  BY DEF TypeOK
<1>1. ASSUME NEW p, Disturb(s, p) PROVE Stands(s, p)
  <2>1. shell'[s] = [shell[s] EXCEPT !.pc = p]
    BY <1>1 DEF Disturb
  <2> QED
    BY <1>0, <2>1 DEF Becomes, Stands, V, ShellState
<1>2. CASE OpenMeta(s)
  <2>1. shell'[s] = [shell[s] EXCEPT !.pc = "write meta", !.sum = reg[V(s)].archive]
    BY <1>2 DEF TypeOK, OpenMeta
  <2>2. Becomes(s, "write meta", V(s), shell[s].want, reg[V(s)].archive,
                                        shell[s].held, shell[s].todo, shell[s].steady)
    BY <1>0, <2>1 DEF Becomes, V, ShellState
  <2> QED
    BY <1>2, <2>2, <1>1 DEF OpenMeta, At, OpenArchive, WriteArchive
<1> QED
  BY <1>1, <1>2 DEF OpenArchive, WriteArchive, At

\* A command that begins is one of the scene.
LEMMA BeginEffect ==
    ASSUME TypeOK, NEW s \in Shells, Begin(s)
    PROVE  /\ shell[s].pc = "idle" /\ shell'[s].steady = FALSE /\ shell'[s].want = Absent
           /\ shell'[s].sum = Absent /\ shell'[s].last = "none"
           /\ \/ /\ s \in All({"install", "offline"}) /\ shell'[s].pc = "resolve" /\ published' = published
                 /\ shell'[s].cmd \in {"install", "offline"} /\ shell'[s].held = Absent
              \/ /\ s \in All({"publish"}) /\ shell'[s].pc = "copy" /\ shell'[s].cmd = "publish"
                 /\ shell'[s].v \in Versions /\ shell'[s].held \in Contents
                 /\ Gives(shell'[s].v, shell'[s].held)
              \/ /\ shell'[s].pc = "clean" /\ published' = published /\ s \in All({"clean", "purge"})
                 /\ shell'[s].cmd = "purge" => s \in All({"purge"})
                 /\ shell'[s].held = Absent
<1>1. shell[s].pc = "idle" /\ ran[s] < Len(scene[s]) /\ shell \in [Shells -> ShellState]
  BY DEF Begin, At, TypeOK
<1>2. \A commands : Given(s) \in commands => s \in All(commands)
  BY <1>1, GivenKnown
<1>3. CASE /\ Given(s) \in {"install", "offline"} /\ published' = published
           /\ shell' = [shell EXCEPT ![s] = [Idle("none") EXCEPT !.pc = "resolve", !.cmd = Given(s),
                                                                !.had = lock[s]]]
  <2>1. s \in All({"install", "offline"})
    BY <1>2, <1>3
  <2> QED
    BY <1>1, <1>3, <2>1 DEF Idle
<1>4. ASSUME Given(s) = "publish", NEW v \in Versions, NEW c \in Contents, Gives(v, c),
             shell' = [shell EXCEPT ![s] = [Idle("none") EXCEPT !.pc = "copy", !.cmd = "publish", !.v = v,
                                                                  !.held = c]]
      PROVE  /\ s \in All({"publish"}) /\ shell'[s].pc = "copy" /\ shell'[s].cmd = "publish"
             /\ shell'[s].v = v /\ shell'[s].held = c /\ shell'[s].steady = FALSE
             /\ shell'[s].want = Absent /\ shell'[s].sum = Absent /\ shell'[s].last = "none"
  <2>1. s \in All({"publish"})
    BY <1>2, <1>4
  <2> QED
    BY <1>1, <1>4, <2>1 DEF Idle
<1>5. CASE /\ Given(s) \in {"clean", "purge"} /\ published' = published
           /\ shell' = [shell EXCEPT ![s] = [Idle("none") EXCEPT !.pc = "clean", !.cmd = Given(s)]]
  <2>1. s \in All({"clean", "purge"}) /\ (Given(s) = "purge" => s \in All({"purge"}))
    BY <1>2, <1>5
  <2> QED
    BY <1>1, <1>5, <2>1 DEF Idle
<1>6. CASE /\ Given(s) = "publish"
           /\ \E v \in Versions, c \in Contents :
                /\ Gives(v, c)
                /\ shell' = [shell EXCEPT ![s] = [Idle("none") EXCEPT !.pc = "copy", !.cmd = "publish", !.v = v,
                                                                      !.held = c]]
  BY <1>1, <1>4, <1>6
<1> QED
  BY <1>3, <1>5, <1>6 DEF Begin, Gives

\* What one shell's command does to the others: a publication tells whoever is
\* installing the version that the registry changed, and nothing else.
LEMMA OthersStay ==
    ASSUME TypeOK, NEW s \in Shells, Step(s), NEW t \in Shells, t # s
    PROVE  Same(t) /\ (shell'[t].steady # shell[t].steady => OpenArchive(s) \/ WriteArchive(s))
                   /\ (OpenArchive(s) \/ WriteArchive(s) => V(t) # V(s) \/ shell'[t].steady = FALSE)
<1>1. shell \in [Shells -> ShellState] /\ shell[t] \in ShellState
  BY DEF TypeOK
<1>2. CASE OpenArchive(s) \/ WriteArchive(s)
  <2>1. CASE V(t) = V(s)
    <3>1. shell'[t] = [shell[t] EXCEPT !.steady = FALSE]
      BY <1>2, <2>1 DEF OpenArchive, WriteArchive, Disturb
    <3> QED
      BY <1>1, <1>2, <2>1, <3>1 DEF Same, Becomes, V, ShellState
  <2>2. CASE V(t) # V(s)
    <3>1. shell'[t] = shell[t]
      BY <1>2, <2>2 DEF OpenArchive, WriteArchive, Disturb
    <3> QED
      BY <1>1, <1>2, <2>2, <3>1 DEF Same, Becomes, V
  <2> QED
    BY <2>1, <2>2
<1>3. CASE ~(OpenArchive(s) \/ WriteArchive(s))
  <2>1. shell'[t] = shell[t]
    BY <1>1, <1>3 DEF Step, Begin, Kill, Resolve, Check, Download, Store, Verify, Open, OpenFile,
       WriteFile, OpenSum, WriteSum, OpenLock, WriteLock, OpenMeta, WriteMeta, CleanOne, Cleaned, PurgeOne,
       Purged, Go, Fail
  <2> QED
    BY <1>3, <2>1 DEF Same, Becomes, V
<1> QED
  BY <1>2, <1>3

\* The next-state relation is a step of some shell.
LEMMA NextIsStep == Next <=> \E s \in Shells : Step(s)
BY DEF Next, Step

\* Only a publication that begins gives a version a tree.
LEMMA OnlyBeginGives ==
    ASSUME NEW s \in Shells, Step(s), ~Begin(s)
    PROVE  published' = published
BY DEF Step, Kill, Resolve, Check, Download, Store, Verify, Open, OpenFile, WriteFile, OpenSum, WriteSum,
   OpenLock, WriteLock, OpenArchive, WriteArchive, OpenMeta, WriteMeta, CleanOne, Cleaned, PurgeOne, Purged

\* AtWork, for one shell.
AtWorkOf(s) ==
    /\ shell[s].pc \in Installing \cup {"resolve"} => s \in All({"install", "offline"})
    /\ shell[s].pc \in Publishing => s \in All({"publish"})
    /\ shell[s].pc = "clean" => s \in All({"clean", "purge"})
    /\ shell[s].pc = "purge" \/ shell[s].cmd = "purge" => s \in All({"purge"})
    /\ shell[s].pc \in Installing \cup Publishing => shell[s].v \in Versions
    /\ shell[s].pc \in Publishing \cup Unpacking => shell[s].held \in Contents
    /\ shell[s].pc = "write file" => shell[s].todo # <<>>

\* Every step keeps the commands at work those that were given.
LEMMA NextAtWork == TypeOK /\ AtWork /\ [Next]_vars => AtWork'
<1> SUFFICES ASSUME TypeOK, AtWork, [Next]_vars, NEW t \in Shells PROVE AtWorkOf(t)'
  BY DEF AtWork, AtWorkOf, V
<1>0. /\ All({"install", "offline"})' = All({"install", "offline"}) /\ All({"publish"})' = All({"publish"})
      /\ All({"clean", "purge"})' = All({"clean", "purge"}) /\ All({"purge"})' = All({"purge"})
      /\ AtWorkOf(t)
  <2>1. AtWorkOf(t)
    BY DEF AtWork, AtWorkOf, V
  <2>2. /\ All({"install", "offline"})' = All({"install", "offline"}) /\ All({"publish"})' = All({"publish"})
        /\ All({"clean", "purge"})' = All({"clean", "purge"}) /\ All({"purge"})' = All({"purge"})
    BY ScenesFixed DEF All
  <2> QED
    BY <2>1, <2>2
<1> USE DEF Installing, Publishing, Unpacking
<1>1. CASE Same(t)
  <2>1. /\ shell'[t].pc = shell[t].pc /\ shell'[t].cmd = shell[t].cmd /\ shell'[t].v = shell[t].v
        /\ shell'[t].held = shell[t].held /\ shell'[t].todo = shell[t].todo
    BY <1>1 DEF Same, Becomes, V
  <2> HIDE DEF Installing, Publishing, Unpacking
  <2> QED
    BY <1>0, <2>1 DEF AtWorkOf
<1>2. CASE UNCHANGED vars
  BY <1>0, <1>2 DEF AtWorkOf, vars
<1>3. ASSUME NEW last, Ends(t, last) PROVE AtWorkOf(t)'
  BY <1>0, <1>3 DEF AtWorkOf, Ends
<1>4. CASE Kill(t) \/ WriteMeta(t) \/ Purged(t) \/ Fail(t) \/ WriteLock(t)
  BY <1>3, <1>4, GoesOn, FailEnds, WriteLockEffect
<1>5. ASSUME NEW p \in Installing \ Unpacking, Stands(t, p), shell[t].pc \in Installing
      PROVE  AtWorkOf(t)'
  BY <1>0, <1>5 DEF AtWorkOf, Stands, Becomes, V
<1>6. CASE Resolve(t)
  BY <1>0, <1>4, <1>6, ResolveEffect DEF AtWorkOf, Becomes
<1>7. CASE Check(t)
  BY <1>3, <1>5, <1>7, CheckEffect
<1>8. CASE Download(t)
  BY <1>0, <1>8, DownloadEffect DEF AtWorkOf, Becomes, V
<1>9. CASE Store(t) \/ OpenSum(t) \/ WriteSum(t) \/ OpenLock(t)
  BY <1>5, <1>9, GoesOn
<1>10. CASE Verify(t)
  BY <1>0, <1>4, <1>10, VerifyEffect DEF AtWorkOf, Becomes, V
<1>11. CASE Open(t)
  <2>1. CASE Fail(t)
    BY <1>4, <2>1
  <2>2. CASE ~Fail(t)
    <3>1. shell[t].pc = "open" /\ cache[V(t)] \in Contents /\ shell'[t].pc = "unpack" /\ shell'[t].v = shell[t].v
          /\ shell'[t].held = cache[V(t)] /\ shell'[t].cmd = shell[t].cmd
      BY <1>11, <2>2, OpenEffect DEF Becomes, V
    <3>2. V(t) \in Versions
      BY <1>0, <3>1 DEF AtWorkOf, V
    <3> HIDE DEF Installing, Publishing
    <3>5. "unpack" \in Installing /\ "unpack" \notin Publishing /\ "open" \in Installing
      BY DEF Installing, Publishing
    <3> QED
      BY <1>0, <3>1, <3>5 DEF AtWorkOf
  <2> QED
    BY <2>1, <2>2
<1>12. CASE OpenFile(t) \/ WriteFile(t)
  <2>1. CASE OpenFile(t)
    <3>1. /\ shell[t].pc = "unpack" /\ shell'[t].pc = "write file" /\ shell'[t].v = shell[t].v
          /\ shell'[t].held = shell[t].held /\ shell'[t].cmd = shell[t].cmd /\ shell'[t].todo # <<>>
      BY <2>1, GoesOn DEF Stands, Becomes, V
    <3> QED
      BY <1>0, <3>1 DEF AtWorkOf
  <2>2. CASE WriteFile(t)
    <3>1. /\ shell[t].pc = "write file" /\ shell'[t].pc = "unpack" /\ shell'[t].v = shell[t].v
          /\ shell'[t].held = shell[t].held /\ shell'[t].cmd = shell[t].cmd
      BY <2>2, WriteFileEffect DEF Becomes, V
    <3> QED
      BY <1>0, <3>1 DEF AtWorkOf
  <2> QED
    BY <1>12, <2>1, <2>2
<1>13. CASE OpenArchive(t) \/ WriteArchive(t) \/ OpenMeta(t)
  <2>1. /\ shell[t].pc \in Publishing /\ shell'[t].pc \in Publishing /\ shell'[t].v = shell[t].v
        /\ shell'[t].held = shell[t].held /\ shell'[t].cmd = shell[t].cmd
    BY <1>13, PublishEffect DEF Stands, Becomes, V
  <2> QED
    BY <1>0, <2>1 DEF AtWorkOf
<1>14. CASE CleanOne(t) \/ PurgeOne(t)
  <2>1. shell' = shell
    BY <1>14 DEF CleanOne, PurgeOne
  <2> QED
    BY <1>0, <2>1 DEF AtWorkOf
<1>15. CASE Cleaned(t)
  <2>1. CASE shell[t].cmd = "purge" /\ Stands(t, "purge")
    <3>1. shell'[t].pc = "purge" /\ shell'[t].cmd = "purge" /\ shell[t].cmd = "purge"
      BY <2>1 DEF Stands, Becomes
    <3>2. t \in All({"purge"})
      BY <1>0, <3>1 DEF AtWorkOf
    <3> QED
      BY <1>0, <3>1, <3>2 DEF AtWorkOf
  <2>2. (shell[t].cmd = "purge" /\ Stands(t, "purge")) \/ Ends(t, "ok")
    BY <1>15, GoesOn
  <2> QED
    BY <1>3, <2>1, <2>2
<1>16. CASE Begin(t)
  <2>1. CASE /\ t \in All({"install", "offline"}) /\ shell'[t].pc = "resolve"
             /\ shell'[t].cmd \in {"install", "offline"}
    BY <1>0, <2>1 DEF AtWorkOf
  <2>2. CASE /\ t \in All({"publish"}) /\ shell'[t].pc = "copy" /\ shell'[t].cmd = "publish"
             /\ shell'[t].held \in Contents /\ shell'[t].v \in Versions
    BY <1>0, <2>2 DEF AtWorkOf
  <2>3. CASE /\ shell'[t].pc = "clean" /\ t \in All({"clean", "purge"})
             /\ shell'[t].cmd = "purge" => t \in All({"purge"})
    BY <1>0, <2>3 DEF AtWorkOf
  <2> QED
    BY <1>16, <2>1, <2>2, <2>3, BeginEffect
<1> QED
  BY <1>1, <1>2, <1>4, <1>6, <1>7, <1>8, <1>9, <1>10, <1>11, <1>12, <1>13, <1>14, <1>15, <1>16,
     OthersStay, NextIsStep DEF Step

-----------------------------------------------------------------------------
(* What a step does to the files                                           *)

\* What is left to unpack, after the head.
LEMMA HeadAndTail ==
    ASSUME NEW q \in Seq(Files), q # <<>>
    PROVE  Head(q) \in Files /\ \A f \in ToSet(q) : f = Head(q) \/ f \in ToSet(Tail(q))
<1>1. q \in Seq(Files) /\ Len(q) \in Nat \ {0} /\ Head(q) = q[1] /\ DOMAIN q = 1 .. Len(q)
  OBVIOUS
<1>2. Tail(q) \in Seq(Files) /\ Len(Tail(q)) = Len(q) - 1 /\ \A i \in 1 .. Len(q) - 1 : Tail(q)[i] = q[i + 1]
  BY <1>1
<1>3. ASSUME NEW i \in 1 .. Len(q), i # 1 PROVE q[i] \in ToSet(Tail(q))
  <2>1. i - 1 \in 1 .. Len(q) - 1 /\ Tail(q)[i - 1] = q[(i - 1) + 1] /\ (i - 1) + 1 = i
    BY <1>1, <1>2, <1>3
  <2>2. i - 1 \in DOMAIN Tail(q)
    BY <1>2, <2>1
  <2> QED
    BY <2>1, <2>2 DEF ToSet
<1> QED
  BY <1>1, <1>3 DEF ToSet

\* Nothing is left in an empty list.
LEMMA NothingLeft == ToSet(<<>>) = {}
BY DEF ToSet

\* An archive has files only, the import file among them.
LEMMA FilesOfVersion ==
    ASSUME NEW c \in Contents
    PROVE  FilesOf[c] \in Seq(Files) /\ ToSet(FilesOf[c]) \subseteq Files /\ Entry \in ToSet(FilesOf[c])
<1>1. FilesOf[c] \in Seq(Files) /\ Entry \in ToSet(FilesOf[c])
  BY StoreAssumption
<1> QED
  BY <1>1 DEF ToSet

\* The registry as a step leaves it.
LEMMA RegistryStep ==
    ASSUME TypeOK, AtWork, NEW s \in Shells, Step(s)
    PROVE  /\ \A v \in Versions :
                \/ reg'[v].meta = reg[v].meta
                \/ v = V(s) /\ OpenMeta(s) /\ reg'[v].meta = Blank
                \/ v = V(s) /\ WriteMeta(s) /\ reg'[v].meta = shell[s].sum
           /\ \A v \in Versions :
                \/ reg'[v].archive = reg[v].archive
                \/ v = V(s) /\ OpenArchive(s) /\ reg'[v].archive = Blank
                \/ v = V(s) /\ WriteArchive(s) /\ reg'[v].archive = shell[s].held
           /\ WriteArchive(s) => reg'[V(s)].archive = shell[s].held
           /\ OpenMeta(s) => reg'[V(s)].meta = Blank /\ reg'[V(s)].archive = reg[V(s)].archive
<1>1. reg \in [Versions -> [archive : File(Contents), meta : File(Contents)]]
  BY DEF TypeOK
<1>2. CASE OpenArchive(s)
  <2>1. shell[s].pc = "copy" /\ V(s) \in Versions
    BY <1>2 DEF OpenArchive, At, AtWork, Publishing
  <2>2. reg' = [reg EXCEPT ![V(s)].archive = Blank] /\ ~WriteArchive(s) /\ ~OpenMeta(s)
    BY <1>2, <2>1 DEF OpenArchive, WriteArchive, OpenMeta, At
  <2> QED
    BY <1>1, <1>2, <2>1, <2>2
<1>3. CASE WriteArchive(s)
  <2>1. shell[s].pc = "write archive" /\ V(s) \in Versions
    BY <1>3 DEF WriteArchive, At, AtWork, Publishing
  <2>2. reg' = [reg EXCEPT ![V(s)].archive = shell[s].held] /\ ~OpenMeta(s)
    BY <1>3, <2>1 DEF WriteArchive, OpenMeta, At
  <2> QED
    BY <1>1, <1>3, <2>1, <2>2
<1>4. CASE OpenMeta(s)
  <2>1. shell[s].pc = "digest" /\ V(s) \in Versions
    BY <1>4 DEF OpenMeta, At, AtWork, Publishing
  <2>2. reg' = [reg EXCEPT ![V(s)].meta = Blank] /\ ~WriteArchive(s)
    BY <1>4, <2>1 DEF WriteArchive, OpenMeta, At
  <2> QED
    BY <1>1, <1>4, <2>1, <2>2
<1>5. CASE WriteMeta(s)
  <2>1. shell[s].pc = "write meta" /\ V(s) \in Versions
    BY <1>5 DEF WriteMeta, At, AtWork, Publishing
  <2>2. reg' = [reg EXCEPT ![V(s)].meta = shell[s].sum] /\ ~WriteArchive(s) /\ ~OpenMeta(s)
    BY <1>5, <2>1 DEF WriteArchive, WriteMeta, OpenMeta, At
  <2> QED
    BY <1>1, <1>5, <2>1, <2>2
<1>6. CASE ~(OpenArchive(s) \/ WriteArchive(s) \/ OpenMeta(s) \/ WriteMeta(s))
  <2>1. reg' = reg
    BY <1>6 DEF Step, Begin, Kill, Resolve, Check, Download, Store, Verify, Open, OpenFile,
       WriteFile, OpenSum, WriteSum, OpenLock, WriteLock, CleanOne, Cleaned, PurgeOne, Purged
  <2> QED
    BY <1>6, <2>1
<1> QED
  BY <1>2, <1>3, <1>4, <1>5, <1>6

\* The store as a step leaves it.
LEMMA StoreStep ==
    ASSUME TypeOK, AtWork, NEW s \in Shells, Step(s)
    PROVE  /\ \A v \in Versions, f \in Files :
                \/ inst'[v].files[f] = inst[v].files[f]
                \/ /\ OpenFile(s) /\ v = V(s) /\ f = Head(shell[s].todo)
                   /\ inst'[v].files[f] = Blank
                \/ /\ WriteFile(s) /\ v = V(s) /\ f = Head(shell[s].todo)
                   /\ inst'[v].files[f] = shell[s].held
                \/ PurgeOne(s) /\ inst'[v].files[f] = Absent
           /\ \A v \in Versions :
                \/ inst'[v].sum = inst[v].sum
                \/ v = V(s) /\ OpenSum(s) /\ inst'[v].sum = Blank
                \/ v = V(s) /\ WriteSum(s) /\ inst'[v].sum = shell[s].sum
                \/ PurgeOne(s) /\ inst'[v].sum = Absent
           /\ OpenFile(s) => inst'[V(s)].files[Head(shell[s].todo)] = Blank
           /\ WriteFile(s) => inst'[V(s)].files[Head(shell[s].todo)] = shell[s].held
           /\ WriteSum(s) => inst'[V(s)].sum = shell[s].sum
           /\ OpenSum(s) => inst'[V(s)].sum = Blank
<1>1. inst \in [Versions -> [files : [Files -> File(Contents)], sum : File(Contents)]]
  BY DEF TypeOK
<1>2. ASSUME OpenFile(s) \/ WriteFile(s)
      PROVE  V(s) \in Versions /\ Head(shell[s].todo) \in Files /\ ~OpenSum(s) /\ ~WriteSum(s)
  <2>1. /\ shell[s].pc \in Unpacking /\ shell[s].todo # <<>> /\ shell[s].todo \in Seq(Files)
        /\ shell[s].pc # "sum" /\ (shell[s].pc = "unpack" => OpenFile(s))
    BY <1>2 DEF OpenFile, WriteFile, At, AtWork, Unpacking, TypeOK, ShellState
  <2>2. V(s) \in Versions
    BY <2>1 DEF AtWork, Installing
  <2> QED
    BY <1>2, <2>1, <2>2, HeadAndTail DEF OpenSum, WriteSum, WriteFile, At
<1>3. CASE OpenFile(s)
  <2>1. inst' = [inst EXCEPT ![V(s)].files[Head(shell[s].todo)] = Blank] /\ ~WriteFile(s)
    BY <1>3 DEF OpenFile, WriteFile, At
  <2> QED
    BY <1>1, <1>2, <1>3, <2>1
<1>4. CASE WriteFile(s)
  <2>1. inst' = [inst EXCEPT ![V(s)].files[Head(shell[s].todo)] = shell[s].held] /\ ~OpenFile(s)
    BY <1>4 DEF OpenFile, WriteFile, At, Content
  <2> QED
    BY <1>1, <1>2, <1>4, <2>1
<1>5. CASE OpenSum(s)
  <2>1. V(s) \in Versions /\ shell[s].pc = "unpack" /\ shell[s].todo = <<>>
    BY <1>5 DEF AtWork, Installing, Unpacking, OpenSum, At
  <2>2. ~OpenFile(s) /\ ~WriteFile(s) /\ ~WriteSum(s) /\ inst' = [inst EXCEPT ![V(s)].sum = Blank]
    BY <1>5, <2>1 DEF OpenSum, WriteSum, OpenFile, WriteFile, At
  <2> QED
    BY <1>1, <1>5, <2>1, <2>2
<1>6. CASE WriteSum(s)
  <2>1. V(s) \in Versions /\ shell[s].pc = "sum"
    BY <1>6 DEF AtWork, Installing, WriteSum, At
  <2>2. ~OpenFile(s) /\ ~WriteFile(s) /\ ~OpenSum(s) /\ inst' = [inst EXCEPT ![V(s)].sum = shell[s].sum]
    BY <1>6, <2>1 DEF OpenSum, WriteSum, OpenFile, WriteFile, At
  <2> QED
    BY <1>1, <1>6, <2>1, <2>2
<1>7. CASE PurgeOne(s)
  <2>1. ~OpenFile(s) /\ ~WriteFile(s) /\ ~OpenSum(s) /\ ~WriteSum(s)
    BY <1>7 DEF PurgeOne, OpenFile, WriteFile, OpenSum, WriteSum, At
  <2>2. CASE \E w \in Versions : inst' = [inst EXCEPT ![w].sum = Absent]
    BY <1>1, <1>7, <2>1, <2>2
  <2>3. ASSUME NEW w \in Versions, NEW g \in Files, inst' = [inst EXCEPT ![w].files[g] = Absent]
        PROVE  /\ \A v \in Versions : inst'[v].sum = inst[v].sum
               /\ \A v \in Versions, f \in Files :
                     inst'[v].files[f] = inst[v].files[f] \/ inst'[v].files[f] = Absent
    BY <1>1, <2>3
  <2>4. CASE \E w \in Versions, g \in Files : inst' = [inst EXCEPT ![w].files[g] = Absent]
    BY <1>7, <2>1, <2>3, <2>4
  <2> QED
    BY <1>7, <2>2, <2>4 DEF PurgeOne
<1>8. CASE ~(OpenFile(s) \/ WriteFile(s) \/ OpenSum(s) \/ WriteSum(s) \/ PurgeOne(s))
  <2>1. inst' = inst
    BY <1>8 DEF Step, Begin, Kill, Resolve, Check, Download, Store, Verify, Open, AfterOpen,
       OpenLock, WriteLock, OpenArchive, WriteArchive, OpenMeta, WriteMeta, CleanOne, Cleaned, Purged
  <2> QED
    BY <1>8, <2>1
<1> QED
  BY <1>3, <1>4, <1>5, <1>6, <1>7, <1>8

\* The cache as a step leaves it.
LEMMA CacheHolds ==
    ASSUME TypeOK, AtWork, NEW s \in Shells, Step(s), NEW v \in Versions
    PROVE  cache'[v] \in {cache[v], Absent, Blank} \/ (v = V(s) /\ Store(s) /\ cache'[v] = shell[s].held)
<1>1. cache \in [Versions -> File(Contents)]
  BY DEF TypeOK
<1>2. \/ cache' = cache
      \/ \E w \in Versions : cache' = [cache EXCEPT ![w] = Absent]
      \/ cache' = [cache EXCEPT ![V(s)] = Absent]
      \/ cache' = [cache EXCEPT ![V(s)] = Blank]
      \/ Store(s) /\ cache' = [cache EXCEPT ![V(s)] = shell[s].held]
  BY DEF Step, Begin, Kill, Resolve, Check, Download, Store, Verify, Open, OpenFile, WriteFile, OpenSum, WriteSum,
     OpenLock, WriteLock, OpenArchive, WriteArchive, OpenMeta, WriteMeta, CleanOne, Cleaned, PurgeOne, Purged
<1> QED
  BY <1>1, <1>2

\* Nobody purges where nobody was told to.
LEMMA NoPurge ==
    ASSUME AtWork, NobodyPurges, NEW s \in Shells
    PROVE  ~PurgeOne(s)
BY DEF AtWork, NobodyPurges, PurgeOne, At

\* Where a shell stands when something is left for it to do after the unpacking.
LEMMA ShellStep ==
    ASSUME TypeOK, AtWork, NEW s \in Shells, Step(s)
    PROVE  /\ shell'[s].pc \in Unpacking =>
                \/ /\ Open(s) /\ cache[V(s)] \in Contents /\ shell'[s].held = cache[V(s)]
                   /\ shell'[s].todo = FilesOf[cache[V(s)]] /\ shell'[s].v = V(s)
                \/ /\ OpenFile(s) /\ shell[s].pc = "unpack" /\ shell[s].todo # <<>>
                   /\ shell'[s].held = shell[s].held /\ shell'[s].todo = shell[s].todo /\ shell'[s].v = V(s)
                \/ /\ WriteFile(s) /\ shell[s].pc = "write file" /\ shell[s].todo \in Seq(Files) /\ shell[s].todo # <<>>
                   /\ shell'[s].held = shell[s].held /\ shell'[s].todo = Tail(shell[s].todo) /\ shell'[s].v = V(s)
           /\ shell'[s].pc = "sum" =>
                OpenSum(s) /\ shell[s].pc = "unpack" /\ shell[s].todo = <<>> /\ shell'[s].v = V(s)
                /\ shell'[s].sum = shell[s].sum
           /\ shell'[s].pc = "lock" =>
                /\ shell'[s].v = V(s)
                /\ \/ WriteSum(s) /\ shell[s].pc = "sum"
                   \/ Check(s) /\ shell[s].pc = "check" /\ inst[V(s)].sum # Absent
           /\ shell'[s].pc = "write lock" => shell[s].pc = "lock" /\ shell'[s].v = V(s)
<1> USE DEF Unpacking
<1>0. \A last : Ends(s, last) => shell'[s].pc = "idle"
  BY DEF Ends
<1>1. CASE Kill(s) \/ WriteMeta(s) \/ Purged(s) \/ Fail(s) \/ WriteLock(s)
  <2>1. shell'[s].pc = "idle"
    BY <1>0, <1>1, GoesOn, FailEnds, WriteLockEffect
  <2> QED
    BY <2>1
<1>2. CASE Begin(s)
  <2>1. shell'[s].pc \in {"resolve", "copy", "clean"}
    BY <1>2, BeginEffect
  <2> QED
    BY <2>1
<1>3. CASE Resolve(s) /\ ~Fail(s)
  <2>1. shell'[s].pc = "check"
    BY <1>3, ResolveEffect DEF Becomes
  <2> QED
    BY <2>1
<1>4. CASE Check(s)
  <2>1. \/ shell'[s].pc \in {"idle", "verify", "download"}
        \/ shell'[s].pc = "lock" /\ shell[s].pc = "check" /\ shell'[s].v = V(s) /\ inst[V(s)].sum # Absent
    BY <1>0, <1>4, CheckEffect DEF Stands, Becomes, IsInstalledAndValid
  <2> QED
    BY <1>4, <2>1
<1>5. CASE Download(s) \/ Store(s) \/ (Verify(s) /\ ~Fail(s))
  <2>1. shell'[s].pc \in {"store", "verify", "open"}
    BY <1>5, DownloadEffect, GoesOn, VerifyEffect DEF Becomes, Stands
  <2> QED
    BY <2>1
<1>6. CASE Open(s) /\ ~Fail(s)
  <2>1. /\ shell'[s].pc = "unpack" /\ cache[V(s)] \in Contents /\ shell'[s].held = cache[V(s)]
        /\ shell'[s].todo = FilesOf[cache[V(s)]] /\ shell'[s].v = V(s)
    BY <1>6, OpenEffect DEF Becomes
  <2> QED
    BY <1>6, <2>1
<1>7. CASE OpenFile(s) \/ WriteFile(s)
  <2>1. CASE OpenFile(s)
    <3>1. /\ shell[s].pc = "unpack" /\ shell[s].todo # <<>> /\ shell'[s].pc = "write file"
          /\ shell'[s].held = shell[s].held /\ shell'[s].todo = shell[s].todo /\ shell'[s].v = V(s)
      BY <2>1, GoesOn DEF Stands, Becomes
    <3> QED
      BY <2>1, <3>1
  <2>2. CASE WriteFile(s)
    <3>1. /\ shell[s].pc = "write file" /\ shell[s].todo \in Seq(Files) /\ shell[s].todo # <<>>
          /\ shell'[s].pc = "unpack" /\ shell'[s].held = shell[s].held
          /\ shell'[s].todo = Tail(shell[s].todo) /\ shell'[s].v = V(s)
      BY <2>2, WriteFileEffect DEF Becomes
    <3> QED
      BY <2>2, <3>1
  <2> QED
    BY <1>7, <2>1, <2>2
<1>8. CASE OpenSum(s)
  <2>1. /\ shell[s].pc = "unpack" /\ shell[s].todo = <<>> /\ shell'[s].pc = "sum" /\ shell'[s].v = V(s)
        /\ shell'[s].sum = shell[s].sum
    BY <1>8, GoesOn DEF Stands, Becomes
  <2> QED
    BY <1>8, <2>1
<1>9. CASE WriteSum(s)
  <2>1. shell[s].pc = "sum" /\ shell'[s].pc = "lock" /\ shell'[s].v = V(s)
    BY <1>9, GoesOn DEF Stands, Becomes
  <2> QED
    BY <1>9, <2>1
<1>10. CASE OpenLock(s)
  <2>1. shell[s].pc = "lock" /\ shell'[s].pc = "write lock" /\ shell'[s].v = V(s)
    BY <1>10, GoesOn DEF Stands, Becomes
  <2> QED
    BY <2>1
<1>11. CASE OpenArchive(s) \/ WriteArchive(s) \/ OpenMeta(s)
  <2>1. shell'[s].pc \in {"write archive", "digest", "write meta"}
    BY <1>11, PublishEffect DEF Stands, Becomes
  <2> QED
    BY <2>1
<1>12. CASE CleanOne(s) \/ PurgeOne(s)
  <2>1. shell' = shell /\ shell[s].pc \in {"clean", "purge"}
    BY <1>12, GoesOn
  <2> QED
    BY <2>1
<1>13. CASE Cleaned(s)
  <2>1. shell'[s].pc \in {"idle", "purge"}
    BY <1>0, <1>13, GoesOn DEF Stands, Becomes
  <2> QED
    BY <2>1
<1> QED
  BY <1>1, <1>2, <1>3, <1>4, <1>5, <1>6, <1>7, <1>8, <1>9, <1>10, <1>11, <1>12, <1>13 DEF Step

-----------------------------------------------------------------------------
(* Nothing but what was published                                          *)

\* What a command holds in its hands, on a version it works on.
HandsOf(s) ==
    {shell[s].want, shell[s].sum, shell[s].held} \subseteq
        IF shell[s].pc \in Installing \cup Publishing THEN File(Known(shell[s].v)) ELSE {Absent}

\* At first every file is absent and every hand empty.
LEMMA InitOnlyPublished == Init => OnlyPublished
<1> SUFFICES ASSUME Init PROVE OnlyPublished
  OBVIOUS
<1>1. \A v \in Versions : Absent \in File(Known(v))
  BY DEF File
<1>2. \A s \in Shells : shell[s].pc = "idle" /\ shell[s].want = Absent /\ shell[s].sum = Absent
                       /\ shell[s].held = Absent
  BY DEF Init, Idle
<1>3. "idle" \notin Installing \cup Publishing
  BY DEF Installing, Unpacking, Publishing
<1>4. \A v \in Versions : /\ reg[v].archive = Absent /\ reg[v].meta = Absent /\ cache[v] = Absent
                           /\ inst[v].sum = Absent /\ \A f \in Files : inst[v].files[f] = Absent
  BY DEF Init
<1> QED
  BY <1>1, <1>2, <1>3, <1>4 DEF OnlyPublished

\* A version that is published with a tree has it, and had all it has else.
LEMMA GivesOne ==
    ASSUME TypeOK, NEW v \in Versions, NEW c \in Contents, Gives(v, c)
    PROVE  /\ \A w \in Versions : Known(w) \subseteq Known(w)'
           /\ c \in Known(v)' /\ Newest(v, c)'
           /\ \A w \in Versions : w = v \/ published'[w] = published[w]
           /\ \/ published'[v] = published[v] /\ Newest(v, c)
              \/ /\ published'[v] = Append(published[v], c)
                 /\ \A x : Newest(v, x)' <=> x = c
<1>1. published \in [Versions -> Seq(Contents)] /\ published[v] \in Seq(Contents)
  BY DEF TypeOK
<1>2. \A w \in Versions : w = v \/ published'[w] = published[w]
  BY <1>1 DEF Gives
<1>3. CASE Newest(v, c)
  <2>1. published' = published
    BY <1>1, <1>3 DEF Gives
  <2>2. Len(published[v]) \in DOMAIN published[v] /\ c = published[v][Len(published[v])]
    BY <1>1, <1>3 DEF Newest, Last
  <2>3. c \in Known(v)
    BY <2>2 DEF Known, ToSet
  <2> QED
    BY <1>3, <2>1, <2>3 DEF Known, Newest
<1>4. CASE ~Newest(v, c)
  <2> DEFINE q == published[v]
             n == Len(q)
  <2>1. published'[v] = Append(q, c)
    BY <1>1, <1>4 DEF Gives
  <2>2. /\ n \in Nat /\ q \in Seq(Contents) /\ Append(q, c) \in Seq(Contents) /\ Len(Append(q, c)) = n + 1
        /\ DOMAIN q = 1 .. n /\ DOMAIN Append(q, c) = 1 .. n + 1 /\ Append(q, c)[n + 1] = c
        /\ \A i \in 1 .. n : Append(q, c)[i] = q[i]
    BY <1>1
  <2>3. ToSet(q) \subseteq ToSet(Append(q, c)) /\ c \in ToSet(Append(q, c))
    BY <2>2 DEF ToSet
  <2>4. Append(q, c) # <<>> /\ Last(Append(q, c)) = c
    <3>1. Len(Append(q, c)) # 0 /\ Append(q, c)[Len(Append(q, c))] = c
      BY <2>2
    <3>2. Len(<<>>) = 0
      OBVIOUS
    <3> QED
      BY <3>1, <3>2 DEF Last
  <2>5. \A x : Newest(v, x)' <=> x = c
    BY <2>1, <2>4 DEF Newest
  <2>6. Known(v)' = ToSet(Append(q, c))
    BY <2>1 DEF Known
  <2> QED
    BY <1>2, <2>1, <2>3, <2>5, <2>6 DEF Known
<1> QED
  BY <1>3, <1>4

\* What was known stays known.
LEMMA KnownStays ==
    ASSUME TypeOK, NEW s \in Shells, Step(s), NEW v \in Versions
    PROVE  File(Known(v)) \subseteq File(Known(v))'
<1>1. Known(v) \subseteq Known(v)'
  <2>1. CASE published' = published
    BY <2>1 DEF Known
  <2>2. CASE published' # published
    <3>1. Begin(s)
      BY <2>2, OnlyBeginGives
    <3> QED
      BY <2>2, <3>1, BeginEffect, GivesOne
  <2> QED
    BY <2>1, <2>2
<1> QED
  BY <1>1 DEF File

\* Where a command has what it holds from.
LEMMA HandStep ==
    ASSUME TypeOK, AtWork, NEW s \in Shells, Step(s)
    PROVE  \/ /\ shell'[s].pc \notin Installing \cup Publishing
              /\ \/ {shell'[s].want, shell'[s].sum, shell'[s].held} \subseteq {Absent}
                 \/ /\ shell[s].pc \notin Installing \cup Publishing
                    /\ shell'[s].want = shell[s].want /\ shell'[s].sum = shell[s].sum
                    /\ shell'[s].held = shell[s].held
           \/ /\ shell'[s].pc = "copy" /\ shell'[s].want = Absent /\ shell'[s].sum = Absent
              /\ shell'[s].v \in Versions /\ shell'[s].held \in Contents
              /\ Gives(shell'[s].v, shell'[s].held)
           \/ /\ shell[s].pc = "resolve" /\ shell'[s].pc = "check" /\ shell'[s].v \in Versions
              /\ shell'[s].want = reg[shell'[s].v].meta /\ shell'[s].sum = shell[s].sum
              /\ shell'[s].held = shell[s].held
           \/ /\ {shell[s].pc, shell'[s].pc} \subseteq Installing \cup Publishing
              /\ shell'[s].v = V(s) /\ V(s) \in Versions /\ shell'[s].want = shell[s].want
              /\ {shell'[s].sum, shell'[s].held} \subseteq
                    {shell[s].sum, shell[s].held, cache[V(s)], reg[V(s)].archive}
<1>0. \A last : Ends(s, last) => /\ shell'[s].pc \notin Installing \cup Publishing
                                 /\ {shell'[s].want, shell'[s].sum, shell'[s].held} \subseteq {Absent}
  BY DEF Ends, Installing, Unpacking, Publishing
<1>a. \A p : Stands(s, p) => /\ shell'[s].pc = p /\ shell'[s].v = V(s) /\ shell'[s].want = shell[s].want
                             /\ shell'[s].sum = shell[s].sum /\ shell'[s].held = shell[s].held
  BY DEF Stands, Becomes
<1>b. shell[s].pc \in Installing \cup Publishing => V(s) \in Versions
  BY DEF AtWork
<1>c. /\ Installing = {"check", "download", "store", "verify", "open", "sum", "lock", "write lock", "unpack", "write file"}
      /\ Publishing = {"copy", "write archive", "digest", "write meta"}
  BY DEF Installing, Unpacking, Publishing
<1>1. CASE Begin(s)
  BY <1>1, <1>c, BeginEffect
<1>2. CASE Kill(s) \/ WriteMeta(s) \/ Purged(s) \/ Fail(s) \/ WriteLock(s)
  BY <1>0, <1>2, GoesOn, FailEnds, WriteLockEffect
<1>3. CASE Resolve(s) /\ ~Fail(s)
  BY <1>3, ResolveEffect DEF Becomes
<1>4. CASE Check(s)
  BY <1>0, <1>4, <1>a, <1>b, <1>c, CheckEffect
<1>5. CASE Download(s)
  BY <1>5, <1>b, <1>c, DownloadEffect DEF Becomes
<1>6. CASE Verify(s) /\ ~Fail(s)
  BY <1>6, <1>b, <1>c, VerifyEffect DEF Becomes
<1>7. CASE Open(s) /\ ~Fail(s)
  BY <1>7, <1>b, <1>c, OpenEffect DEF Becomes
<1>8. CASE WriteFile(s)
  BY <1>8, <1>b, <1>c, WriteFileEffect DEF Becomes
<1>9. CASE Store(s) \/ OpenFile(s) \/ OpenSum(s) \/ WriteSum(s) \/ OpenLock(s)
  BY <1>9, <1>a, <1>b, <1>c, GoesOn
<1>10. CASE OpenArchive(s) \/ WriteArchive(s) \/ OpenMeta(s)
  <2>1. CASE OpenMeta(s)
    BY <1>b, <1>c, <2>1, PublishEffect DEF Becomes
  <2>2. CASE OpenArchive(s) \/ WriteArchive(s)
    BY <1>a, <1>b, <1>c, <2>2, PublishEffect
  <2> QED
    BY <1>10, <2>1, <2>2
<1>11. CASE CleanOne(s) \/ PurgeOne(s)
  <2>1. shell' = shell /\ shell[s].pc \in {"clean", "purge"}
    BY <1>11, GoesOn
  <2> QED
    BY <1>c, <2>1
<1>12. CASE Cleaned(s)
  BY <1>0, <1>12, <1>a, <1>c, GoesOn
<1> QED
  BY <1>1, <1>2, <1>3, <1>4, <1>5, <1>6, <1>7, <1>8, <1>9, <1>10, <1>11, <1>12 DEF Step

\* No step brings in anything that was not published.
LEMMA NextOnlyPublished == TypeOK /\ AtWork /\ OnlyPublished /\ [Next]_vars => OnlyPublished'
<1> SUFFICES ASSUME TypeOK, AtWork, OnlyPublished, [Next]_vars PROVE OnlyPublished'
  OBVIOUS
<1>1. CASE UNCHANGED vars
  BY <1>1 DEF OnlyPublished, vars, V, Known
<1>2. ASSUME NEW s \in Shells, Step(s) PROVE OnlyPublished'
  <2>1. ASSUME NEW t \in Shells PROVE HandsOf(t)
    BY DEF OnlyPublished, HandsOf, V
  <2>2. \A v \in Versions : /\ File(Known(v)) \subseteq File(Known(v))' /\ Absent \in File(Known(v))
                             /\ Blank \in File(Known(v))
    BY <1>2, KnownStays DEF File
  <2>3. /\ shell[s].pc \in Installing \cup Publishing => V(s) \in Versions
        /\ V(s) \in Versions /\ shell[s].pc \in Installing \cup Publishing =>
              {shell[s].want, shell[s].sum, shell[s].held} \subseteq File(Known(V(s)))
    BY <2>1 DEF AtWork, HandsOf, V
  <2>4. ASSUME NEW v \in Versions
        PROVE  /\ reg'[v].archive \in File(Known(v))' /\ reg'[v].meta \in File(Known(v))'
               /\ cache'[v] \in File(Known(v))' /\ inst'[v].sum \in File(Known(v))'
               /\ \A f \in Files : inst'[v].files[f] \in File(Known(v))'
    <3>0. /\ reg[v].archive \in File(Known(v)) /\ reg[v].meta \in File(Known(v))
          /\ cache[v] \in File(Known(v)) /\ inst[v].sum \in File(Known(v))
          /\ \A f \in Files : inst[v].files[f] \in File(Known(v))
      BY DEF OnlyPublished
    <3>a. /\ WriteArchive(s) \/ WriteMeta(s) => shell[s].pc \in Publishing
          /\ Store(s) \/ WriteFile(s) \/ WriteSum(s) => shell[s].pc \in Installing
      BY DEF WriteArchive, WriteMeta, Store, WriteFile, WriteSum, At, Publishing, Installing, Unpacking
    <3>1. reg'[v].archive \in File(Known(v)) /\ reg'[v].meta \in File(Known(v))
      BY <1>2, <2>2, <2>3, <3>0, <3>a, RegistryStep
    <3>2. cache'[v] \in File(Known(v))
      BY <1>2, <2>2, <2>3, <3>0, <3>a, CacheHolds
    <3>3. inst'[v].sum \in File(Known(v))
      BY <1>2, <2>2, <2>3, <3>0, <3>a, StoreStep
    <3>4. \A f \in Files : inst'[v].files[f] \in File(Known(v))
      BY <1>2, <2>2, <2>3, <3>0, <3>a, StoreStep
    <3> QED
      BY <2>2, <3>1, <3>2, <3>3, <3>4
  <2>5. ASSUME NEW t \in Shells, t # s PROVE HandsOf(t)'
    <3>1. /\ shell'[t].pc = shell[t].pc /\ shell'[t].v = V(t) /\ shell'[t].want = shell[t].want
          /\ shell'[t].sum = shell[t].sum /\ shell'[t].held = shell[t].held
      BY <1>2, <2>5, OthersStay DEF Same, Becomes
    <3>2. shell[t].pc \in Installing \cup Publishing => V(t) \in Versions
      BY DEF AtWork
    <3> QED
      BY <2>1, <2>2, <3>1, <3>2 DEF HandsOf, V
  <2>6. HandsOf(s)'
    <3>1. CASE shell'[s].pc \notin Installing \cup Publishing
      <4>1. {shell'[s].want, shell'[s].sum, shell'[s].held} \subseteq {Absent}
        <5>1. "copy" \in Installing \cup Publishing /\ "check" \in Installing \cup Publishing
          BY DEF Publishing, Installing
        <5>2. \/ {shell'[s].want, shell'[s].sum, shell'[s].held} \subseteq {Absent}
              \/ /\ shell[s].pc \notin Installing \cup Publishing
                 /\ shell'[s].want = shell[s].want /\ shell'[s].sum = shell[s].sum
                 /\ shell'[s].held = shell[s].held
          BY <1>2, <3>1, <5>1, HandStep
        <5> QED
          BY <2>1, <5>2 DEF HandsOf
      <4> QED
        BY <3>1, <4>1 DEF HandsOf
    <3>2. CASE /\ shell'[s].pc = "copy" /\ shell'[s].want = Absent /\ shell'[s].sum = Absent
               /\ shell'[s].v \in Versions /\ shell'[s].held \in Contents
               /\ Gives(shell'[s].v, shell'[s].held)
      <4>1. shell'[s].held \in ToSet(published'[shell'[s].v])
        <5>1. PICK v \in Versions, c \in Contents : v = shell'[s].v /\ c = shell'[s].held
          BY <3>2
        <5>2. c \in Known(v)'
          BY <3>2, <5>1, GivesOne
        <5> QED
          BY <5>1, <5>2 DEF Known
      <4> QED
        BY <3>2, <4>1 DEF HandsOf, File, Known, Publishing
    <3>3. CASE /\ shell[s].pc = "resolve" /\ shell'[s].pc = "check" /\ shell'[s].v \in Versions
               /\ shell'[s].want = reg[shell'[s].v].meta /\ shell'[s].sum = shell[s].sum
               /\ shell'[s].held = shell[s].held
      <4>1. shell[s].sum = Absent /\ shell[s].held = Absent
        BY <2>1, <3>3 DEF HandsOf, Installing, Unpacking, Publishing
      <4>2. PICK v \in Versions : v = shell'[s].v
        BY <3>3
      <4>3. reg[v].meta \in File(Known(v))' /\ Absent \in File(Known(v))'
        BY <2>2 DEF OnlyPublished
      <4> QED
        BY <3>3, <4>1, <4>2, <4>3 DEF HandsOf, Known, Installing
    <3>4. CASE /\ {shell[s].pc, shell'[s].pc} \subseteq Installing \cup Publishing
               /\ shell'[s].v = V(s) /\ V(s) \in Versions /\ shell'[s].want = shell[s].want
               /\ {shell'[s].sum, shell'[s].held} \subseteq
                     {shell[s].sum, shell[s].held, cache[V(s)], reg[V(s)].archive}
      <4>1. PICK v \in Versions : v = V(s)
        BY <3>4
      <4>2. {shell[s].want, shell[s].sum, shell[s].held, cache[v], reg[v].archive} \subseteq File(Known(v))'
        BY <2>2, <2>3, <3>4, <4>1 DEF OnlyPublished
      <4> QED
        BY <3>4, <4>1, <4>2 DEF HandsOf, Known
    <3> QED
      BY <1>2, <3>1, <3>2, <3>3, <3>4, HandStep
  <2>7. \A t \in Shells : HandsOf(t)'
    <3> TAKE t \in Shells
    <3>1. CASE t = s
      BY <2>6, <3>1 DEF HandsOf
    <3> QED
      BY <2>5, <3>1
  <2> QED
    BY <2>4, <2>7 DEF OnlyPublished, HandsOf, V
<1> QED
  BY <1>1, <1>2, NextIsStep

-----------------------------------------------------------------------------
(* A lock says that the import file is there                               *)

\* At first nothing is locked.
LEMMA InitEntry == Init => EntryStays
<1> SUFFICES ASSUME Init PROVE EntryStays
  OBVIOUS
<1>1. \A s \in Shells : shell[s].pc = "idle" /\ lock[s] = Absent
  BY DEF Init, Idle
<1>2. \A v \in Versions : inst[v].sum = Absent
  BY DEF Init
<1>3. Absent \notin Versions
  BY StoreAssumption DEF Absent
<1> QED
  BY <1>1, <1>2, <1>3 DEF EntryStays, Unpacking

\* The import file of a version is there.
There(v) == inst[v].files[Entry] # Absent

\* Without a purge, no step takes the import file from a version that has it.
LEMMA NextEntry ==
    ASSUME TypeOK, AtWork, NobodyPurges, EntryStays, [Next]_vars
    PROVE  EntryStays'
<1>1. CASE UNCHANGED vars
  BY <1>1 DEF EntryStays, vars, V
<1>2. ASSUME NEW s \in Shells, Step(s) PROVE EntryStays'
  <2>0. Entry \in Files /\ Absent \notin Versions /\ Absent \notin Contents /\ Blank # Absent
    BY StoreAssumption DEF Absent, Blank
  <2>1. ASSUME NEW v \in Versions, There(v) PROVE There(v)'
    <3>1. CASE inst'[v].files[Entry] = inst[v].files[Entry]
      BY <2>1, <3>1 DEF There
    <3>2. CASE WriteFile(s) /\ inst'[v].files[Entry] = shell[s].held
      <4>1. shell[s].held \in Contents
        BY <3>2 DEF WriteFile, At, AtWork, Unpacking
      <4> QED
        BY <2>0, <3>2, <4>1 DEF There
    <3>3. CASE inst'[v].files[Entry] = Blank
      BY <2>0, <3>3 DEF There
    <3> QED
      BY <1>2, <2>0, <3>1, <3>2, <3>3, StoreStep, NoPurge
  <2>2. ASSUME NEW v \in Versions, inst'[v].sum # Absent PROVE There(v)'
    <3>1. CASE inst'[v].sum = inst[v].sum
      BY <2>1, <2>2, <3>1 DEF EntryStays, There
    <3>2. CASE v = V(s) /\ OpenSum(s)
      <4>1. shell[s].pc = "unpack" /\ shell[s].todo = <<>>
        BY <3>2, GoesOn
      <4> QED
        BY <2>1, <3>2, <4>1, NothingLeft DEF EntryStays, There, Unpacking
    <3>3. CASE v = V(s) /\ WriteSum(s)
      <4>1. shell[s].pc = "sum"
        BY <3>3, GoesOn
      <4> QED
        BY <2>1, <3>3, <4>1 DEF EntryStays, There
    <3> QED
      BY <1>2, <3>1, <3>2, <3>3, StoreStep, NoPurge
  <2>3. ASSUME NEW t \in Shells, shell'[t].pc \in Unpacking
        PROVE  Entry \in ToSet(shell'[t].todo) \/ There(V(t))'
    <3>1. CASE t # s
      <4>1. shell[t].pc \in Unpacking /\ shell'[t].todo = shell[t].todo /\ V(t)' = V(t)
        BY <1>2, <2>3, <3>1, OthersStay DEF Same, Becomes, V
      <4>2. V(t) \in Versions
        BY <4>1 DEF AtWork, Installing
      <4> QED
        BY <2>1, <4>1, <4>2 DEF EntryStays, There
    <3>2. CASE t = s /\ cache[V(s)] \in Contents /\ shell'[s].todo = FilesOf[cache[V(s)]]
      BY <3>2, FilesOfVersion
    <3>3. CASE /\ t = s /\ OpenFile(s) /\ shell[s].pc = "unpack" /\ shell'[s].todo = shell[s].todo
               /\ shell'[s].v = V(s)
      <4>1. V(s) \in Versions /\ V(s)' = V(s)
        BY <3>3 DEF AtWork, Installing, Unpacking, V
      <4>2. Entry \in ToSet(shell[s].todo) \/ There(V(s))
        BY <3>3 DEF EntryStays, There, Unpacking
      <4> QED
        BY <2>1, <3>3, <4>1, <4>2
    <3>4. CASE /\ t = s /\ WriteFile(s) /\ shell[s].pc = "write file" /\ shell[s].todo \in Seq(Files)
               /\ shell[s].todo # <<>> /\ shell'[s].todo = Tail(shell[s].todo) /\ shell'[s].v = V(s)
      <4>1. V(s) \in Versions /\ shell[s].held \in Contents /\ V(s)' = V(s)
        BY <3>4 DEF AtWork, Installing, Unpacking, V
      <4>2. CASE There(V(s))
        BY <2>1, <3>4, <4>1, <4>2
      <4>3. CASE Entry \in ToSet(Tail(shell[s].todo))
        BY <3>4, <4>3
      <4>4. CASE Entry = Head(shell[s].todo)
        <5>1. inst'[V(s)].files[Entry] = shell[s].held
          BY <1>2, <3>4, <4>4, StoreStep
        <5> QED
          BY <2>0, <3>4, <4>1, <5>1 DEF There
      <4>5. Entry \in ToSet(shell[s].todo) \/ There(V(s))
        BY <3>4 DEF EntryStays, There, Unpacking
      <4> QED
        BY <3>4, <4>2, <4>3, <4>4, <4>5, HeadAndTail
    <3> QED
      BY <1>2, <2>3, <3>1, <3>2, <3>3, <3>4, ShellStep
  <2>4. ASSUME NEW t \in Shells, shell'[t].pc \in {"sum", "lock", "write lock"}
        PROVE  There(V(t))'
    <3>1. CASE t # s
      <4>1. shell[t].pc = shell'[t].pc /\ V(t)' = V(t)
        BY <1>2, <3>1, OthersStay DEF Same, Becomes, V
      <4>2. V(t) \in Versions
        BY <2>4, <4>1 DEF AtWork, Installing
      <4> QED
        BY <2>1, <2>4, <4>1, <4>2 DEF EntryStays, There
    <3>2. CASE t = s
      <4>1. /\ shell'[s].v = V(s)
            /\ \/ shell[s].pc = "unpack" /\ shell[s].todo = <<>>
               \/ shell[s].pc \in {"sum", "lock"}
               \/ shell[s].pc = "check" /\ inst[V(s)].sum # Absent
        BY <1>2, <2>4, <3>2, ShellStep
      <4>2. V(s) \in Versions /\ V(s)' = V(s)
        BY <4>1 DEF AtWork, Installing, Unpacking, V
      <4>3. There(V(s))
        BY <4>1, <4>2, NothingLeft DEF EntryStays, There, Unpacking
      <4> QED
        BY <2>1, <3>2, <4>2, <4>3
    <3> QED
      BY <3>1, <3>2
  <2>5. ASSUME NEW t \in Shells, lock'[t] \in Versions
        PROVE  inst'[lock'[t]].files[Entry] # Absent
    <3>1. CASE lock'[t] = lock[t]
      <4>1. There(lock[t])
        BY <2>5, <3>1 DEF EntryStays, There
      <4> QED
        BY <2>1, <2>5, <3>1, <4>1 DEF There
    <3>2. CASE WriteLock(s) /\ t = s /\ lock'[t] = V(s)
      <4>1. shell[s].pc = "write lock"
        BY <3>2, WriteLockEffect
      <4>2. There(V(s))
        BY <4>1 DEF EntryStays, There
      <4> QED
        BY <2>1, <2>5, <3>2, <4>2 DEF There
    <3>3. lock'[t] = lock[t] \/ lock'[t] = Blank \/ (WriteLock(s) /\ t = s /\ lock'[t] = V(s))
      BY <1>2 DEF TypeOK, Step, Begin, Kill, Resolve, Check, Download, Store, Verify, Open, OpenFile, WriteFile,
         OpenSum, WriteSum, OpenLock, WriteLock, OpenArchive, WriteArchive, OpenMeta, WriteMeta, CleanOne,
         Cleaned, PurgeOne, Purged
    <3>4. Blank \notin Versions
      BY StoreAssumption DEF Blank
    <3> QED
      BY <2>5, <3>1, <3>2, <3>3, <3>4
  <2> QED
    BY <2>2, <2>3, <2>4, <2>5 DEF EntryStays, There, V
<1> QED
  BY <1>1, <1>2, NextIsStep

-----------------------------------------------------------------------------
(* Unpacking                                                               *)

\* What is on its way to a version is there when nothing is left to unpack.
LEMMA AllUnpacked ==
    ASSUME TypeOK, AtWork, NEW s \in Shells, shell[s].pc = "unpack", shell[s].todo = <<>>,
           \A f \in ToSet(FilesOf[shell[s].held]) : OnTheWay(s, f)
    PROVE  V(s) \in Versions /\ HasAll(V(s), shell[s].held)
BY NothingLeft DEF AtWork, Installing, Unpacking, OnTheWay, HasAll

\* Unpacking leaves nothing out, as long as nobody else writes something else.
LEMMA UnpackOnTheWay ==
    ASSUME TypeOK, AtWork, NobodyPurges, NEW s \in Shells, Step(s), shell'[s].pc \in Unpacking,
           shell[s].pc \in Unpacking => \A f \in ToSet(FilesOf[shell[s].held]) : OnTheWay(s, f)
    PROVE  \A f \in ToSet(FilesOf[shell'[s].held]) : OnTheWay(s, f)'
<1>1. CASE cache[V(s)] \in Contents /\ shell'[s].held = cache[V(s)] /\ shell'[s].todo = FilesOf[cache[V(s)]]
  BY <1>1 DEF OnTheWay
<1>2. CASE /\ OpenFile(s) /\ shell[s].pc = "unpack" /\ shell[s].todo # <<>>
           /\ shell'[s].held = shell[s].held /\ shell'[s].todo = shell[s].todo /\ shell'[s].v = V(s)
  <2> SUFFICES ASSUME NEW f \in ToSet(FilesOf[shell[s].held]) PROVE OnTheWay(s, f)'
    BY <1>2
  <2>1. V(s) \in Versions /\ V(s)' = V(s) /\ shell[s].held \in Contents /\ shell[s].todo \in Seq(Files)
    BY <1>2 DEF AtWork, Installing, Unpacking, V, TypeOK, ShellState
  <2>2. f \in Files /\ OnTheWay(s, f)
    BY <1>2, <2>1, FilesOfVersion DEF Unpacking
  <2>3. Head(shell[s].todo) \in ToSet(shell[s].todo)
    <3>1. 1 \in DOMAIN shell[s].todo /\ Head(shell[s].todo) = shell[s].todo[1]
      BY <1>2, <2>1
    <3> QED
      BY <3>1 DEF ToSet
  <2>4. f = Head(shell[s].todo) \/ inst'[V(s)].files[f] = inst[V(s)].files[f]
    BY <1>2, <2>1, <2>2, StoreStep, NoPurge DEF WriteFile, At
  <2> QED
    BY <1>2, <2>1, <2>2, <2>3, <2>4 DEF OnTheWay
<1>3. CASE /\ WriteFile(s) /\ shell[s].pc = "write file" /\ shell[s].todo \in Seq(Files) /\ shell[s].todo # <<>>
           /\ shell'[s].held = shell[s].held /\ shell'[s].todo = Tail(shell[s].todo) /\ shell'[s].v = V(s)
  <2> SUFFICES ASSUME NEW f \in ToSet(FilesOf[shell[s].held]) PROVE OnTheWay(s, f)'
    BY <1>3
  <2>1. V(s) \in Versions /\ V(s)' = V(s) /\ shell[s].held \in Contents
    BY <1>3 DEF AtWork, Installing, Unpacking, V
  <2>2. f \in Files /\ OnTheWay(s, f)
    BY <1>3, <2>1, FilesOfVersion DEF Unpacking
  <2>3. CASE f = Head(shell[s].todo)
    <3>1. inst'[V(s)].files[f] = shell[s].held
      BY <1>3, <2>3, StoreStep
    <3> QED
      BY <1>3, <2>1, <3>1 DEF OnTheWay
  <2>4. CASE f \in ToSet(Tail(shell[s].todo))
    BY <1>3, <2>4 DEF OnTheWay
  <2>5. CASE inst[V(s)].files[f] = shell[s].held
    <3>1. ~OpenFile(s)
      BY <1>3 DEF OpenFile, At
    <3>2. inst'[V(s)].files[f] = shell[s].held
      BY <2>1, <2>2, <2>5, <3>1, StoreStep, NoPurge
    <3> QED
      BY <1>3, <2>1, <3>2 DEF OnTheWay
  <2> QED
    BY <1>3, <2>2, <2>3, <2>4, <2>5, HeadAndTail DEF OnTheWay
<1> QED
  BY <1>1, <1>2, <1>3, ShellStep

-----------------------------------------------------------------------------
(* One installer and one publisher                                         *)

\* Where a shell works on the store, other than to purge.
Busy == Installing \cup {"resolve", "clean"}

\* One shell at a time works on the store,
LEMMA OnlyInstaller ==
    ASSUME AtWork, OneInstaller, NEW s \in Shells, NEW t \in Shells,
           shell[s].pc \in Busy, shell[t].pc \in Busy
    PROVE  s = t
<1>1. ASSUME NEW u \in Shells, shell[u].pc \in Busy PROVE u \in All({"install", "offline", "clean"})
  <2>1. CASE u \in All({"install", "offline"})
    BY <2>1 DEF All
  <2>2. CASE u \in All({"clean", "purge"})
    <3>1. u \notin All({"purge"})
      BY DEF OneInstaller, NobodyPurges
    <3> QED
      BY <2>2, <3>1 DEF All
  <2> QED
    BY <1>1, <2>1, <2>2 DEF AtWork, Busy
<1> QED
  BY <1>1 DEF OneInstaller, AtMostOne

\* and one publishes.
LEMMA OnlyPublisher ==
    ASSUME AtWork, OnePublisher, NEW s \in Shells, NEW t \in Shells,
           s \in All({"publish"}), shell[t].pc \in Publishing
    PROVE  s = t
BY DEF AtWork, OnePublisher, AtMostOne

\* The archives in the cache are the business of whoever installs or cleans.
LEMMA CacheStep ==
    ASSUME NEW s \in Shells, Step(s), cache' # cache
    PROVE  shell[s].pc \in Busy
BY DEF Step, Begin, Kill, Resolve, Check, Download, Store, Verify, Open, OpenFile, WriteFile, OpenSum,
       WriteSum, OpenLock, WriteLock, OpenArchive, WriteArchive, OpenMeta, WriteMeta, CleanOne,
       Cleaned, PurgeOne, Purged, At, Busy, Installing

\* On the way to the checksum of the store.
Early == {"check", "download", "store", "verify", "open"} \cup Unpacking

\* How a shell comes to where it stands while it installs.
LEMMA InstallStep ==
    ASSUME TypeOK, AtWork, NEW s \in Shells, Step(s), shell'[s].pc \in Installing
    PROVE  \/ /\ Resolve(s) /\ shell[s].pc = "resolve" /\ shell'[s].pc = "check"
              /\ shell'[s].v \in Versions /\ shell'[s].want = reg[shell'[s].v].meta
              /\ shell'[s].steady = Whole(shell'[s].v)
           \/ /\ shell[s].pc \in Installing /\ shell'[s].v = V(s) /\ shell'[s].want = shell[s].want
              /\ shell'[s].steady = shell[s].steady /\ shell'[s].pc # "check"
              /\ shell'[s].pc \in Early => shell[s].pc \in Early /\ ~OpenSum(s) /\ ~WriteSum(s)
              /\ shell'[s].pc \in Early /\ shell[s].pc = "check" => ~IsInstalledAndValid(V(s), shell[s].want)
              /\ shell'[s].pc \in Unpacking => shell'[s].sum = shell[s].sum /\ shell[s].pc \in {"open"} \cup Unpacking
<1> USE DEF Early, Unpacking
<1>0. \A last : Ends(s, last) => shell'[s].pc = "idle"
  BY DEF Ends
<1>a. Installing = {"check", "download", "store", "verify", "open", "sum", "lock", "write lock", "unpack", "write file"}
  BY DEF Installing
<1>b. \A p : Stands(s, p) => /\ shell'[s].pc = p /\ shell'[s].v = V(s) /\ shell'[s].want = shell[s].want
                             /\ shell'[s].sum = shell[s].sum /\ shell'[s].steady = shell[s].steady
  BY DEF Stands, Becomes
<1>1. CASE Kill(s) \/ WriteMeta(s) \/ Purged(s) \/ Fail(s) \/ WriteLock(s)
  <2>1. shell'[s].pc = "idle"
    BY <1>0, <1>1, GoesOn, FailEnds, WriteLockEffect
  <2> QED
    BY <1>a, <2>1
<1>2. CASE Begin(s)
  <2>1. shell'[s].pc \in {"resolve", "copy", "clean"}
    BY <1>2, BeginEffect
  <2> QED
    BY <1>a, <2>1
<1>3. CASE Resolve(s) /\ ~Fail(s)
  BY <1>3, ResolveEffect DEF Becomes
<1>4. CASE Check(s)
  <2>1. shell[s].pc = "check" /\ ~OpenSum(s) /\ ~WriteSum(s)
    BY <1>4 DEF Check, OpenSum, WriteSum, At
  <2>2. shell'[s].pc # "idle"
    BY <1>a
  <2>3. /\ shell'[s].pc \in {"lock", "verify", "download"} /\ shell'[s].v = V(s)
        /\ shell'[s].want = shell[s].want /\ shell'[s].steady = shell[s].steady
        /\ shell'[s].pc \in {"verify", "download"} => ~IsInstalledAndValid(V(s), shell[s].want)
    BY <1>0, <1>4, <1>b, <2>2, CheckEffect
  <2> QED
    BY <1>a, <2>1, <2>3
<1>5. CASE Download(s)
  <2>1. shell[s].pc = "download" /\ ~OpenSum(s) /\ ~WriteSum(s)
    BY <1>5 DEF Download, OpenSum, WriteSum, At
  <2> QED
    BY <1>5, <1>a, <2>1, DownloadEffect DEF Becomes
<1>6. CASE Store(s)
  <2>1. shell[s].pc = "store" /\ ~OpenSum(s) /\ ~WriteSum(s)
    BY <1>6 DEF Store, OpenSum, WriteSum, At
  <2>2. Stands(s, "verify")
    BY <1>6, GoesOn
  <2>3. /\ shell'[s].pc = "verify" /\ shell'[s].v = V(s) /\ shell'[s].want = shell[s].want
        /\ shell'[s].steady = shell[s].steady
    BY <1>b, <2>2
  <2> QED
    BY <1>a, <2>1, <2>3
<1>7. CASE Verify(s) /\ ~Fail(s)
  <2>1. shell[s].pc = "verify" /\ ~OpenSum(s) /\ ~WriteSum(s)
    BY <1>7 DEF Verify, OpenSum, WriteSum, At
  <2> QED
    BY <1>7, <1>a, <2>1, VerifyEffect DEF Becomes
<1>8. CASE Open(s) /\ ~Fail(s)
  <2>1. shell[s].pc = "open" /\ ~OpenSum(s) /\ ~WriteSum(s)
    BY <1>8 DEF Open, OpenSum, WriteSum, At
  <2> QED
    BY <1>8, <1>a, <2>1, OpenEffect DEF Becomes
<1>9. CASE OpenFile(s)
  <2>1. shell[s].pc = "unpack" /\ shell'[s].pc = "write file" /\ ~OpenSum(s) /\ ~WriteSum(s)
    BY <1>9, <1>b, GoesOn DEF OpenSum, WriteSum, At
  <2> QED
    BY <1>9, <1>a, <1>b, <2>1, GoesOn
<1>10. CASE WriteFile(s)
  <2>1. shell[s].pc = "write file" /\ ~OpenSum(s) /\ ~WriteSum(s)
    BY <1>10 DEF WriteFile, OpenSum, WriteSum, At
  <2> QED
    BY <1>10, <1>a, <2>1, WriteFileEffect DEF Becomes
<1>11. CASE OpenSum(s) \/ WriteSum(s) \/ OpenLock(s)
  <2>1. /\ shell[s].pc \in {"unpack", "sum", "lock"} /\ shell'[s].pc \in {"sum", "lock", "write lock"}
        /\ shell'[s].v = V(s) /\ shell'[s].want = shell[s].want /\ shell'[s].steady = shell[s].steady
    BY <1>11, <1>b, GoesOn
  <2> QED
    BY <1>a, <2>1
<1>12. CASE OpenArchive(s) \/ WriteArchive(s) \/ OpenMeta(s)
  <2>1. shell'[s].pc \in {"write archive", "digest", "write meta"}
    BY <1>12, PublishEffect DEF Stands, Becomes
  <2> QED
    BY <1>a, <2>1
<1>13. CASE CleanOne(s) \/ PurgeOne(s)
  <2>1. shell' = shell /\ shell[s].pc \in {"clean", "purge"}
    BY <1>13, GoesOn
  <2> QED
    BY <1>a, <2>1
<1>14. CASE Cleaned(s)
  <2>1. shell'[s].pc \in {"idle", "purge"}
    BY <1>0, <1>14, <1>b, GoesOn
  <2> QED
    BY <1>a, <2>1
<1> QED
  BY <1>1, <1>2, <1>3, <1>4, <1>5, <1>6, <1>7, <1>8, <1>9, <1>10, <1>11, <1>12, <1>13, <1>14 DEF Step

\* What a shell has got hold of when it comes to the unpacking.
LEMMA EarlyStep ==
    ASSUME TypeOK, AtWork, NEW s \in Shells, Step(s)
    PROVE  /\ shell'[s].pc = "store" => shell'[s].held = reg[V(s)].archive
           /\ shell'[s].pc = "verify" =>
                 \/ (cache' = cache /\ cache[V(s)] = shell[s].want)
                 \/ (shell[s].pc = "store" /\ cache'[V(s)] = shell[s].held)
           /\ shell'[s].pc = "open" =>
                 /\ Verify(s) /\ cache' = cache /\ shell'[s].sum = cache[V(s)]
                 /\ (blind' \/ (cache[V(s)] = shell[s].want /\ shell[s].want # Blank))
<1>0. \A last : Ends(s, last) => shell'[s].pc = "idle"
  BY DEF Ends
<1>b. \A p : Stands(s, p) => shell'[s].pc = p
  BY DEF Stands, Becomes
<1>1. CASE Kill(s) \/ WriteMeta(s) \/ Purged(s) \/ Fail(s) \/ WriteLock(s) \/ Begin(s) \/ (Resolve(s) /\ ~Fail(s))
           \/ Cleaned(s) \/ OpenArchive(s) \/ WriteArchive(s) \/ OpenMeta(s)
  <2>1. CASE Kill(s) \/ WriteMeta(s) \/ Purged(s) \/ Fail(s) \/ WriteLock(s)
    BY <1>0, <2>1, GoesOn, FailEnds, WriteLockEffect
  <2>2. CASE Begin(s) \/ (Resolve(s) /\ ~Fail(s))
    BY <2>2, BeginEffect, ResolveEffect DEF Becomes
  <2>3. CASE Cleaned(s) \/ OpenArchive(s) \/ WriteArchive(s) \/ OpenMeta(s)
    <3>1. shell'[s].pc \in {"idle", "purge", "write archive", "digest", "write meta"}
      BY <1>0, <1>b, <2>3, GoesOn, PublishEffect DEF Becomes
    <3> QED
      BY <3>1
  <2> QED
    BY <1>1, <2>1, <2>2, <2>3
<1>2. CASE Check(s)
  <2>1. cache' = cache
    BY <1>2 DEF Check
  <2>2. shell'[s].pc \in {"idle", "lock", "download"} \/ (shell'[s].pc = "verify" /\ cache[V(s)] = shell[s].want)
    BY <1>0, <1>2, <1>b, CheckEffect DEF IsArchiveCached
  <2> QED
    BY <2>1, <2>2
<1>3. CASE Download(s)
  BY <1>3, DownloadEffect DEF Becomes
<1>4. CASE Store(s)
  <2>1. shell[s].pc = "store" /\ cache' = [cache EXCEPT ![V(s)] = shell[s].held] /\ shell'[s].pc = "verify"
    BY <1>4, <1>b, GoesOn DEF Store
  <2>2. V(s) \in Versions
    BY <2>1 DEF AtWork, Installing
  <2>3. cache'[V(s)] = shell[s].held
    BY <2>1, <2>2 DEF TypeOK
  <2> QED
    BY <2>1, <2>3
<1>5. CASE Verify(s) /\ ~Fail(s)
  BY <1>5, VerifyEffect DEF Becomes
<1>6. CASE (Open(s) /\ ~Fail(s)) \/ OpenFile(s) \/ WriteFile(s) \/ OpenSum(s) \/ WriteSum(s) \/ OpenLock(s)
  <2>1. shell'[s].pc \in {"unpack", "write file", "sum", "lock", "write lock"}
    BY <1>6, <1>b, OpenEffect, WriteFileEffect, GoesOn DEF Becomes
  <2> QED
    BY <2>1
<1>7. CASE CleanOne(s) \/ PurgeOne(s)
  <2>1. shell' = shell /\ shell[s].pc \in {"clean", "purge"}
    BY <1>7, GoesOn
  <2> QED
    BY <2>1
<1> QED
  BY <1>1, <1>2, <1>3, <1>4, <1>5, <1>6, <1>7 DEF Step

\* How a shell comes to where it stands while it publishes.
LEMMA PublishStep ==
    ASSUME TypeOK, AtWork, NEW s \in Shells, Step(s), shell'[s].pc \in Publishing
    PROVE  \/ /\ s \in All({"publish"}) /\ Begin(s) /\ shell'[s].pc = "copy" /\ shell'[s].v \in Versions
              /\ shell'[s].held \in Contents /\ Gives(shell'[s].v, shell'[s].held)
           \/ /\ shell[s].pc \in Publishing /\ published' = published /\ shell'[s].v = V(s)
              /\ shell'[s].held = shell[s].held
              /\ \/ OpenArchive(s) /\ shell[s].pc = "copy" /\ shell'[s].pc = "write archive"
                 \/ WriteArchive(s) /\ shell[s].pc = "write archive" /\ shell'[s].pc = "digest"
                 \/ /\ OpenMeta(s) /\ shell[s].pc = "digest" /\ shell'[s].pc = "write meta"
                    /\ shell'[s].sum = reg[V(s)].archive
<1>a. Publishing = {"copy", "write archive", "digest", "write meta"}
  BY DEF Publishing
<1>1. CASE Begin(s)
  BY <1>1, <1>a, BeginEffect
<1>2. CASE OpenArchive(s) \/ WriteArchive(s) \/ OpenMeta(s)
  <2>1. published' = published
    BY <1>2 DEF OpenArchive, WriteArchive, OpenMeta
  <2> QED
    BY <1>2, <1>a, <2>1, PublishEffect DEF Stands, Becomes
<1>3. CASE ~(Begin(s) \/ OpenArchive(s) \/ WriteArchive(s) \/ OpenMeta(s))
  <2>1. \A last : Ends(s, last) => shell'[s].pc = "idle"
    BY DEF Ends
  <2>2. \A p : Stands(s, p) => shell'[s].pc = p
    BY DEF Stands, Becomes
  <2>3. shell'[s].pc \in {"check", "download", "store", "verify", "open", "unpack", "write file", "sum", "lock",
                          "write lock", "idle", "resolve", "clean", "purge"}
    <3>1. CASE Resolve(s)
      BY <2>1, <3>1, ResolveEffect, FailEnds DEF Becomes
    <3>2. CASE Check(s)
      BY <2>1, <2>2, <3>2, CheckEffect
    <3>3. CASE Download(s)
      BY <3>3, DownloadEffect DEF Becomes
    <3>4. CASE Verify(s)
      BY <2>1, <3>4, VerifyEffect, FailEnds DEF Becomes
    <3>5. CASE Open(s)
      BY <2>1, <3>5, OpenEffect, FailEnds DEF Becomes
    <3>6. CASE WriteFile(s)
      BY <3>6, WriteFileEffect DEF Becomes
    <3>7. CASE WriteLock(s)
      BY <2>1, <3>7, WriteLockEffect
    <3>8. CASE Store(s) \/ OpenFile(s) \/ OpenSum(s) \/ WriteSum(s) \/ OpenLock(s)
      BY <2>2, <3>8, GoesOn
    <3>9. CASE Cleaned(s) \/ Kill(s) \/ Purged(s) \/ WriteMeta(s)
      BY <2>1, <2>2, <3>9, GoesOn
    <3>10. CASE CleanOne(s) \/ PurgeOne(s)
      BY <3>10, GoesOn
    <3> QED
      BY <1>3, <3>1, <3>2, <3>3, <3>4, <3>5, <3>6, <3>7, <3>8, <3>9, <3>10 DEF Step
  <2> QED
    BY <1>a, <2>3
<1> QED
  BY <1>1, <1>2, <1>3

\* An archive accepted without a checksum is never forgotten.
LEMMA BlindStays ==
    ASSUME NEW s \in Shells, Step(s), blind
    PROVE  blind'
BY DEF Step, Begin, Kill, Resolve, Check, Download, Store, Verify, Open, OpenFile, WriteFile, OpenSum,
       WriteSum, OpenLock, WriteLock, OpenArchive, WriteArchive, OpenMeta, WriteMeta, CleanOne,
       Cleaned, PurgeOne, Purged

\* While a shell publishes, nobody else touches the registry or publishes.
LEMMA OthersPublishNothing ==
    ASSUME TypeOK, AtWork, OnePublisher, NEW s \in Shells, Step(s), NEW p \in Shells, p # s,
           shell[p].pc \in Publishing
    PROVE  published' = published /\ reg' = reg
<1>1. s \notin All({"publish"})
  BY OnlyPublisher
<1>2. shell[s].pc \notin Publishing
  BY <1>1 DEF AtWork
<1>3. CASE Begin(s)
  <2>1. published' = published
    BY <1>1, <1>3, BeginEffect
  <2> QED
    BY <1>3, <2>1 DEF Begin
<1>4. CASE ~Begin(s)
  BY <1>2, <1>4 DEF Step, Kill, Resolve, Check, Download, Store, Verify, Open, OpenFile, WriteFile, OpenSum,
     WriteSum, OpenLock, WriteLock, OpenArchive, WriteArchive, OpenMeta, WriteMeta, CleanOne,
     Cleaned, PurgeOne, Purged, At, Publishing
<1> QED
  BY <1>3, <1>4

\* AsPublished, for one shell.
PublishesNewest(p) ==
    shell[p].pc \in Publishing =>
        /\ Newest(shell[p].v, shell[p].held)
        /\ shell[p].pc = "digest" => reg[shell[p].v].archive = shell[p].held
        /\ shell[p].pc = "write meta" => shell[p].sum = shell[p].held

\* A single publisher goes on announcing the newest tree.
LEMMA NextAsPublished ==
    ASSUME TypeOK, AtWork, OnePublisher, AsPublished, [Next]_vars
    PROVE  AsPublished'
<1>0. \A p \in Shells : PublishesNewest(p)
  BY DEF AsPublished, PublishesNewest, V
<1>1. CASE UNCHANGED vars
  BY <1>1 DEF AsPublished, vars, V, Newest
<1>2. ASSUME NEW s \in Shells, Step(s) PROVE AsPublished'
  <2>1. ASSUME NEW p \in Shells, p # s PROVE PublishesNewest(p)'
    <3>1. /\ shell'[p].pc = shell[p].pc /\ shell'[p].v = shell[p].v /\ shell'[p].held = shell[p].held
          /\ shell'[p].sum = shell[p].sum
      BY <1>2, <2>1, OthersStay DEF Same, Becomes, V
    <3>2. CASE shell[p].pc \notin Publishing
      BY <3>1, <3>2 DEF PublishesNewest
    <3>3. CASE shell[p].pc \in Publishing
      <4>1. published' = published /\ reg' = reg
        BY <1>2, <2>1, <3>3, OthersPublishNothing
      <4> QED
        BY <1>0, <3>1, <4>1 DEF PublishesNewest, Newest
    <3> QED
      BY <3>2, <3>3
  <2>2. PublishesNewest(s)'
    <3> SUFFICES ASSUME shell'[s].pc \in Publishing PROVE PublishesNewest(s)'
      BY DEF PublishesNewest
    <3>1. CASE /\ shell'[s].pc = "copy" /\ shell'[s].v \in Versions
               /\ shell'[s].held \in Contents /\ Gives(shell'[s].v, shell'[s].held)
      <4>1. PICK v \in Versions, c \in Contents : v = shell'[s].v /\ c = shell'[s].held
        BY <3>1
      <4>2. Newest(v, c)'
        BY <3>1, <4>1, GivesOne
      <4> QED
        BY <3>1, <4>1, <4>2 DEF PublishesNewest, Newest
    <3>2. CASE /\ shell[s].pc \in Publishing /\ published' = published /\ shell'[s].v = V(s)
               /\ shell'[s].held = shell[s].held
               /\ \/ OpenArchive(s) /\ shell[s].pc = "copy" /\ shell'[s].pc = "write archive"
                  \/ WriteArchive(s) /\ shell[s].pc = "write archive" /\ shell'[s].pc = "digest"
                  \/ /\ OpenMeta(s) /\ shell[s].pc = "digest" /\ shell'[s].pc = "write meta"
                     /\ shell'[s].sum = reg[V(s)].archive
      <4>1. Newest(V(s), shell[s].held) /\ (shell[s].pc = "digest" => reg[V(s)].archive = shell[s].held)
        BY <1>0, <3>2 DEF PublishesNewest, V
      <4>2. Newest(V(s), shell[s].held) => published'[V(s)] # <<>> /\ shell[s].held = Last(published'[V(s)])
        BY <3>2 DEF Newest
      <4>3. shell'[s].pc = "digest" => reg'[V(s)].archive = shell[s].held
        BY <1>2, <3>2, RegistryStep
      <4> QED
        BY <3>2, <4>1, <4>2, <4>3 DEF PublishesNewest, Newest
    <3> QED
      BY <1>2, <3>1, <3>2, PublishStep
  <2>3. \A p \in Shells : PublishesNewest(p)'
    <3> TAKE p \in Shells
    <3>1. CASE p = s
      BY <2>2, <3>1 DEF PublishesNewest
    <3> QED
      BY <2>1, <3>1
  <2> QED
    BY <2>3 DEF AsPublished, PublishesNewest, V
<1> QED
  BY <1>1, <1>2, NextIsStep

\* Where no tree comes back, the tree that a version is given is the one it has,
\* or one that nobody holds.
LEMMA GivesNew ==
    ASSUME TypeOK, NothingReturns', NEW s \in Shells, Step(s), NEW v \in Versions
    PROVE  /\ NothingReturns
           /\ \/ published'[v] = published[v]
              \/ Begin(s) /\ \A x \in File(Known(v)) : ~Newest(v, x)'
<1>1. CASE published' = published
  BY <1>1 DEF NothingReturns
<1>2. CASE published' # published
  <2>1. Begin(s)
    BY <1>2, OnlyBeginGives
  <2>2. PICK w \in Versions, c \in Contents : Gives(w, c)
    BY <1>2, <2>1, BeginEffect
  <2>3. CASE published'[w] = published[w]
    <3>1. \A u \in Versions : published'[u] = published[u]
      BY <2>2, <2>3, GivesOne
    <3> QED
      BY <3>1 DEF NothingReturns
  <2>4. CASE published'[w] = Append(published[w], c) /\ \A x : Newest(w, x)' <=> x = c
    <3> DEFINE q == published[w]
               n == Len(q)
    <3>1. /\ n \in Nat /\ q \in Seq(Contents) /\ DOMAIN q = 1 .. n
          /\ DOMAIN Append(q, c) = 1 .. n + 1 /\ Append(q, c)[n + 1] = c
          /\ \A i \in 1 .. n : Append(q, c)[i] = q[i] /\ i \in 1 .. n + 1 /\ i # n + 1
      BY DEF TypeOK
    <3>2. IsInjective(Append(q, c))
      BY <2>4 DEF NothingReturns
    <3>3. c \notin Known(w)
      <4>1. ASSUME NEW i \in 1 .. n, q[i] = c PROVE FALSE
        <5>1. Append(q, c)[i] = Append(q, c)[n + 1] /\ i \in DOMAIN Append(q, c) /\ n + 1 \in DOMAIN Append(q, c)
          BY <3>1, <4>1
        <5> QED
          BY <3>1, <3>2, <5>1 DEF IsInjective
      <4> QED
        BY <3>1, <4>1 DEF Known, ToSet
    <3>4. IsInjective(q)
      BY <3>1, <3>2 DEF IsInjective
    <3>5. NothingReturns
      <4>1. \A u \in Versions : u = w \/ published'[u] = published[u]
        BY <2>2, GivesOne
      <4> QED
        BY <3>4, <4>1 DEF NothingReturns
    <3>6. c \notin File(Known(w))
      BY <3>3, StoreAssumption DEF File, Absent, Blank
    <3>7. v = w \/ published'[v] = published[v]
      BY <2>2, GivesOne
    <3> QED
      BY <2>1, <2>4, <3>5, <3>6, <3>7
  <2> QED
    BY <2>2, <2>3, <2>4, GivesOne
<1> QED
  BY <1>1, <1>2

\* While a shell installs, nobody else touches the cache or the store.
LEMMA OthersInstallNothing ==
    ASSUME TypeOK, AtWork, OneInstaller, NEW s \in Shells, Step(s), NEW t \in Shells, t # s,
           shell[t].pc \in Installing
    PROVE  /\ cache' = cache
           /\ \A v \in Versions : inst'[v].sum = inst[v].sum
           /\ \A v \in Versions, f \in Files : inst'[v].files[f] = inst[v].files[f]
<1>1. shell[s].pc \notin Busy
  BY OnlyInstaller DEF Busy
<1>2. ~OpenFile(s) /\ ~WriteFile(s) /\ ~OpenSum(s) /\ ~WriteSum(s) /\ ~PurgeOne(s)
  BY <1>1, NoPurge DEF OpenFile, WriteFile, OpenSum, WriteSum, At, Busy, Installing, Unpacking, OneInstaller
<1> QED
  BY <1>1, <1>2, CacheStep, StoreStep

\* What the two of them rely on, besides being alone.
Together == OneInstaller /\ OnePublisher /\ OnlyPublished /\ AsPublished /\ EntryStays

\* The newest tree of a version after the step.
NewestThen(v, x) == published'[v] # <<>> /\ x = Last(published'[v])

\* Nobody hears of a tree before it is announced.
LEMMA NextUnheard ==
    ASSUME TypeOK, AtWork, Together, NothingReturns', Unheard, AsAnnounced, NEW s \in Shells, Step(s)
    PROVE  Unheard'
<1> SUFFICES ASSUME NEW v \in Versions, reg'[v].meta # Blank, ~NewestThen(v, reg'[v].meta)
             PROVE  /\ ~NewestThen(v, inst'[v].sum)
                    /\ \A t \in Shells : shell'[t].pc \in Installing /\ shell'[t].v = v => ~NewestThen(v, shell'[t].want)
  BY DEF Unheard, V, Newest, NewestThen
<1>0. NobodyPurges /\ OnePublisher /\ Blank \notin Contents /\ Absent \notin Contents
  BY StoreAssumption DEF Together, OneInstaller, Blank, Absent
<1>1. ASSUME NEW t \in Shells, t # s, shell'[t].pc \in Installing, shell'[t].v = v
      PROVE  shell[t].pc \in Installing /\ V(t) = v /\ shell'[t].want = shell[t].want
  BY <1>1, OthersStay DEF Same, Becomes
<1>2. CASE published'[v] # published[v]
  <2>1. Begin(s) /\ \A x \in File(Known(v)) : ~NewestThen(v, x)
    BY <1>2, GivesNew DEF Newest, NewestThen
  <2>2. inst' = inst /\ shell'[s].pc \notin Installing
    BY <2>1, BeginEffect DEF Begin, Installing, Unpacking
  <2>3. inst[v].sum \in File(Known(v))
    BY DEF Together, OnlyPublished
  <2>4. ASSUME NEW t \in Shells, shell'[t].pc \in Installing, shell'[t].v = v PROVE ~NewestThen(v, shell'[t].want)
    <3>1. shell[t].want \in File(Known(v)) /\ shell'[t].want = shell[t].want
      BY <1>1, <2>2, <2>4 DEF Together, OnlyPublished
    <3> QED
      BY <2>1, <3>1
  <2> QED
    BY <2>1, <2>2, <2>3, <2>4
<1>3. CASE published'[v] = published[v]
  <2>0. \A x : NewestThen(v, x) <=> Newest(v, x)
    BY <1>3 DEF Newest, NewestThen
  <2>1. reg'[v].meta = reg[v].meta
    <3>1. ASSUME v = V(s), WriteMeta(s), reg'[v].meta = shell[s].sum PROVE FALSE
      <4>1. shell[s].pc = "write meta"
        BY <3>1, GoesOn
      <4>2. Newest(v, shell[s].sum)
        BY <3>1, <4>1 DEF Together, AsPublished, Publishing
      <4> QED
        BY <2>0, <3>1, <4>2
    <3> QED
      BY <3>1, RegistryStep
  <2>2. /\ reg[v].meta # Blank /\ ~Newest(v, reg[v].meta) /\ ~Newest(v, inst[v].sum)
        /\ \A t \in Shells : shell[t].pc \in Installing /\ V(t) = v => ~Newest(v, shell[t].want)
    BY <2>0, <2>1 DEF Unheard
  <2>3. ~NewestThen(v, inst'[v].sum)
    <3>1. ~Newest(v, Blank)
      <4>1. published[v] \in Seq(Contents)
        BY DEF TypeOK
      <4>2. published[v] # <<>> => Last(published[v]) \in Contents
        BY <4>1 DEF Last
      <4> QED
        BY <1>0, <4>2 DEF Newest
    <3>2. ASSUME v = V(s), WriteSum(s), inst'[v].sum = shell[s].sum PROVE ~NewestThen(v, inst'[v].sum)
      <4>1. shell[s].pc = "sum" /\ shell[s].pc \in Installing
        BY <3>2, GoesOn DEF Installing
      <4>2. shell[s].sum = shell[s].want
        BY <4>1 DEF AsAnnounced
      <4> QED
        BY <2>0, <2>2, <3>2, <4>1, <4>2
    <3> QED
      BY <1>0, <2>0, <2>2, <3>1, <3>2, StoreStep, NoPurge
  <2>4. ASSUME NEW t \in Shells, shell'[t].pc \in Installing, shell'[t].v = v PROVE ~NewestThen(v, shell'[t].want)
    <3>1. CASE t # s
      BY <1>1, <2>0, <2>2, <2>4, <3>1
    <3>2. CASE t = s
      BY <2>0, <2>2, <2>4, <3>2, InstallStep
    <3> QED
      BY <3>1, <3>2
  <2> QED
    BY <2>0, <2>3, <2>4
<1> QED
  BY <1>2, <1>3

\* What passes for installed after a step that leaves the checksum did before.
LEMMA PassesStep ==
    ASSUME TypeOK, AtWork, Together, NothingReturns', NEW s \in Shells, Step(s), NEW v \in Versions,
           inst'[v].sum = inst[v].sum, Passes(v)'
    PROVE  Passes(v)
<1>1. inst[v].sum \in Contents /\ (inst[v].sum = reg'[v].meta \/ Newest(v, inst[v].sum)')
  BY DEF Passes, Newest
<1>2. inst[v].sum \in File(Known(v)) /\ Blank \notin Contents
  BY StoreAssumption DEF Together, OnlyPublished, Blank
<1>3. CASE Newest(v, inst[v].sum)'
  <2>1. published'[v] = published[v]
    BY <1>2, <1>3, GivesNew
  <2> QED
    BY <1>1, <1>3, <2>1 DEF Passes, Newest
<1>4. CASE WriteMeta(s) /\ v = V(s) /\ inst[v].sum = shell[s].sum
  <2>1. shell[s].pc = "write meta"
    BY <1>4, GoesOn
  <2>2. Newest(v, inst[v].sum)
    BY <1>4, <2>1 DEF Together, AsPublished, Publishing
  <2> QED
    BY <1>1, <2>2 DEF Passes
<1>5. CASE inst[v].sum = reg'[v].meta
  <2>1. reg'[v].meta # Blank
    BY <1>1, <1>2, <1>5
  <2>2. reg'[v].meta = reg[v].meta \/ (WriteMeta(s) /\ v = V(s) /\ reg'[v].meta = shell[s].sum)
    BY <2>1, RegistryStep
  <2> QED
    BY <1>1, <1>4, <1>5, <2>2 DEF Passes
<1> QED
  BY <1>1, <1>3, <1>5

\* What an install is doing agrees with what the registry announced.
AsAnnouncedOf(s) ==
    /\ shell[s].pc \in {"open", "sum"} \cup Unpacking => shell[s].sum = shell[s].want /\ shell[s].want # Blank
    /\ shell[s].pc = "open" => cache[shell[s].v] = shell[s].want
    /\ shell[s].pc \in Unpacking => shell[s].held = shell[s].want
    /\ shell[s].pc \in Unpacking => \A f \in ToSet(FilesOf[shell[s].held]) : OnTheWay(s, f)
    /\ shell[s].pc = "sum" => shell[s].sum \in Contents /\ HasAll(shell[s].v, shell[s].sum)
    /\ shell[s].pc = "check" /\ shell[s].want # Blank /\ Passes(shell[s].v) => inst[shell[s].v].sum = shell[s].want
    /\ shell[s].pc \in Early \ {"check"} /\ shell[s].want # Blank => ~Passes(shell[s].v)

\* AsAnnounced, shell by shell.
LEMMA AnnouncedParts == AsAnnounced <=> \A s \in Shells : AsAnnouncedOf(s)
<1>1. Early \ {"check"} = {"download", "store", "verify", "open"} \cup Unpacking
  BY DEF Early, Unpacking
<1> QED
  BY <1>1 DEF AsAnnounced, AsAnnouncedOf, V

\* Where somebody else takes the step.
LEMMA AnnouncedOfOthers ==
    ASSUME TypeOK, AtWork, Together, NothingReturns', NEW s \in Shells, Step(s),
           NEW t \in Shells, t # s, AsAnnouncedOf(t)
    PROVE  AsAnnouncedOf(t)'
<1>1. /\ shell'[t].pc = shell[t].pc /\ shell'[t].v = V(t) /\ shell'[t].want = shell[t].want
      /\ shell'[t].sum = shell[t].sum /\ shell'[t].held = shell[t].held /\ shell'[t].todo = shell[t].todo
  BY OthersStay DEF Same, Becomes
<1>2. CASE shell[t].pc \notin Installing
  BY <1>1, <1>2 DEF AsAnnouncedOf, Early, Installing, Unpacking
<1>3. CASE shell[t].pc \in Installing
  <2>1. /\ V(t) \in Versions /\ cache' = cache /\ inst'[V(t)].sum = inst[V(t)].sum
        /\ \A f \in Files : inst'[V(t)].files[f] = inst[V(t)].files[f]
    BY <1>3, OthersInstallNothing DEF AtWork, Together
  <2>2. ASSUME shell[t].pc \in {"open", "sum"} \cup Unpacking
        PROVE  shell'[t].sum = shell'[t].want /\ shell'[t].want # Blank
    BY <1>1, <2>2 DEF AsAnnouncedOf
  <2>3. ASSUME shell[t].pc = "open" PROVE cache'[V(t)] = shell'[t].want
    BY <1>1, <2>1, <2>3 DEF AsAnnouncedOf, V
  <2>4. ASSUME shell[t].pc \in Unpacking
        PROVE  /\ shell'[t].held = shell'[t].want
               /\ \A f \in ToSet(FilesOf[shell'[t].held]) : OnTheWay(t, f)'
    <3>1. shell[t].held = shell[t].want /\ shell[t].held \in Contents
      BY <2>4 DEF AsAnnouncedOf, AtWork
    <3>2. \A f \in ToSet(FilesOf[shell[t].held]) : f \in Files /\ OnTheWay(t, f)
      BY <2>4, <3>1, FilesOfVersion DEF AsAnnouncedOf
    <3> QED
      BY <1>1, <2>1, <3>1, <3>2 DEF OnTheWay, V
  <2>5. ASSUME shell[t].pc = "sum"
        PROVE  /\ shell'[t].sum \in Contents
               /\ \A f \in ToSet(FilesOf[shell'[t].sum]) : inst'[shell'[t].v].files[f] = shell'[t].sum
    <3>1. shell[t].sum \in Contents /\ HasAll(V(t), shell[t].sum)
      BY <2>5 DEF AsAnnouncedOf, V
    <3>2. \A f \in ToSet(FilesOf[shell[t].sum]) : f \in Files
      BY <3>1, FilesOfVersion
    <3> QED
      BY <1>1, <2>1, <3>1, <3>2 DEF HasAll
  <2>6. Passes(V(t))' => Passes(V(t))
    <3>1. PICK v \in Versions : v = V(t)
      BY <2>1
    <3>2. Passes(v)' => Passes(v)
      BY <2>1, <3>1, PassesStep
    <3>3. V(t)' = V(t)
      BY <1>1 DEF V
    <3> QED
      BY <3>1, <3>2, <3>3 DEF Passes, Newest
  <2>7. /\ \A f : OnTheWay(t, f)' <=> f \in ToSet(shell'[t].todo) \/ inst'[V(t)].files[f] = shell'[t].held
        /\ shell'[t].v = V(t)
    BY <1>1 DEF OnTheWay, V
  <2>8. Passes(shell[t].v)' <=> Passes(V(t))'
    BY DEF V
  <2>9. /\ shell[t].pc = "check" /\ shell[t].want # Blank /\ Passes(V(t)) => inst[V(t)].sum = shell[t].want
        /\ shell[t].pc \in Early \ {"check"} /\ shell[t].want # Blank => ~Passes(V(t))
    BY DEF AsAnnouncedOf, V
  <2>10. /\ shell'[t].pc = "check" /\ shell'[t].want # Blank /\ Passes(shell[t].v)' =>
                inst'[shell'[t].v].sum = shell'[t].want
         /\ shell'[t].pc \in Early \ {"check"} /\ shell'[t].want # Blank => ~Passes(shell[t].v)'
    BY <1>1, <2>1, <2>6, <2>8, <2>9
  <2> QED
    BY <1>1, <2>2, <2>3, <2>4, <2>5, <2>7, <2>10 DEF AsAnnouncedOf, HasAll, OnTheWay, V
<1> QED
  BY <1>2, <1>3

\* Where the install itself goes on.
LEMMA AnnouncedOfItself ==
    ASSUME TypeOK, AtWork, Together, NothingReturns', Unheard, ~blind', NEW s \in Shells, Step(s), AsAnnouncedOf(s)
    PROVE  AsAnnouncedOf(s)'
<1>0. NobodyPurges
  BY DEF Together, OneInstaller
<1>1. CASE shell'[s].pc \notin Early \cup {"sum"}
  BY <1>1 DEF AsAnnouncedOf, Early
<1>2. CASE shell'[s].pc = "sum"
  <2>1. OpenSum(s) /\ shell[s].pc = "unpack" /\ shell[s].todo = <<>> /\ shell'[s].v = V(s)
        /\ shell'[s].sum = shell[s].sum /\ shell'[s].want = shell[s].want
    BY <1>2, ShellStep, GoesOn DEF Stands, Becomes
  <2>2. /\ shell[s].sum = shell[s].want /\ shell[s].want # Blank /\ shell[s].held = shell[s].want
        /\ shell[s].held \in Contents /\ \A f \in ToSet(FilesOf[shell[s].held]) : OnTheWay(s, f)
    BY <2>1 DEF AsAnnouncedOf, AtWork, Unpacking
  <2>3. V(s) \in Versions /\ HasAll(V(s), shell[s].held)
    BY <2>1, <2>2, AllUnpacked
  <2>4. ~OpenFile(s) /\ ~WriteFile(s)
    BY <2>1 DEF OpenFile, WriteFile, At
  <2>5. \A f \in ToSet(FilesOf[shell[s].held]) : f \in Files
    BY <2>2, FilesOfVersion
  <2>6. \A f \in ToSet(FilesOf[shell[s].held]) : inst'[V(s)].files[f] = shell[s].held
    BY <1>0, <2>3, <2>4, <2>5, StoreStep, NoPurge DEF HasAll
  <2>7. "sum" \notin Early /\ "sum" \notin Unpacking
    BY DEF Early, Unpacking
  <2> QED
    BY <1>2, <2>1, <2>2, <2>6, <2>7 DEF AsAnnouncedOf, HasAll
<1>3. CASE shell'[s].pc \in Early
  <2>0. shell'[s].pc \in Installing /\ shell'[s].pc # "sum"
    BY <1>3 DEF Early, Installing, Unpacking
  <2>1. CASE shell'[s].pc = "check" /\ Resolve(s) /\ shell'[s].v \in Versions /\ shell'[s].want = reg[shell'[s].v].meta
    <3>1. PICK v \in Versions : v = shell'[s].v
      BY <2>1
    <3>2. reg' = reg /\ inst' = inst
      BY <2>1 DEF Resolve
    <3>3. ASSUME Passes(v)', reg[v].meta # Blank PROVE inst[v].sum = reg[v].meta
      <4>1. Passes(v)
        BY <3>2, <3>3, PassesStep
      <4>2. ASSUME Newest(v, inst[v].sum) PROVE inst[v].sum = reg[v].meta
        <5>1. Newest(v, reg[v].meta)
          BY <3>3, <4>2 DEF Unheard
        <5> QED
          BY <4>2, <5>1 DEF Newest
      <4> QED
        BY <4>1, <4>2 DEF Passes
    <3>4. Passes(shell[s].v)' <=> Passes(v)'
      BY <3>1 DEF Passes, Newest
    <3>5. "check" \notin Unpacking
      BY DEF Unpacking
    <3> QED
      BY <2>1, <3>1, <3>2, <3>3, <3>4, <3>5 DEF AsAnnouncedOf
  <2>2. CASE /\ shell[s].pc \in Early /\ shell'[s].v = V(s) /\ shell'[s].want = shell[s].want
             /\ shell'[s].pc # "check"
             /\ shell'[s].pc \in Unpacking => shell'[s].sum = shell[s].sum /\ shell[s].pc \in {"open"} \cup Unpacking
             /\ ~OpenSum(s) /\ ~WriteSum(s)
             /\ shell[s].pc = "check" => ~IsInstalledAndValid(V(s), shell[s].want)
    <3>1. V(s) \in Versions
      BY <2>2 DEF AtWork, Early, Installing
    <3>2. inst'[V(s)].sum = inst[V(s)].sum
      BY <1>0, <2>2, <3>1, StoreStep, NoPurge
    <3>3. ASSUME shell[s].want # Blank PROVE ~Passes(V(s))
      <4>1. CASE shell[s].pc = "check"
        <5>1. SUFFICES ASSUME Passes(V(s)) PROVE FALSE
          OBVIOUS
        <5>2. inst[V(s)].sum = shell[s].want /\ inst[V(s)].sum # Absent
          BY <3>3, <4>1, <5>1, StoreAssumption DEF AsAnnouncedOf, V, Passes, Absent
        <5>3. HasSources(V(s))
          BY <3>1, <5>2, StoreAssumption DEF Together, EntryStays, HasSources
        <5> QED
          BY <2>2, <4>1, <5>2, <5>3 DEF IsInstalledAndValid
      <4>2. CASE shell[s].pc # "check"
        BY <2>2, <3>3, <4>2 DEF AsAnnouncedOf, V
      <4> QED
        BY <4>1, <4>2
    <3>4. ASSUME shell[s].want # Blank PROVE ~Passes(shell[s].v)'
      <4>1. PICK v \in Versions : v = V(s)
        BY <3>1
      <4>2. ~Passes(v)'
        BY <3>2, <3>3, <3>4, <4>1, PassesStep
      <4> QED
        BY <2>2, <4>1, <4>2 DEF Passes, Newest
    <3>5. ASSUME shell'[s].pc = "open"
          PROVE shell'[s].sum = shell'[s].want /\ cache'[V(s)] = shell'[s].want /\ shell'[s].want # Blank
      BY <2>2, <3>5, EarlyStep
    <3>6. ASSUME shell'[s].pc \in Unpacking
          PROVE  /\ shell'[s].sum = shell'[s].want /\ shell'[s].want # Blank /\ shell'[s].held = shell'[s].want
                 /\ \A f \in ToSet(FilesOf[shell'[s].held]) : OnTheWay(s, f)'
      <4>1. shell[s].pc \in {"open"} \cup Unpacking
        BY <2>2, <3>6
      <4>2. shell'[s].sum = shell'[s].want /\ shell'[s].want # Blank
        BY <2>2, <3>6, <4>1 DEF AsAnnouncedOf
      <4>3. shell'[s].held = shell'[s].want
        <5>1. CASE Open(s) /\ shell'[s].held = cache[V(s)]
          <6>1. shell[s].pc = "open"
            BY <5>1 DEF Open, At
          <6> QED
            BY <2>2, <5>1, <6>1 DEF AsAnnouncedOf, V
        <5>2. CASE shell[s].pc \in Unpacking /\ shell'[s].held = shell[s].held
          BY <2>2, <5>2 DEF AsAnnouncedOf
        <5> QED
          BY <3>6, <5>1, <5>2, ShellStep DEF Unpacking
      <4>4. shell[s].pc \in Unpacking => \A f \in ToSet(FilesOf[shell[s].held]) : OnTheWay(s, f)
        BY DEF AsAnnouncedOf
      <4>5. \A f \in ToSet(FilesOf[shell'[s].held]) : OnTheWay(s, f)'
        BY <1>0, <3>6, <4>4, UnpackOnTheWay
      <4> QED
        BY <4>2, <4>3, <4>5
    <3>7. "open" \notin Unpacking
      BY DEF Unpacking
    <3> QED
      BY <2>0, <2>2, <3>4, <3>5, <3>6, <3>7 DEF AsAnnouncedOf, V
  <2> QED
    BY <1>3, <2>0, <2>1, <2>2, InstallStep
<1> QED
  BY <1>1, <1>2, <1>3

\* What passes for installed is whole.
PassesWhole == \A v \in Versions : Passes(v) => HasAll(v, inst[v].sum)

\* A step keeps whole what passes for installed.
LEMMA NextPasses ==
    ASSUME TypeOK, AtWork, Together, NothingReturns', AsAnnounced, PassesWhole, NEW s \in Shells, Step(s)
    PROVE  PassesWhole'
<1> SUFFICES ASSUME NEW v \in Versions, Passes(v)', NEW f \in ToSet(FilesOf[inst'[v].sum])
             PROVE  inst'[v].files[f] = inst'[v].sum
  BY DEF PassesWhole, HasAll
<1>0. inst'[v].sum \in Contents /\ f \in Files /\ ~PurgeOne(s) /\ AsAnnouncedOf(s)
  <2>1. inst'[v].sum \in Contents
    BY DEF Passes
  <2> QED
    BY <2>1, FilesOfVersion, NoPurge, AnnouncedParts DEF Together, OneInstaller
<1>1. CASE inst'[v].sum = inst[v].sum
  <2>1. Passes(v) /\ inst[v].files[f] = inst[v].sum
    BY <1>1, PassesStep DEF PassesWhole, HasAll
  <2>2. ~((OpenFile(s) \/ WriteFile(s)) /\ v = V(s))
    <3>1. SUFFICES ASSUME OpenFile(s) \/ WriteFile(s), v = V(s) PROVE FALSE
      OBVIOUS
    <3>2. shell[s].pc \in Unpacking /\ shell[s].pc \in Early \ {"check"}
      BY <3>1 DEF OpenFile, WriteFile, At, Unpacking, Early
    <3> QED
      BY <1>0, <2>1, <3>1, <3>2 DEF AsAnnouncedOf, V
  <2> QED
    BY <1>0, <1>1, <2>1, <2>2, StoreStep
<1>2. CASE v = V(s) /\ WriteSum(s) /\ inst'[v].sum = shell[s].sum
  <2>1. shell[s].pc = "sum" /\ ~OpenFile(s) /\ ~WriteFile(s)
    BY <1>2 DEF WriteSum, OpenFile, WriteFile, At
  <2>2. HasAll(v, shell[s].sum)
    BY <1>0, <1>2, <2>1 DEF AsAnnouncedOf, V
  <2>3. inst'[v].files[f] = inst[v].files[f]
    BY <1>0, <2>1, StoreStep
  <2> QED
    BY <1>2, <2>2, <2>3 DEF HasAll
<1>3. inst'[v].sum # Blank
  BY <1>0, StoreAssumption DEF Blank
<1> QED
  BY <1>0, <1>1, <1>2, <1>3, StoreStep

\* One installer and one publisher keep what passes for installed whole.
LEMMA NextWhole ==
    ASSUME TypeOK, AtWork, Together, NothingReturns /\ ~blind => Unheard /\ AsAnnounced /\ PassesWhole,
           [Next]_vars, NothingReturns', ~blind'
    PROVE  Unheard' /\ AsAnnounced' /\ PassesWhole'
<1>1. CASE UNCHANGED vars
  <2>1. Unheard' <=> Unheard
    BY <1>1 DEF vars, Unheard, V, Newest
  <2>2. AsAnnounced' <=> AsAnnounced
    BY <1>1 DEF vars, AsAnnounced, V, OnTheWay, HasAll, Passes, Newest
  <2>3. PassesWhole' <=> PassesWhole
    BY <1>1 DEF vars, PassesWhole, HasAll, Passes, Newest
  <2>4. blind' = blind /\ (NothingReturns' <=> NothingReturns)
    BY <1>1 DEF vars, NothingReturns
  <2> QED
    BY <2>1, <2>2, <2>3, <2>4
<1>2. ASSUME NEW s \in Shells, Step(s) PROVE Unheard' /\ AsAnnounced' /\ PassesWhole'
  <2>1. Unheard /\ AsAnnounced /\ PassesWhole
    <3>1. ~blind
      BY <1>2, BlindStays
    <3>2. CASE \E v \in Versions : TRUE
      BY <1>2, <3>1, <3>2, GivesNew
    <3>3. CASE Versions = {}
      BY <3>1, <3>3 DEF NothingReturns
    <3> QED
      BY <3>2, <3>3
  <2>2. Unheard'
    BY <1>2, <2>1, NextUnheard
  <2>3. ASSUME NEW t \in Shells PROVE AsAnnouncedOf(t)'
    <3>1. AsAnnouncedOf(t)
      BY <2>1, AnnouncedParts
    <3>2. CASE t # s
      BY <1>2, <3>1, <3>2, AnnouncedOfOthers
    <3>3. CASE t = s
      BY <1>2, <2>1, <3>1, <3>3, AnnouncedOfItself
    <3> QED
      BY <3>2, <3>3
  <2>4. AsAnnounced'
    <3>1. Early \ {"check"} = {"download", "store", "verify", "open"} \cup Unpacking
      BY DEF Early, Unpacking
    <3> QED
      BY <2>3, <3>1 DEF AsAnnounced, AsAnnouncedOf, V
  <2>5. PassesWhole'
    BY <1>2, <2>1, NextPasses
  <2> QED
    BY <2>2, <2>4, <2>5
<1> QED
  BY <1>1, <1>2, NextIsStep

-----------------------------------------------------------------------------
(* An install that nobody disturbs                                         *)

\* A shell stays undisturbed on its way, and becomes so only by resolving to an
\* entry that is whole.
LEMMA SteadyStep ==
    ASSUME TypeOK, AtWork, NEW s \in Shells, Step(s), shell'[s].steady
    PROVE  \/ /\ Resolve(s) /\ shell'[s].pc = "check" /\ shell'[s].v \in Versions
              /\ shell'[s].want = reg[shell'[s].v].meta /\ Whole(shell'[s].v)
           \/ /\ shell[s].steady /\ shell'[s].want = shell[s].want /\ shell'[s].v = V(s)
              /\ shell[s].pc \in Installing => shell'[s].pc \in Installing
<1>0. \A last : ~Ends(s, last)
  BY DEF Ends
<1>a. \A p : Stands(s, p) => /\ shell[s].steady /\ shell'[s].want = shell[s].want /\ shell'[s].v = V(s)
                             /\ shell'[s].pc = p
  BY DEF Stands, Becomes
<1>1. CASE Begin(s)
  BY <1>1, BeginEffect
<1>2. CASE Resolve(s)
  BY <1>0, <1>2, ResolveEffect, FailEnds DEF Becomes
<1>3. CASE Check(s)
  <2>1. \E p \in Installing : Stands(s, p)
    BY <1>0, <1>3, CheckEffect DEF Installing
  <2> QED
    BY <1>a, <2>1
<1>4. CASE Download(s)
  BY <1>4, DownloadEffect DEF Becomes, Installing
<1>5. CASE Verify(s)
  BY <1>0, <1>5, VerifyEffect, FailEnds DEF Becomes, Installing
<1>6. CASE Open(s)
  BY <1>0, <1>6, OpenEffect, FailEnds DEF Becomes, Installing, Unpacking
<1>7. CASE WriteFile(s)
  BY <1>7, WriteFileEffect DEF Becomes, Installing, Unpacking
<1>8. CASE Store(s) \/ OpenFile(s) \/ OpenSum(s) \/ WriteSum(s) \/ OpenLock(s)
  <2>1. \E p \in Installing : Stands(s, p)
    BY <1>8, GoesOn DEF Installing, Unpacking
  <2> QED
    BY <1>a, <2>1
<1>9. CASE WriteLock(s)
  BY <1>0, <1>9, WriteLockEffect
<1>10. CASE OpenArchive(s) \/ WriteArchive(s) \/ OpenMeta(s)
  BY <1>10, <1>a, PublishEffect DEF Becomes, Installing, Unpacking
<1>11. CASE Cleaned(s)
  BY <1>0, <1>11, <1>a, GoesOn DEF Installing, Unpacking
<1>12. CASE Kill(s) \/ Purged(s) \/ WriteMeta(s)
  BY <1>0, <1>12, GoesOn
<1>13. CASE CleanOne(s) \/ PurgeOne(s)
  BY <1>13, GoesOn DEF V, Installing, Unpacking
<1> QED
  BY <1>1, <1>2, <1>3, <1>4, <1>5, <1>6, <1>7, <1>8, <1>9, <1>10, <1>11, <1>12, <1>13 DEF Step

\* An install that nobody disturbs finds in the cache what it looks for.
SteadyOf(s) ==
    shell[s].steady =>
        /\ shell[s].pc \in Installing /\ shell[s].want \in Contents
        /\ reg[shell[s].v].archive = shell[s].want
        /\ shell[s].pc = "store" => shell[s].held = shell[s].want
        /\ shell[s].pc \in {"verify", "open"} => cache[shell[s].v] = shell[s].want
        /\ shell[s].pc = "open" => shell[s].sum = shell[s].want

\* SteadyInv, shell by shell.
LEMMA SteadyParts == SteadyInv <=> \A s \in Shells : shell[s].last # "failed" /\ SteadyOf(s)
BY DEF SteadyInv, SteadyOf, V

\* A command fails only when somebody disturbed it.
LEMMA NoneFails ==
    ASSUME TypeOK, AtWork, NEW s \in Shells, Step(s), shell[s].last # "failed", SteadyOf(s)
    PROVE  shell'[s].last # "failed"
<1>0. \A last : Ends(s, last) => shell'[s].last = last
  BY DEF Ends
<1>a. \A p : Stands(s, p) => shell'[s].last = shell[s].last
  BY DEF Stands, Becomes
<1>b. ASSUME Fail(s), ~shell[s].steady PROVE shell'[s].last # "failed"
  BY <1>b, FailEnds DEF Ends
<1>1. CASE Begin(s)
  BY <1>1, BeginEffect
<1>2. CASE Resolve(s)
  <2>1. shell[s].pc = "resolve"
    BY <1>2 DEF Resolve, At
  <2>2. ~shell[s].steady
    BY <2>1 DEF SteadyOf, Installing, Unpacking
  <2> QED
    BY <1>2, <1>b, <2>2, ResolveEffect DEF Becomes
<1>3. CASE Check(s)
  BY <1>0, <1>3, <1>a, CheckEffect
<1>4. CASE Download(s)
  BY <1>4, DownloadEffect DEF Becomes
<1>5. CASE Verify(s)
  <2>1. CASE Fail(s) /\ (cache[V(s)] = Absent \/ cache[V(s)] # shell[s].want)
    <3>1. shell[s].pc = "verify" /\ Absent \notin Contents
      BY <1>5, StoreAssumption DEF Verify, At, Absent
    <3>2. ~shell[s].steady
      BY <2>1, <3>1 DEF SteadyOf, V
    <3> QED
      BY <1>b, <2>1, <3>2
  <2> QED
    BY <1>5, <2>1, VerifyEffect DEF Becomes
<1>6. CASE Open(s)
  <2>1. CASE Fail(s) /\ cache[V(s)] \notin Contents
    <3>1. shell[s].pc = "open"
      BY <1>6 DEF Open, At
    <3>2. ~shell[s].steady
      BY <2>1, <3>1 DEF SteadyOf, V
    <3> QED
      BY <1>b, <2>1, <3>2
  <2> QED
    BY <1>6, <2>1, OpenEffect DEF Becomes
<1>7. CASE WriteFile(s)
  BY <1>7, WriteFileEffect DEF Becomes
<1>8. CASE WriteLock(s)
  BY <1>0, <1>8, WriteLockEffect
<1>9. CASE Store(s) \/ OpenFile(s) \/ OpenSum(s) \/ WriteSum(s) \/ OpenLock(s)
  BY <1>9, <1>a, GoesOn
<1>10. CASE OpenArchive(s) \/ WriteArchive(s) \/ OpenMeta(s)
  BY <1>10, <1>a, PublishEffect DEF Becomes
<1>11. CASE Cleaned(s) \/ Kill(s) \/ Purged(s) \/ WriteMeta(s) \/ CleanOne(s) \/ PurgeOne(s)
  <2>1. shell' = shell \/ Ends(s, "ok") \/ Ends(s, "none") \/ Stands(s, "purge")
    BY <1>11, GoesOn
  <2> QED
    BY <1>0, <1>a, <2>1
<1> QED
  BY <1>1, <1>2, <1>3, <1>4, <1>5, <1>6, <1>7, <1>8, <1>9, <1>10, <1>11 DEF Step

\* Where somebody else takes the step.
LEMMA SteadyOfOthers ==
    ASSUME TypeOK, AtWork, OneInstaller, NEW s \in Shells, Step(s), NEW t \in Shells, t # s, SteadyOf(t)
    PROVE  SteadyOf(t)'
<1> SUFFICES ASSUME shell'[t].steady PROVE SteadyOf(t)'
  BY DEF SteadyOf
<1>1. /\ shell'[t].pc = shell[t].pc /\ shell'[t].v = V(t) /\ shell'[t].want = shell[t].want
      /\ shell'[t].sum = shell[t].sum /\ shell'[t].held = shell[t].held /\ shell[t].steady
  BY OthersStay DEF Same, Becomes
<1>2. shell[t].pc \in Installing /\ V(t) \in Versions
  BY <1>1 DEF SteadyOf, AtWork
<1>3. cache' = cache
  BY <1>2, OthersInstallNothing
<1>4. reg'[V(t)].archive = reg[V(t)].archive
  BY <1>2, RegistryStep, OthersStay
<1> QED
  BY <1>1, <1>2, <1>3, <1>4 DEF SteadyOf, V

\* Where the install itself goes on.
LEMMA SteadyOfItself ==
    ASSUME TypeOK, AtWork, NEW s \in Shells, Step(s), SteadyOf(s)
    PROVE  SteadyOf(s)'
<1> SUFFICES ASSUME shell'[s].steady PROVE SteadyOf(s)'
  BY DEF SteadyOf
<1>1. CASE /\ Resolve(s) /\ shell'[s].pc = "check" /\ shell'[s].v \in Versions
           /\ shell'[s].want = reg[shell'[s].v].meta /\ Whole(shell'[s].v)
  <2>1. reg' = reg
    BY <1>1 DEF Resolve
  <2> QED
    BY <1>1, <2>1 DEF SteadyOf, Whole, Installing
<1>2. CASE /\ shell[s].steady /\ shell'[s].want = shell[s].want /\ shell'[s].v = V(s)
           /\ shell[s].pc \in Installing => shell'[s].pc \in Installing
  <2>1. /\ shell[s].pc \in Installing /\ shell'[s].pc \in Installing /\ shell[s].want \in Contents
        /\ V(s) \in Versions
    BY <1>2 DEF SteadyOf, AtWork
  <2>2. reg'[V(s)].archive = shell[s].want /\ reg[V(s)].archive = shell[s].want
    <3>1. ~OpenArchive(s) /\ ~WriteArchive(s)
      BY <2>1 DEF OpenArchive, WriteArchive, At, Installing, Unpacking
    <3> QED
      BY <1>2, <2>1, <3>1, RegistryStep DEF SteadyOf, V
  <2>3. ASSUME shell'[s].pc = "store" PROVE shell'[s].held = shell'[s].want
    <3>1. shell'[s].held = reg[V(s)].archive
      BY <2>3, EarlyStep
    <3> QED
      BY <1>2, <2>2, <3>1
  <2>4. ASSUME shell'[s].pc = "verify" PROVE cache'[V(s)] = shell'[s].want
    <3>2. \/ (cache' = cache /\ cache[V(s)] = shell[s].want)
          \/ (shell[s].pc = "store" /\ cache'[V(s)] = shell[s].held)
      BY <2>4, EarlyStep
    <3> QED
      BY <1>2, <3>2 DEF SteadyOf
  <2>5. ASSUME shell'[s].pc = "open" PROVE cache'[V(s)] = shell'[s].want /\ shell'[s].sum = shell'[s].want
    <3>2. Verify(s) /\ cache' = cache /\ shell'[s].sum = cache[V(s)]
      BY <2>5, EarlyStep
    <3>3. shell[s].pc = "verify"
      BY <3>2 DEF Verify, At
    <3> QED
      BY <1>2, <3>2, <3>3 DEF SteadyOf, V
  <2> QED
    BY <1>2, <2>1, <2>2, <2>3, <2>4, <2>5 DEF SteadyOf
<1> QED
  BY <1>1, <1>2, SteadyStep

\* A step keeps what an undisturbed install relies on.
LEMMA NextSteady ==
    ASSUME TypeOK, AtWork, OneInstaller, SteadyInv, [Next]_vars
    PROVE  SteadyInv'
<1>1. CASE UNCHANGED vars
  BY <1>1 DEF vars, SteadyInv, V
<1>2. ASSUME NEW s \in Shells, Step(s) PROVE SteadyInv'
  <2>1. ASSUME NEW t \in Shells PROVE shell'[t].last # "failed" /\ SteadyOf(t)'
    <3>1. shell[t].last # "failed" /\ SteadyOf(t)
      BY SteadyParts
    <3>2. CASE t # s
      <4>1. shell'[t].last = shell[t].last
        BY <1>2, <3>2, OthersStay DEF Same, Becomes
      <4> QED
        BY <1>2, <3>1, <3>2, <4>1, SteadyOfOthers
    <3>3. CASE t = s
      BY <1>2, <3>1, <3>3, NoneFails, SteadyOfItself
    <3> QED
      BY <3>2, <3>3
  <2> QED
    BY <2>1 DEF SteadyInv, SteadyOf, V
<1> QED
  BY <1>1, <1>2, NextIsStep

-----------------------------------------------------------------------------
(* The theorems                                                            *)

\* The inductive invariant holds at first,
LEMMA InitStore == Init => StoreInv
<1> SUFFICES ASSUME Init PROVE StoreInv
  OBVIOUS
<1>1. TypeOK /\ AtWork /\ OnlyPublished /\ EntryStays
  BY InitType, InitAtWork, InitOnlyPublished, InitEntry
<1>2. \A s \in Shells : shell[s].pc = "idle" /\ shell[s].steady = FALSE /\ shell[s].last = "none"
  BY DEF Init, Idle
<1>3. \A v \in Versions : inst[v].sum = Absent /\ published[v] = <<>>
  BY DEF Init
<1>4. Unheard /\ AsAnnounced /\ AsPublished
  BY <1>2, <1>3 DEF Unheard, AsAnnounced, AsPublished, Publishing, Installing, Unpacking, Newest
<1>5. Absent \notin Contents
  BY StoreAssumption DEF Absent
<1>6. WholeInv
  BY <1>3, <1>4, <1>5 DEF WholeInv, Passes
<1>7. SteadyInv
  BY <1>2 DEF SteadyInv
<1> QED
  BY <1>1, <1>6, <1>7 DEF StoreInv

\* every step keeps it,
LEMMA NextStore == StoreInv /\ [Next]_vars => StoreInv'
<1> SUFFICES ASSUME StoreInv, [Next]_vars PROVE StoreInv'
  OBVIOUS
<1>1. TypeOK /\ AtWork /\ OnlyPublished
  BY DEF StoreInv
<1>2. TypeOK' /\ AtWork' /\ OnlyPublished'
  BY <1>1, NextType, NextAtWork, NextOnlyPublished
<1>3. (NobodyPurges' <=> NobodyPurges) /\ (OneInstaller' <=> OneInstaller) /\ (OnePublisher' <=> OnePublisher)
  <2>1. /\ All({"purge"})' = All({"purge"}) /\ All({"publish"})' = All({"publish"})
        /\ All({"install", "offline", "clean"})' = All({"install", "offline", "clean"})
    BY ScenesFixed DEF All
  <2> QED
    BY <2>1 DEF NobodyPurges, OneInstaller, OnePublisher, AtMostOne
<1>4. NobodyPurges => EntryStays'
  BY <1>1, NextEntry DEF StoreInv
<1>5. OnePublisher => AsPublished'
  BY <1>1, NextAsPublished DEF StoreInv, WholeInv
<1>6. ASSUME Orderly', ~blind' PROVE Unheard' /\ AsAnnounced' /\ PassesWhole'
  <2>1. OneInstaller /\ OnePublisher /\ NothingReturns'
    BY <1>3, <1>6 DEF Orderly
  <2>2. Together
    BY <1>1, <2>1 DEF StoreInv, WholeInv, Together, OneInstaller
  <2>3. NothingReturns /\ ~blind => Unheard /\ AsAnnounced /\ PassesWhole
    BY <2>1 DEF StoreInv, WholeInv, PassesWhole, Orderly
  <2> QED
    BY <1>1, <1>6, <2>1, <2>2, <2>3, NextWhole
<1>7. OneInstaller => SteadyInv'
  BY <1>1, NextSteady DEF StoreInv
<1>8. WholeInv'
  BY <1>3, <1>5, <1>6 DEF WholeInv, PassesWhole
<1> QED
  BY <1>2, <1>3, <1>4, <1>7, <1>8 DEF StoreInv

\* and so it always holds.
LEMMA StoreInvariant == Spec => []StoreInv
BY InitStore, NextStore, PTL DEF Spec

\* A command at work is one its shell was given, on a version of the package;
\* and a file in the registry, in the cache or in the store is not there, or
\* has just been emptied, or is of a tree that this very version was published
\* with, however many shells install, publish, clean and are killed.
THEOREM StoreTypes == Spec => [](TypeOK /\ AtWork /\ OnlyPublished)
<1>1. StoreInv => TypeOK /\ AtWork /\ OnlyPublished
  BY DEF StoreInv
<1> QED
  BY <1>1, StoreInvariant, PTL

\* For any number of shells, versions and publications, killed at any step: a
\* lock names a version whose import file is there, unless somebody purges
\* (rin_interpreter.cpp:8052-8084).
THEOREM LockedImports == Spec => []LockedCanBeImported
<1>1. StoreInv => LockedCanBeImported
  BY DEF StoreInv, EntryStays, LockedCanBeImported
<1> QED
  BY <1>1, StoreInvariant, PTL

\* For any archives and any number of publications of a version, none of which
\* brings a replaced tree back, and for kills between any two steps, the
\* emptying of a file and its writing included: what has the checksum the
\* registry announces has all its files
\* (cache.cpp:104-113, package_ops.cpp:49-52, archive.cpp:138-142).
THEOREM InstalledWhole == Spec => []InstalledIsWhole
<1>1. ASSUME StoreInv PROVE InstalledIsWhole
  <2> SUFFICES ASSUME Orderly, ~blind, NEW v \in Versions, inst[v].sum \in Contents, inst[v].sum = reg[v].meta
               PROVE  HasAll(v, inst[v].sum)
    BY DEF InstalledIsWhole, HasAll
  <2>1. Passes(v)
    BY DEF Passes
  <2> QED
    BY <1>1, <2>1 DEF StoreInv, WholeInv
<1> QED
  BY <1>1, StoreInvariant, PTL

\* Whatever killed installs, cleans and publications left behind, an install
\* that nobody disturbs and whose registry entry is whole does not fail
\* (cache.cpp:95-102, package_ops.cpp:55-82).
THEOREM StoreHeals == Spec => []HealsItself
<1>1. StoreInv => HealsItself
  BY DEF StoreInv, SteadyInv, HealsItself
<1> QED
  BY <1>1, StoreInvariant, PTL
=============================================================================
