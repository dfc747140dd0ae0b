---------------------------- MODULE PackageStore ----------------------------
(***************************************************************************)
(* What the package manager keeps on disk, and the commands that several   *)
(* shells run on it: install, publish and clean                            *)
(* (cli/linux/src/pkg: cli_pkg.cpp, package_ops.cpp, registry.cpp,         *)
(* cache.cpp, archive.cpp, lockfile.cpp).                                  *)
(*                                                                         *)
(* One package, in a few versions, that every project depends on with "*": *)
(* Resolver says which version several packages get. Every file is opened  *)
(* (which truncates it) in one step and written in another, and a command  *)
(* can be killed between any two steps. An archive of a version is the     *)
(* number of the tree that was packed, and so is its checksum: the same    *)
(* tree packs to the same archive (archive.cpp:71-93). An archive is read  *)
(* at once.                                                                *)
(***************************************************************************)
EXTENDS Integers, FiniteSets, Sequences, SequencesExt

CONSTANTS
    Shells,      \* command lines, each in a project of its own
    Versions,    \* the versions of the package, a set of numbers
    Contents,    \* the trees a version may be published with, a set of numbers
    Files,       \* the files a package may have
    Entry,       \* the file an import reads, in every archive
    FilesOf,     \* [Contents -> Seq(Files)], in the order of the archive
    Scenes       \* which commands each shell may run: [Shells -> Seq(commands)]

Commands == {"install", "offline", "publish", "clean", "purge"}

ASSUME StoreAssumption ==
    /\ Versions \subseteq Nat \ {0} /\ Contents \subseteq Nat \ {0}
    /\ Entry \in Files
    /\ FilesOf \in [Contents -> Seq(Files)]
    /\ \A c \in Contents : Entry \in ToSet(FilesOf[c])
    /\ Scenes \subseteq [Shells -> Seq(Commands)]

VARIABLES
    scene,       \* the commands each shell runs (never changes)
    ran,         \* [Shells -> how many of them have begun]
    reg,         \* [Versions -> [archive, meta]]: registry/local
    cache,       \* [Versions -> a file]: cache/<name>-<version>.rinpkg
    inst,        \* [Versions -> [files, sum]]: packages/<name>/<version>
    lock,        \* [Shells -> a file]: rin.lock of the project
    shell,       \* [Shells -> the command that runs]
    published,   \* history, [Versions -> the trees it was published with]
    blind        \* history: an archive was accepted without a checksum

vars == <<scene, ran, reg, cache, inst, lock, shell, published, blind>>

\* A file that is not there, one that is open for writing and still empty.
\* Anything else is its content.
Absent == 0
Blank == -1
File(contents) == contents \cup {Absent, Blank}

Idle(last) == [pc |-> "idle", cmd |-> "none", v |-> 0, want |-> Absent, sum |-> Absent,
               held |-> Absent, todo |-> <<>>, steady |-> FALSE, had |-> Absent, last |-> last]

Init ==
    /\ scene \in Scenes
    /\ ran = [s \in Shells |-> 0]
    /\ reg = [v \in Versions |-> [archive |-> Absent, meta |-> Absent]]
    /\ cache = [v \in Versions |-> Absent]
    /\ inst = [v \in Versions |-> [files |-> [f \in Files |-> Absent], sum |-> Absent]]
    /\ lock = [s \in Shells |-> Absent]
    /\ shell = [s \in Shells |-> Idle("none")]
    /\ published = [v \in Versions |-> <<>>]
    /\ blind = FALSE

At(s, pc) == shell[s].pc = pc
V(s) == shell[s].v
Go(s, pc) == shell' = [shell EXCEPT ![s].pc = pc]
Fail(s) == shell' = [shell EXCEPT ![s] = Idle(IF @.steady THEN "failed" ELSE "none")]

\* The trees a version was published with, and the last of them.
Known(v) == ToSet(published[v])
Newest(v, c) == published[v] # <<>> /\ c = Last(published[v])

\* A command starts when the shell is free; publish packs a tree, which may
\* have been published before.
Given(s) == scene[s][ran[s] + 1]
Begin(s) ==
    /\ At(s, "idle") /\ ran[s] < Len(scene[s])
    /\ ran' = [ran EXCEPT ![s] = @ + 1]
    /\ \/ /\ Given(s) \in {"install", "offline"}
          /\ shell' = [shell EXCEPT ![s] = [Idle("none") EXCEPT !.pc = "resolve", !.cmd = Given(s),
                                                                !.had = lock[s]]]
          /\ UNCHANGED published
       \/ /\ Given(s) = "publish"
          /\ \E v \in Versions, c \in Contents :
                /\ published' = [published EXCEPT ![v] = IF Newest(v, c) THEN @ ELSE Append(@, c)]
                /\ shell' = [shell EXCEPT ![s] = [Idle("none") EXCEPT !.pc = "copy", !.cmd = "publish", !.v = v,
                                                                      !.held = c]]
       \/ /\ Given(s) \in {"clean", "purge"}
          /\ shell' = [shell EXCEPT ![s] = [Idle("none") EXCEPT !.pc = "clean", !.cmd = Given(s)]]
          /\ UNCHANGED published
    /\ UNCHANGED <<scene, reg, cache, inst, lock, blind>>

\* The command is killed.
Kill(s) ==
    /\ ~At(s, "idle")
    /\ shell' = [shell EXCEPT ![s] = Idle("none")]
    /\ UNCHANGED <<scene, ran, reg, cache, inst, lock, published, blind>>

-----------------------------------------------------------------------------
\* Install: resolve, then bring the version into the store, then lock it.

\* A version counts as available as soon as its directory is there; its
\* metadata must be readable, and reads as without a checksum when empty.
Available == {v \in Versions : reg[v].archive # Absent}

Whole(v) == reg[v].meta \in Contents /\ reg[v].archive = reg[v].meta

Resolve(s) ==
    /\ At(s, "resolve")
    /\ IF Available = {}
       THEN Fail(s)
       ELSE \E v \in Available :
               /\ \A w \in Available : w <= v
               /\ IF reg[v].meta = Absent
                  THEN Fail(s)
                  ELSE shell' = [shell EXCEPT ![s].pc = "check", ![s].v = v, ![s].want = reg[v].meta,
                                              ![s].steady = Whole(v)]
    /\ UNCHANGED <<scene, ran, reg, cache, inst, lock, published, blind>>

HasSources(v) == \E f \in Files : inst[v].files[f] # Absent
IsInstalledAndValid(v, want) ==
    inst[v].sum # Absent /\ HasSources(v) /\ inst[v].sum = want
IsArchiveCached_AnyFile(v, want) == cache[v] # Absent
IsArchiveCached(v, want) == cache[v] = want /\ want \in Contents

Check(s) ==
    /\ At(s, "check")
    /\ \/ IsInstalledAndValid(V(s), shell[s].want) /\ Go(s, "lock")
       \/ /\ ~IsInstalledAndValid(V(s), shell[s].want)
          /\ IsArchiveCached(V(s), shell[s].want) /\ Go(s, "verify")
       \/ /\ ~IsInstalledAndValid(V(s), shell[s].want)
          /\ ~IsArchiveCached(V(s), shell[s].want)
          /\ IF shell[s].cmd = "offline"
             THEN shell' = [shell EXCEPT ![s] = Idle("none")]
             ELSE Go(s, "download")
    /\ UNCHANGED <<scene, ran, reg, cache, inst, lock, published, blind>>

\* The registry's archive is read before the copy is opened.
Download(s) ==
    /\ At(s, "download")
    /\ shell' = [shell EXCEPT ![s].pc = "store", ![s].held = reg[V(s)].archive]
    /\ cache' = [cache EXCEPT ![V(s)] = Blank]
    /\ UNCHANGED <<scene, ran, reg, inst, lock, published, blind>>

Store(s) ==
    /\ At(s, "store")
    /\ cache' = [cache EXCEPT ![V(s)] = shell[s].held]
    /\ Go(s, "verify")
    /\ UNCHANGED <<scene, ran, reg, inst, lock, published, blind>>

\* A mismatch removes the archive; without an expected checksum none is made.
Verify(s) ==
    /\ At(s, "verify")
    /\ \/ cache[V(s)] = Absent /\ Fail(s) /\ UNCHANGED cache
       \/ /\ cache[V(s)] # Absent /\ shell[s].want # Blank /\ cache[V(s)] # shell[s].want
          /\ cache' = [cache EXCEPT ![V(s)] = Absent] /\ Fail(s)
       \/ /\ cache[V(s)] # Absent /\ (shell[s].want = Blank \/ cache[V(s)] = shell[s].want)
          /\ shell' = [shell EXCEPT ![s].pc = "open", ![s].sum = cache[V(s)]]
          /\ UNCHANGED cache
    /\ blind' = (blind \/ (shell'[s].pc = "open" /\ shell[s].want = Blank))
    /\ UNCHANGED <<scene, ran, reg, inst, lock, published>>

\* The archive is opened again, whatever it is by now; an empty one is no
\* archive.
AfterOpen_Wiped(s) == inst' = [inst EXCEPT ![V(s)].files = [f \in Files |-> Absent]]
AfterOpen_SumFirst(s) == inst' = [inst EXCEPT ![V(s)].sum = shell[s].sum]
AfterOpen(s) == inst' = inst

Open(s) ==
    /\ At(s, "open")
    /\ IF cache[V(s)] \in Contents
       THEN shell' = [shell EXCEPT ![s].pc = "unpack", ![s].held = cache[V(s)],
                                   ![s].todo = FilesOf[cache[V(s)]]]
       ELSE Fail(s)
    /\ AfterOpen(s)
    /\ UNCHANGED <<scene, ran, reg, cache, lock, published, blind>>

\* One file after the other, over what is there: each is emptied, then written.
Content(s) == shell[s].held

OpenFile(s) ==
    /\ At(s, "unpack") /\ shell[s].todo # <<>>
    /\ inst' = [inst EXCEPT ![V(s)].files[Head(shell[s].todo)] = Blank]
    /\ Go(s, "write file")
    /\ UNCHANGED <<scene, ran, reg, cache, lock, published, blind>>

WriteFile(s) ==
    /\ At(s, "write file")
    /\ inst' = [inst EXCEPT ![V(s)].files[Head(shell[s].todo)] = Content(s)]
    /\ shell' = [shell EXCEPT ![s].pc = "unpack", ![s].todo = Tail(@)]
    /\ UNCHANGED <<scene, ran, reg, cache, lock, published, blind>>

OpenSum(s) ==
    /\ At(s, "unpack") /\ shell[s].todo = <<>>
    /\ inst' = [inst EXCEPT ![V(s)].sum = Blank]
    /\ Go(s, "sum")
    /\ UNCHANGED <<scene, ran, reg, cache, lock, published, blind>>

WriteSum(s) ==
    /\ At(s, "sum")
    /\ inst' = [inst EXCEPT ![V(s)].sum = shell[s].sum]
    /\ Go(s, "lock")
    /\ UNCHANGED <<scene, ran, reg, cache, lock, published, blind>>

OpenLock(s) ==
    /\ At(s, "lock")
    /\ lock' = [lock EXCEPT ![s] = Blank]
    /\ Go(s, "write lock")
    /\ UNCHANGED <<scene, ran, reg, cache, inst, published, blind>>

WriteLock(s) ==
    /\ At(s, "write lock")
    /\ lock' = [lock EXCEPT ![s] = V(s)]
    /\ shell' = [shell EXCEPT ![s] = [Idle("ok") EXCEPT !.v = V(s), !.had = shell[s].had]]
    /\ UNCHANGED <<scene, ran, reg, cache, inst, published, blind>>

-----------------------------------------------------------------------------
\* Publish: the archive first, then the metadata with its checksum.

\* Whoever installs this version meanwhile sees the registry change.
Disturb(s, pc) ==
    shell' = [t \in Shells |-> IF t = s THEN [shell[s] EXCEPT !.pc = pc]
                              ELSE IF V(t) = V(s) THEN [shell[t] EXCEPT !.steady = FALSE]
                              ELSE shell[t]]

OpenArchive(s) ==
    /\ At(s, "copy")
    /\ reg' = [reg EXCEPT ![V(s)].archive = Blank]
    /\ Disturb(s, "write archive")
    /\ UNCHANGED <<scene, ran, cache, inst, lock, published, blind>>

WriteArchive(s) ==
    /\ At(s, "write archive")
    /\ reg' = [reg EXCEPT ![V(s)].archive = shell[s].held]
    /\ Disturb(s, "digest")
    /\ UNCHANGED <<scene, ran, cache, inst, lock, published, blind>>

\* The checksum is the stored file's, then the metadata is opened.
OpenMeta(s) ==
    /\ At(s, "digest")
    /\ reg' = [reg EXCEPT ![V(s)].meta = Blank]
    /\ shell' = [shell EXCEPT ![s].pc = "write meta", ![s].sum = reg[V(s)].archive]
    /\ UNCHANGED <<scene, ran, cache, inst, lock, published, blind>>

WriteMeta(s) ==
    /\ At(s, "write meta")
    /\ reg' = [reg EXCEPT ![V(s)].meta = shell[s].sum]
    /\ shell' = [shell EXCEPT ![s] = Idle("ok")]
    /\ UNCHANGED <<scene, ran, cache, inst, lock, published, blind>>

-----------------------------------------------------------------------------
\* Clean: the archives, and with --all the packages, in any order.

CleanOne(s) ==
    /\ At(s, "clean")
    /\ \E v \in Versions : cache[v] # Absent /\ cache' = [cache EXCEPT ![v] = Absent]
    /\ UNCHANGED <<scene, ran, reg, inst, lock, shell, published, blind>>

Cleaned(s) ==
    /\ At(s, "clean") /\ \A v \in Versions : cache[v] = Absent
    /\ IF shell[s].cmd = "purge" THEN Go(s, "purge") ELSE shell' = [shell EXCEPT ![s] = Idle("ok")]
    /\ UNCHANGED <<scene, ran, reg, cache, inst, lock, published, blind>>

PurgeOne(s) ==
    /\ At(s, "purge")
    /\ \E v \in Versions :
          \/ \E f \in Files : /\ inst[v].files[f] # Absent
                              /\ inst' = [inst EXCEPT ![v].files[f] = Absent]
          \/ inst[v].sum # Absent /\ inst' = [inst EXCEPT ![v].sum = Absent]
    /\ UNCHANGED <<scene, ran, reg, cache, lock, shell, published, blind>>

Purged(s) ==
    /\ At(s, "purge")
    /\ \A v \in Versions : ~HasSources(v) /\ inst[v].sum = Absent
    /\ shell' = [shell EXCEPT ![s] = Idle("ok")]
    /\ UNCHANGED <<scene, ran, reg, cache, inst, lock, published, blind>>

Next == \E s \in Shells :
    \/ Begin(s) \/ Kill(s)
    \/ Resolve(s) \/ Check(s) \/ Download(s) \/ Store(s) \/ Verify(s) \/ Open(s)
    \/ OpenFile(s) \/ WriteFile(s) \/ OpenSum(s) \/ WriteSum(s) \/ OpenLock(s) \/ WriteLock(s)
    \/ OpenArchive(s) \/ WriteArchive(s) \/ OpenMeta(s) \/ WriteMeta(s)
    \/ CleanOne(s) \/ Cleaned(s) \/ PurgeOne(s) \/ Purged(s)

Spec == Init /\ [][Next]_vars

-----------------------------------------------------------------------------
\* Properties.

\* Where a command stands: bringing a version into the store, publishing one.
Unpacking == {"unpack", "write file"}
Installing == {"check", "download", "store", "verify", "open", "sum", "lock", "write lock"} \cup Unpacking
Publishing == {"copy", "write archive", "digest", "write meta"}
Places == {"idle", "resolve", "clean", "purge"} \cup Installing \cup Publishing

\* Files, checksums and locks hold what their kind of file can hold, and each
\* shell is in one of its states (package_ops.cpp:42-91, registry.cpp:139-188).
ShellState ==
    [pc : Places, cmd : {"none"} \cup Commands, v : Versions \cup {0},
     want : File(Contents), sum : File(Contents), held : File(Contents),
     todo : Seq(Files), steady : BOOLEAN, had : File(Versions), last : {"none", "ok", "failed"}]

TypeOK ==
    /\ scene \in [Shells -> Seq(Commands)] /\ ran \in [Shells -> Nat]
    /\ reg \in [Versions -> [archive : File(Contents), meta : File(Contents)]]
    /\ cache \in [Versions -> File(Contents)]
    /\ inst \in [Versions -> [files : [Files -> File(Contents)], sum : File(Contents)]]
    /\ lock \in [Shells -> File(Versions)]
    /\ published \in [Versions -> Seq(Contents)]
    /\ blind \in BOOLEAN
    /\ shell \in [Shells -> ShellState]

\* Which shells have a command of some kind to run.
All(commands) == {s \in Shells : ToSet(scene[s]) \cap commands # {}}
AtMostOne(shells) == \A s, t \in shells : s = t

\* Nobody purges and one shell works on the store; one shell publishes; no
\* version goes back to a tree that another one has replaced.
NobodyPurges == All({"purge"}) = {}
OneInstaller == NobodyPurges /\ AtMostOne(All({"install", "offline", "clean"}))
OnePublisher == AtMostOne(All({"publish"}))
NothingReturns == \A v \in Versions : IsInjective(published[v])
Orderly == OneInstaller /\ OnePublisher /\ NothingReturns

\* What passes for installed is whole: when the checksum kept beside a
\* package is the one the registry announces, every file of that archive is
\* there with its content, whenever commands were killed, as long as no
\* archive came in on metadata that was still being written
\* (cache.cpp:104-113, package_ops.cpp:49-52).
InstalledIsWhole ==
    Orderly /\ ~blind => \A v \in Versions :
        inst[v].sum \in Contents /\ inst[v].sum = reg[v].meta =>
            \A f \in ToSet(FilesOf[inst[v].sum]) : inst[v].files[f] = inst[v].sum

\* Whatever killed commands left in the store, an install that nobody else
\* disturbs does not fail when the registry's entry is whole: broken archives
\* are fetched again
\* (cache.cpp:95-102, package_ops.cpp:55-82).
HealsItself == OneInstaller => \A s \in Shells : shell[s].last # "failed"

\* The file that an import of a locked version looks for is there, whatever is
\* being installed over it: an unpacking empties it and never takes it away
\* (rin_interpreter.cpp:8052-8084).
LockedCanBeImported ==
    NobodyPurges => \A s \in Shells : lock[s] \in Versions => inst[lock[s]].files[Entry] # Absent

-----------------------------------------------------------------------------
\* The inductive invariants behind these promises.

\* A command at work is one its shell was given, on a version of the package.
AtWork ==
    \A s \in Shells :
        /\ shell[s].pc \in Installing \cup {"resolve"} => s \in All({"install", "offline"})
        /\ shell[s].pc \in Publishing => s \in All({"publish"})
        /\ shell[s].pc = "clean" => s \in All({"clean", "purge"})
        /\ shell[s].pc = "purge" \/ shell[s].cmd = "purge" => s \in All({"purge"})
        /\ shell[s].pc \in Installing \cup Publishing => V(s) \in Versions
        /\ shell[s].pc \in Publishing \cup Unpacking => shell[s].held \in Contents
        /\ shell[s].pc = "write file" => shell[s].todo # <<>>

\* Whatever is in the registry, in the cache, in the store or in the hands of a
\* command is of a tree that the version was published with.
OnlyPublished ==
    /\ \A v \in Versions :
          /\ reg[v].archive \in File(Known(v)) /\ reg[v].meta \in File(Known(v))
          /\ cache[v] \in File(Known(v)) /\ inst[v].sum \in File(Known(v))
          /\ \A f \in Files : inst[v].files[f] \in File(Known(v))
    /\ \A s \in Shells : {shell[s].want, shell[s].sum, shell[s].held} \subseteq
          IF shell[s].pc \in Installing \cup Publishing THEN File(Known(V(s))) ELSE {Absent}

\* A file of a version is there or about to be unpacked.
OnTheWay(s, f) == f \in ToSet(shell[s].todo) \/ inst[V(s)].files[f] = shell[s].held
HasAll(v, c) == \A f \in ToSet(FilesOf[c]) : inst[v].files[f] = c

\* A checksum beside a package says that its import file is there, and so does
\* a lock.
EntryStays ==
    /\ \A v \in Versions : inst[v].sum # Absent => inst[v].files[Entry] # Absent
    /\ \A s \in Shells :
          /\ shell[s].pc \in Unpacking => Entry \in ToSet(shell[s].todo) \/ inst[V(s)].files[Entry] # Absent
          /\ shell[s].pc \in {"sum", "lock", "write lock"} => inst[V(s)].files[Entry] # Absent
          /\ lock[s] \in Versions => inst[lock[s]].files[Entry] # Absent

\* A single publisher announces the newest tree of its version.
AsPublished ==
    \A p \in Shells : shell[p].pc \in Publishing =>
        /\ Newest(V(p), shell[p].held)
        /\ shell[p].pc = "digest" => reg[V(p)].archive = shell[p].held
        /\ shell[p].pc = "write meta" => shell[p].sum = shell[p].held

\* While the registry announces an older tree, nobody has heard of the newest.
Unheard ==
    \A v \in Versions : reg[v].meta # Blank /\ ~Newest(v, reg[v].meta) =>
        /\ ~Newest(v, inst[v].sum)
        /\ \A s \in Shells : shell[s].pc \in Installing /\ V(s) = v => ~Newest(v, shell[s].want)

\* The package passes for installed, or will once its newest tree is announced.
Passes(v) == inst[v].sum \in Contents /\ (inst[v].sum = reg[v].meta \/ Newest(v, inst[v].sum))

\* A single installer unpacks what the registry announced when it resolved, and
\* never over what passes for installed.
AsAnnounced ==
    \A s \in Shells :
        /\ shell[s].pc \in {"open", "sum"} \cup Unpacking => shell[s].sum = shell[s].want /\ shell[s].want # Blank
        /\ shell[s].pc = "open" => cache[V(s)] = shell[s].want
        /\ shell[s].pc \in Unpacking =>
              shell[s].held = shell[s].want /\ \A f \in ToSet(FilesOf[shell[s].held]) : OnTheWay(s, f)
        /\ shell[s].pc = "sum" => shell[s].sum \in Contents /\ HasAll(V(s), shell[s].sum)
        /\ shell[s].pc = "check" /\ shell[s].want # Blank /\ Passes(V(s)) => inst[V(s)].sum = shell[s].want
        /\ shell[s].pc \in {"download", "store", "verify", "open"} \cup Unpacking /\ shell[s].want # Blank => ~Passes(V(s))

WholeInv ==
    /\ OnePublisher => AsPublished
    /\ Orderly /\ ~blind =>
          Unheard /\ AsAnnounced /\ \A v \in Versions : Passes(v) => HasAll(v, inst[v].sum)

\* An install that nobody disturbs finds in the cache what it looks for, or
\* brings it there.
SteadyInv ==
    \A s \in Shells :
        /\ shell[s].last # "failed"
        /\ shell[s].steady =>
              /\ shell[s].pc \in Installing /\ shell[s].want \in Contents
              /\ reg[V(s)].archive = shell[s].want
              /\ shell[s].pc = "store" => shell[s].held = shell[s].want
              /\ shell[s].pc \in {"verify", "open"} => cache[V(s)] = shell[s].want
              /\ shell[s].pc = "open" => shell[s].sum = shell[s].want

StoreInv ==
    /\ TypeOK /\ AtWork /\ OnlyPublished /\ WholeInv
    /\ NobodyPurges => EntryStays
    /\ OneInstaller => SteadyInv

-----------------------------------------------------------------------------
\* lockfile.h:3 says rin.lock guarantees the same resolved versions to
\* everyone who runs install on the same project. Install never reads it.
LockHonoured ==
    \A s \in Shells : shell[s].last = "ok" /\ shell[s].had \in Versions => shell[s].v = shell[s].had

\* package_ops.h:27-28 and cache.h:38 trust a checksum for the package to be
\* valid. That fails outside Orderly in two ways: where a version goes back to
\* a tree that another one had replaced and a kill left the other's files half
\* unpacked under the old checksum,
WholeOnDisk ==
    \A v \in Versions : inst[v].sum \in Contents /\ inst[v].sum = reg[v].meta => HasAll(v, inst[v].sum)
ReturnedWhole == OneInstaller /\ OnePublisher /\ ~blind => WholeOnDisk

\* and where two shells unpack one publication, one emptying a file when the
\* other has written its checksum.
ManyWhole ==
    NobodyPurges /\ ~blind /\ (\A v \in Versions : Len(published[v]) <= 1) => WholeOnDisk
=============================================================================
