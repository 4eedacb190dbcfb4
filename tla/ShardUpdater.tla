---------------------------- MODULE ShardUpdater ----------------------------
(***************************************************************************)
(* `sku update`: how a shard on a user's machine follows the releases.     *)
(*                                                                         *)
(* A process reads the local version, fetches the manifest and then either *)
(* installs the baseline (write <shard>.db.part, rename it over            *)
(* <shard>.db) or applies a chain of deltas to <shard>.db in one SQLite    *)
(* transaction, under an advisory lock on <shard>.db.lock.  The functions  *)
(* are Update, installBaseline and Install (internal/updater/updater.go)   *)
(* and Applier.Apply (internal/updater/chain.go).                          *)
(*                                                                         *)
(* The directory maps names to inodes, so that a rename under an open file *)
(* and two processes writing one .part file mean what they mean on disk.   *)
(* A transaction writes the file in place and keeps the old contents in a  *)
(* rollback journal that, like the lock, goes by the name of the file.     *)
(***************************************************************************)
EXTENDS Integers, Sequences, FiniteSets

CONSTANTS
    Proc,           \* processes that may run `sku update` on the shard
    Ino,            \* inodes
    Row,            \* keys of the shard's rows
    Val,            \* payloads
    MaxVersion,     \* bound on the number of releases
    Truth,          \* Truth[v]: the rows of the shard as of release v
    MaxChain,       \* UpdateOptions.MaxChain
    Channel,        \* update channels in use
    FirstReleases,  \* histories of releases a behaviour may begin with
    FirstLocal,     \* versions the shard may be at then, 0 for not installed
    Lag,            \* how many releases a manifest server may be behind
    None, Torn

Version == 1..MaxVersion
Content == [version : Version, rows : [Row -> Val]]
Manifest == [baseline : Version, head : Version]
Delta == [from : Version, to : Version]

ASSUME UpdaterAssumption ==
    /\ MaxVersion \in Nat \ {0}
    /\ MaxChain \in Nat
    /\ Lag \in Nat
    /\ Truth \in [Version -> [Row -> Val]]
    /\ Channel \subseteq {"stable", "daily"}
    /\ FirstLocal \subseteq {0} \cup Version
    /\ None \notin Ino \cup Proc \cup {Torn}
    /\ Torn \notin Content /\ None \notin Content
    /\ None \notin [ino : Ino, undo : Content]

(* What the pipeline publishes (build_manifest.py): release n either       *)
(* carries a new baseline or extends its predecessor by one delta.         *)
Released(ms) ==
    \A n \in 1..Len(ms) :
        /\ ms[n].head = n
        /\ ms[n].baseline <= n
        /\ ms[n].baseline < n =>
               n > 1 /\ ms[n].baseline = ms[n - 1].baseline

ASSUME ReleasesAssumption ==
    \A ms \in FirstReleases :
        /\ ms \in Seq(Manifest)
        /\ Len(ms) \in 1..MaxVersion
        /\ Released(ms)
        /\ \A v \in FirstLocal : v <= Len(ms)

Faithful(v) == [version |-> v, rows |-> Truth[v]]

-----------------------------------------------------------------------------
VARIABLES
    published,  \* the manifests of all releases so far
    dir,        \* file name -> inode: "db" is <shard>.db, "part" its .part
    disk,       \* inode -> what the file holds
    journal,    \* <shard>.db-journal: whose old contents it keeps
    lock,       \* who holds the flock on <shard>.db.lock
    pc, chan,
    local,      \* the version Update read, 0 when the file was missing
    entry,      \* the manifest entry it works from
    chain,      \* deltas still to be applied
    fd,         \* the file it has open
    result,     \* how its latest update ended
    before      \* the shard a reader saw when that update began (history)

files == <<dir, disk, journal>>
procs == <<pc, chan, local, entry, chain, fd, result, before>>
vars == <<published, files, lock, procs>>

NoManifest == [baseline |-> 0, head |-> 0]
Outcome == {"none", "noop", "delta", "baseline", "unreadable", "failed", "locked", "crashed"}
NoResult == [outcome |-> "none", to |-> 0]

-----------------------------------------------------------------------------
(* SQLite.  A journal is hot when no transaction is open on the file that  *)
(* bears the name; whoever opens that file next plays the journal back     *)
(* into it, even if the name has been given to another file since.         *)
InTransaction(i) == \E q \in Proc : pc[q] = "apply" /\ fd[q] = i

Hot ==
    /\ journal # None
    /\ dir.db # None
    /\ ~InTransaction(dir.db)

PlayedBack == IF journal.ino = dir.db THEN journal.undo ELSE Torn

Recover ==
    IF Hot
    THEN /\ disk' = [disk EXCEPT ![dir.db] = PlayedBack]
         /\ journal' = None
    ELSE UNCHANGED <<disk, journal>>

(* What a reader that opens <shard>.db now gets to see. *)
Visible ==
    IF dir.db = None THEN None
    ELSE IF Hot THEN PlayedBack
    ELSE IF journal # None /\ journal.ino = dir.db THEN journal.undo
    ELSE disk[dir.db]

VisibleVersion == IF Visible = None THEN 0 ELSE Visible.version

-----------------------------------------------------------------------------
(* The manifest and the decision Update takes on it.                       *)

Deltas(e) == {[from |-> v, to |-> v + 1] : v \in e.baseline..(e.head - 1)}

AllDeltas(e, v) == Deltas(e)

Upgrades(e, v) == {d \in Deltas(e) : d.from > v}

Chain(e, v) == {d \in Deltas(e) : d.from >= v}

WantsBaseline(c, v, e) == c = "stable" \/ v = 0 \/ v < e.baseline

StartsElsewhere(e, v) == ~\E d \in Chain(e, v) : d.from = v

TooLong(e, v) == Cardinality(Chain(e, v)) > MaxChain

(* A server answers with the newest manifest, a stale copy with one of the *)
(* Lag before it.                                                          *)
Newest == Len(published)
Answers == {n \in 1..Newest : n >= Newest - Lag}

(* The end of an update: the lock and the open file go with the process.   *)
Ends(p, outcome, v) ==
    /\ pc' = [pc EXCEPT ![p] = "idle"]
    /\ result' = [result EXCEPT ![p] = [outcome |-> outcome, to |-> v]]
    /\ lock' = IF lock = p THEN None ELSE lock
    /\ chan' = [chan EXCEPT ![p] = "daily"]
    /\ local' = [local EXCEPT ![p] = 0]
    /\ entry' = [entry EXCEPT ![p] = NoManifest]
    /\ chain' = [chain EXCEPT ![p] = {}]
    /\ fd' = [fd EXCEPT ![p] = None]
    /\ UNCHANGED <<published, before>>

Goto(p, l) == pc' = [pc EXCEPT ![p] = l]

-----------------------------------------------------------------------------
Init ==
    /\ published \in FirstReleases
    /\ \E v \in FirstLocal, i \in Ino :
           /\ dir = [db |-> IF v = 0 THEN None ELSE i, part |-> None]
           /\ disk = [j \in Ino |-> IF v # 0 /\ j = i THEN Faithful(v) ELSE Torn]
    /\ journal = None
    /\ lock = None
    /\ pc = [p \in Proc |-> "idle"]
    /\ chan = [p \in Proc |-> "daily"]
    /\ local = [p \in Proc |-> 0]
    /\ entry = [p \in Proc |-> NoManifest]
    /\ chain = [p \in Proc |-> {}]
    /\ fd = [p \in Proc |-> None]
    /\ result = [p \in Proc |-> NoResult]
    /\ before = [p \in Proc |-> None]

(* A new release, with a baseline of its own or a delta to the previous.   *)
PublishBaseline ==
    /\ Newest < MaxVersion
    /\ published' = Append(published, [baseline |-> Newest + 1, head |-> Newest + 1])
    /\ UNCHANGED <<files, lock, procs>>

PublishDeltaUnchained ==
    /\ Newest < MaxVersion
    /\ published' = Append(published, [baseline |-> Newest, head |-> Newest + 1])
    /\ UNCHANGED <<files, lock, procs>>

PublishDelta ==
    /\ Newest < MaxVersion
    /\ published' = Append(published, [published[Newest] EXCEPT !.head = Newest + 1])
    /\ UNCHANGED <<files, lock, procs>>

(* Step 1 of Update: opening the file recovers it.  A file that is broken, *)
(* or busy in a transaction, ends the update before it has asked for a     *)
(* manifest; a busy one may also still show its old contents.              *)
ReadLocal(p, c) ==
    /\ pc[p] = "idle"
    /\ Visible # Torn
    /\ Recover
    /\ Goto(p, "manifest")
    /\ chan' = [chan EXCEPT ![p] = c]
    /\ local' = [local EXCEPT ![p] = VisibleVersion]
    /\ before' = [before EXCEPT ![p] = Visible]
    /\ result' = [result EXCEPT ![p] = NoResult]
    /\ UNCHANGED <<published, dir, lock, entry, chain, fd>>

ReadLocalFails(p) ==
    /\ pc[p] = "idle"
    /\ Visible = Torn \/ InTransaction(dir.db)
    /\ Recover
    /\ result' = [result EXCEPT ![p] = [outcome |-> "unreadable", to |-> 0]]
    /\ before' = [before EXCEPT ![p] = Visible]
    /\ UNCHANGED <<published, dir, lock, pc, chan, local, entry, chain, fd>>

(* Steps 2 to 5: fetch the manifest, pick a way. *)
ChooseBaseline(p, e) ==
    /\ pc[p] = "manifest"
    /\ \/ WantsBaseline(chan[p], local[p], e)
       \/ /\ Chain(e, local[p]) # {}
          /\ StartsElsewhere(e, local[p]) \/ TooLong(e, local[p])
    /\ entry' = [entry EXCEPT ![p] = e]
    /\ Goto(p, "get")
    /\ UNCHANGED <<published, files, lock, chan, local, chain, fd, result, before>>

ChooseNothing(p, e) ==
    /\ pc[p] = "manifest"
    /\ ~WantsBaseline(chan[p], local[p], e)
    /\ Chain(e, local[p]) = {}
    /\ Ends(p, "noop", local[p])
    /\ UNCHANGED files

ChooseChain(p, e) ==
    /\ pc[p] = "manifest"
    /\ ~WantsBaseline(chan[p], local[p], e)
    /\ ~StartsElsewhere(e, local[p])
    /\ ~TooLong(e, local[p])
    /\ entry' = [entry EXCEPT ![p] = e]
    /\ chain' = [chain EXCEPT ![p] = Chain(e, local[p])]
    /\ Goto(p, "lock")
    /\ UNCHANGED <<published, files, lock, chan, local, fd, result, before>>

Fetch(p, e) == ChooseBaseline(p, e) \/ ChooseNothing(p, e) \/ ChooseChain(p, e)

(* Any error that leaves nothing to clean up: a failed request, no entry   *)
(* for the shard, an unsupported schema version, a bad checksum.           *)
Fail(p) ==
    /\ pc[p] \in {"manifest", "get"}
    /\ Ends(p, "failed", 0)
    /\ UNCHANGED files

-----------------------------------------------------------------------------
(* Applier.Apply. *)

TakeLock(p) ==
    /\ pc[p] = "lock"
    /\ lock = None
    /\ lock' = p
    /\ Goto(p, "begin")
    /\ UNCHANGED <<published, files, chan, local, entry, chain, fd, result, before>>

Locked(p) ==
    /\ pc[p] = "lock"
    /\ lock # None
    /\ Ends(p, "locked", 0)
    /\ UNCHANGED files

(* Open <shard>.db, which may not be the file local was read from, and     *)
(* BEGIN IMMEDIATE.                                                        *)
BeginTx(p) ==
    /\ pc[p] = "begin"
    /\ Visible # Torn
    /\ ~InTransaction(dir.db)
    /\ disk' = [disk EXCEPT ![dir.db] = Visible]
    /\ journal' = [ino |-> dir.db, undo |-> Visible]
    /\ fd' = [fd EXCEPT ![p] = dir.db]
    /\ Goto(p, "apply")
    /\ UNCHANGED <<published, dir, lock, chan, local, entry, chain, result, before>>

(* The file cannot be opened or read, someone else is writing to it, or     *)
(* SQLite fails for another reason, with the journal played back or not.   *)
BeginTxFails(p) ==
    /\ pc[p] = "begin"
    /\ Recover \/ UNCHANGED <<disk, journal>>
    /\ Ends(p, "failed", 0)
    /\ UNCHANGED dir

(* A delta sets the rows that differ between its two releases, and replays *)
(* the metadata of the later one.                                          *)
Patched(f, d) ==
    [version |-> d.to,
     rows |-> [r \in Row |->
                  IF Truth[d.from][r] # Truth[d.to][r]
                  THEN Truth[d.to][r] ELSE f.rows[r]]]

LastFirst(ds) == CHOOSE d \in ds : \A e \in ds : d.from >= e.from

First(ds) == CHOOSE d \in ds : \A e \in ds : d.from <= e.from

ApplyDelta(p) ==
    /\ pc[p] = "apply"
    /\ chain[p] # {} /\ disk[fd[p]] # Torn
    /\ disk' = [disk EXCEPT ![fd[p]] = Patched(@, First(chain[p]))]
    /\ chain' = [chain EXCEPT ![p] = @ \ {First(@)}]
    /\ UNCHANGED <<published, dir, journal, lock, pc, chan, local, entry, fd,
                   result, before>>

Journalled(p) == journal # None /\ journal.ino = fd[p]

(* A delta cannot be fetched or executed, or COMMIT finds a reader. *)
ApplyFailsNoRollback(p) ==
    /\ pc[p] = "apply"
    /\ journal' = IF Journalled(p) THEN None ELSE journal
    /\ UNCHANGED <<dir, disk>>
    /\ Ends(p, "failed", 0)

ApplyFailsFromBackup(p) ==
    /\ pc[p] = "apply"
    /\ disk' = [disk EXCEPT ![fd[p]] = before[p]]
    /\ journal' = None
    /\ UNCHANGED dir
    /\ Ends(p, "failed", 0)

ApplyFails(p) ==
    /\ pc[p] = "apply"
    /\ IF Journalled(p)
       THEN /\ disk' = [disk EXCEPT ![fd[p]] = journal.undo]
            /\ journal' = None
       ELSE UNCHANGED <<disk, journal>>
    /\ UNCHANGED dir
    /\ Ends(p, "failed", 0)

(* The head version is pinned last; COMMIT drops the journal. *)
CommitEarly(p) ==
    /\ pc[p] = "apply"
    /\ disk[fd[p]] # Torn
    /\ disk' = [disk EXCEPT ![fd[p]].version = entry[p].head]
    /\ journal' = IF Journalled(p) THEN None ELSE journal
    /\ UNCHANGED dir
    /\ Ends(p, "delta", entry[p].head)

Commit(p) ==
    /\ pc[p] = "apply"
    /\ chain[p] = {} /\ disk[fd[p]] # Torn
    /\ disk' = [disk EXCEPT ![fd[p]].version = entry[p].head]
    /\ journal' = IF Journalled(p) THEN None ELSE journal
    /\ UNCHANGED dir
    /\ Ends(p, "delta", entry[p].head)

-----------------------------------------------------------------------------
(* Install, with the baseline of the entry: no lock is taken. *)

Free(i) ==
    /\ i \notin {dir.db, dir.part}
    /\ \A q \in Proc : fd[q] # i
    /\ journal # None => journal.ino # i

(* Both requests answered, the checksum matches. *)
GetBaseline(p) ==
    /\ pc[p] = "get"
    /\ Goto(p, "remove")
    /\ UNCHANGED <<published, files, lock, chan, local, entry, chain, fd, result, before>>

RemovePart(p) ==
    /\ pc[p] = "remove"
    /\ dir' = [dir EXCEPT !.part = None]
    /\ Goto(p, "create")
    /\ UNCHANGED <<published, disk, journal, lock, chan, local, entry, chain, fd,
                   result, before>>

CreateInPlace(p) ==
    /\ pc[p] = "create"
    /\ \E i \in Ino :
           /\ IF dir.db = None THEN Free(i) ELSE i = dir.db
           /\ dir' = [dir EXCEPT !.db = i]
           /\ disk' = [disk EXCEPT ![i] = Torn]
           /\ fd' = [fd EXCEPT ![p] = i]
    /\ Goto(p, "write")
    /\ UNCHANGED <<published, journal, lock, chan, local, entry, chain, result, before>>

(* os.Create truncates the .part file somebody else may have made. *)
CreatePart(p) ==
    /\ pc[p] = "create"
    /\ \E i \in Ino :
           /\ IF dir.part = None THEN Free(i) ELSE i = dir.part
           /\ dir' = [dir EXCEPT !.part = i]
           /\ disk' = [disk EXCEPT ![i] = Torn]
           /\ fd' = [fd EXCEPT ![p] = i]
    /\ Goto(p, "write")
    /\ UNCHANGED <<published, journal, lock, chan, local, entry, chain, result, before>>

(* The copy is complete, unless another process is still writing the file. *)
WritePart(p) ==
    /\ pc[p] = "write"
    /\ disk' = [disk EXCEPT ![fd[p]] =
                   IF \E q \in Proc \ {p} : pc[q] = "write" /\ fd[q] = fd[p]
                   THEN Torn ELSE Faithful(entry[p].baseline)]
    /\ fd' = [fd EXCEPT ![p] = None]
    /\ Goto(p, "rename")
    /\ UNCHANGED <<published, dir, journal, lock, chan, local, entry, chain,
                   result, before>>

WritePartFails(p) ==
    /\ pc[p] = "write"
    /\ dir' = [dir EXCEPT !.part = None]
    /\ fd' = [fd EXCEPT ![p] = None]
    /\ Goto(p, "abort")
    /\ UNCHANGED <<published, disk, journal, lock, chan, local, entry, chain,
                   result, before>>

Rename(p) ==
    /\ pc[p] = "rename"
    /\ dir.part # None
    /\ dir' = [db |-> dir.part, part |-> None]
    /\ Goto(p, "cleanup")
    /\ UNCHANGED <<published, disk, journal, lock, chan, local, entry, chain, fd,
                   result, before>>

(* The .part file is gone, as when another install has removed it, or the  *)
(* rename fails for another reason.                                        *)
RenameFails(p) ==
    /\ pc[p] = "rename"
    /\ Goto(p, "abort")
    /\ UNCHANGED <<published, files, lock, chan, local, entry, chain, fd, result, before>>

(* The deferred os.Remove, whoever's .part file it meets; installBaseline  *)
(* then reports the head of the entry.                                     *)
Cleanup(p) ==
    /\ pc[p] \in {"cleanup", "abort"}
    /\ dir' = [dir EXCEPT !.part = None]
    /\ IF pc[p] = "cleanup"
       THEN Ends(p, "baseline", entry[p].head)
       ELSE Ends(p, "failed", 0)
    /\ UNCHANGED <<disk, journal>>

-----------------------------------------------------------------------------
CrashKeepsLock(p) ==
    /\ pc[p] # "idle"
    /\ pc' = [pc EXCEPT ![p] = "idle"]
    /\ fd' = [fd EXCEPT ![p] = None]
    /\ chain' = [chain EXCEPT ![p] = {}]
    /\ UNCHANGED <<published, files, lock, chan, local, entry, result, before>>

(* The process is killed: the kernel drops its lock, its files stay. *)
Crash(p) ==
    /\ pc[p] # "idle"
    /\ Ends(p, "crashed", 0)
    /\ UNCHANGED files

Install(p) ==
    \/ GetBaseline(p) \/ RemovePart(p) \/ CreatePart(p) \/ WritePart(p)
    \/ Rename(p) \/ Cleanup(p)

Apply(p) == TakeLock(p) \/ BeginTx(p) \/ ApplyDelta(p) \/ Commit(p)

Fault(p) ==
    \/ ReadLocalFails(p) \/ Fail(p) \/ Locked(p) \/ BeginTxFails(p) \/ ApplyFails(p)
    \/ WritePartFails(p) \/ RenameFails(p) \/ Crash(p)

Step(p) ==
    \/ \E c \in Channel : ReadLocal(p, c)
    \/ \E n \in Answers : Fetch(p, published[n])
    \/ Apply(p)
    \/ Install(p)

Next ==
    \/ PublishBaseline
    \/ PublishDelta
    \/ \E p \in Proc : Step(p) \/ Fault(p)

Spec == Init /\ [][Next]_vars

(* Updates are run again and again, and a process that is not killed gets  *)
(* to take its next step.                                                  *)
FairSpec == Spec /\ \A p \in Proc : WF_vars(Step(p))

-----------------------------------------------------------------------------
(* The variables have their types, and the published manifests the form    *)
(* build_manifest gives them.                                              *)
TypeOK ==
    /\ published \in Seq(Manifest)
    /\ Released(published)
    /\ dir \in [{"db", "part"} -> Ino \cup {None}]
    /\ disk \in [Ino -> Content \cup {Torn}]
    /\ journal \in {None} \cup [ino : Ino, undo : Content]
    /\ lock \in Proc \cup {None}
    /\ pc \in [Proc -> {"idle", "manifest", "lock", "begin", "apply", "get", "remove",
                        "create", "write", "rename", "cleanup", "abort"}]
    /\ chan \in [Proc -> {"stable", "daily"}]
    /\ local \in [Proc -> {0} \cup Version]
    /\ entry \in [Proc -> Manifest \cup {NoManifest}]
    /\ chain \in [Proc -> SUBSET Delta]
    /\ fd \in [Proc -> Ino \cup {None}]
    /\ result \in [Proc -> [outcome : Outcome, to : {0} \cup Version]]
    /\ before \in [Proc -> Content \cup {None, Torn}]

(* The rows a reader gets are exactly those of the release that the shard  *)
(* names as its catalog_version: no mixture of releases, no torn file,     *)
(* through crashes, rollbacks and stale manifests.                         *)
ContentMatchesLabel ==
    Visible = None \/ \E v \in 1..Newest : Visible = Faithful(v)

(* An update that reports an error leaves the shard as it found it, after  *)
(* a chain that failed half-way (chain.go:66-68) as after an install       *)
(* (updater.go:106-107).                                                   *)
FailedUpdateLeavesShard ==
    \A p \in Proc :
        result[p].outcome \in {"unreadable", "failed", "locked"} => Visible = before[p]

(* After an update that applied deltas, or had nothing to apply, the shard *)
(* is the release Result.To names, with every row of it.                   *)
DeltaResultHonest ==
    \A p \in Proc :
        result[p].outcome \in {"noop", "delta"} => Visible = Faithful(result[p].to)

(* Two transactions never run at once: the lock is held by the one process *)
(* between TakeLock and the end of its update, and by nobody else; a crash *)
(* does not leave it behind (Flock, not the existence of the file, is the  *)
(* lock).                                                                  *)
LockProtocol ==
    \A p \in Proc : pc[p] \in {"begin", "apply"} <=> lock = p

(* Install "atomically renames on success", and on any error the .part     *)
(* file is cleaned up and the shard left untouched (updater.go:104-107):   *)
(* when no update runs any more, the shard can be read.                    *)
InstallAtomic == (\A p \in Proc : pc[p] = "idle") => Visible # Torn

(* On the daily channel a shard never goes back to an older release,       *)
(* however stale the manifest, unless the chain is too long to apply.      *)
DailyNeverRegresses ==
    [][\A p \in Proc :
          chan[p] = "daily" /\ ~TooLong(entry[p], local[p])
              => VisibleVersion' >= VisibleVersion]_vars

(* What a reader sees changes from release to release in single steps.     *)
Atomic == INSTANCE ReleasedShard WITH shard <- Visible
ImplementsReleasedShard == Atomic!Spec

(* Once faults, stale manifests and updates on the stable channel stop,    *)
(* daily updates bring the shard to the newest release and keep it there.  *)
Disturbed ==
    \E p \in Proc :
        \/ Fault(p)
        \/ ReadLocal(p, "stable")
        \/ chan[p] = "stable"
        \/ \E n \in Answers \ {Newest} : Fetch(p, published[n])
        \/ TooLong(published[Newest], local[p]) /\ pc[p] # "idle"

ReachesHead ==
    <>[][~Disturbed]_vars => <>[](VisibleVersion = Newest)

=============================================================================
