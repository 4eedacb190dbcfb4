------------------------- MODULE SerialUpdateProofs -------------------------
(***************************************************************************)
(* Theorems about ShardUpdater when updates do not overlap (Alone).        *)
(*                                                                         *)
(* Whatever the channel, the manifest servers, the releases that appear    *)
(* and the faults and crashes, a reader sees one whole release, a failed   *)
(* update changes nothing, Result.To is true of an update by deltas, a     *)
(* client of the daily channel never goes back, and ShardUpdater           *)
(* implements ReleasedShard.                                               *)
(***************************************************************************)
EXTENDS ShardUpdaterProofs

USE DEF Version

Alone == \A p, q \in Proc : p = q

Whole(f) == \E v \in 1..Newest : f = Faithful(v)

(* What the one process knows at each of its steps. *)
Sure(p) ==
    /\ pc[p] # "idle" => result[p].outcome = "none"
    /\ pc[p] \notin {"idle", "apply"} => journal = None
    /\ pc[p] \notin {"idle", "manifest"} =>
           /\ entry[p].baseline <= entry[p].head
           /\ entry[p].head <= Newest
    /\ pc[p] \in {"manifest", "lock", "begin"} => local[p] = VisibleVersion
    /\ pc[p] \in {"lock", "begin"} =>
           /\ chain[p] = Chain(entry[p], local[p])
           /\ local[p] \in entry[p].baseline..entry[p].head
    /\ pc[p] = "apply" =>
           /\ journal # None
           /\ fd[p] = dir.db
           /\ \E u \in entry[p].baseline..entry[p].head :
                  /\ disk[dir.db] = Faithful(u)
                  /\ chain[p] = Chain(entry[p], u)
    /\ pc[p] = "write" => dir.part # None /\ fd[p] = dir.part
    /\ pc[p] = "rename" =>
           /\ dir.part # None
           /\ disk[dir.part] = Faithful(entry[p].baseline)
    /\ pc[p] \notin {"idle", "cleanup"} => Visible = before[p]
    /\ result[p].outcome \in {"noop", "delta"} => Visible = Faithful(result[p].to)
    /\ result[p].outcome \in {"unreadable", "failed", "locked"} => Visible = before[p]

Settled ==
    /\ Overlap
    /\ Paired
    /\ Visible = None \/ Whole(Visible)
    /\ dir.part # None => dir.part # dir.db
    /\ \A p \in Proc : Sure(p)

-----------------------------------------------------------------------------
LEMMA WholeContent ==
    ASSUME TypeOK, NEW f, Whole(f)
    PROVE  f # Torn /\ f # None /\ f.version \in 1..Newest /\ f = Faithful(f.version)
<1>1. PICK v \in 1..Newest : f = Faithful(v)
  BY DEF Whole
<1>2. Newest \in Nat /\ Newest <= MaxVersion
  <2>1. Newest \in Nat
    BY DEF Newest, TypeOK
  <2>2. CASE Newest = 0
    BY <2>2, UpdaterAssumption
  <2>3. CASE Newest > 0
    <3>1. published[Newest] \in Manifest /\ published[Newest].head = Newest
      BY <2>1, <2>3 DEF TypeOK, Released, Newest
    <3> QED
      BY <2>1, <3>1, UpdaterAssumption DEF Manifest
  <2> QED
    BY <2>1, <2>2, <2>3
<1>3. v \in Version
  BY <1>2, UpdaterAssumption
<1>4. f \in Content
  BY <1>1, <1>3, UpdaterAssumption DEF Faithful, Content
<1> QED
  <2>1. f # Torn /\ f # None
    BY <1>4, UpdaterAssumption DEF Content
  <2> QED
    BY <1>1, <2>1 DEF Faithful

(* Opening the shard outside a transaction shows what was shown before,    *)
(* and leaves no journal.                                                  *)
LEMMA RecoverSettles ==
    ASSUME Settled, Recover, dir' = dir, \A p \in Proc : pc[p] # "apply"
    PROVE  journal' = None /\ Paired' /\ Visible' = Visible
<1> USE DEF Settled
<1>1. dir.db # None => dir.db \in Ino
  BY VisibleShape DEF Overlap
<1>2. CASE journal = None
  <2>1. ~Hot
    BY <1>2 DEF Hot
  <2> QED
    BY <1>2, <2>1, VisibleIsShown DEF Recover, Paired, Shown
<1>3. CASE journal # None
  <2>1. Hot /\ PlayedBack = journal.undo
    BY <1>3 DEF Hot, InTransaction, PlayedBack, Paired
  <2>2. journal' = None /\ disk' = [disk EXCEPT ![dir.db] = journal.undo]
    BY <2>1 DEF Recover
  <2>3. disk'[dir.db] = journal.undo
    BY <1>1, <1>3, <2>2 DEF Overlap, TypeOK, Paired
  <2> QED
    BY <1>3, <2>2, <2>3, VisibleIsShown DEF Paired, Shown
<1> QED
  BY <1>2, <1>3

LEMMA PatchedFaithful ==
    ASSUME NEW u \in Version, u + 1 \in Version
    PROVE  Patched(Faithful(u), [from |-> u, to |-> u + 1]) = Faithful(u + 1)
BY UpdaterAssumption DEF Patched, Faithful

(* The end of an update that leaves what readers see alone, except that a  *)
(* success by deltas has to be one.                                        *)
LEMMA EndsSettled ==
    ASSUME Alone, Settled, Overlap', NEW p \in Proc, NEW o, NEW v, Ends(p, o, v),
           Paired', Visible' = None \/ Whole(Visible'),
           dir'.part # None => dir'.part # dir'.db,
           o \in {"noop", "delta"} => Visible' = Faithful(v),
           o \in {"unreadable", "failed", "locked"} => Visible' = before[p]
    PROVE  Settled'
<1>1. result'[p] = [outcome |-> o, to |-> v]
      /\ pc'[p] = "idle" /\ before' = before /\ Newest' = Newest
  BY DEF Ends, Settled, Overlap, TypeOK, Newest
<1>2. ASSUME NEW q \in Proc PROVE Sure(q)'
  <2>1. q = p
    BY DEF Alone
  <2> QED
    BY <1>1, <2>1 DEF Sure
<1> QED
  BY <1>1, <1>2 DEF Settled, Whole

-----------------------------------------------------------------------------
(* One lemma per group of steps.                                           *)

LEMMA InitSettled == Init => Settled
<1> SUFFICES ASSUME Init PROVE Settled
  OBVIOUS
<1>1. Overlap
  BY InitOverlap
<1>2. Paired
  BY DEF Init, Paired
<1>3. PICK v \in FirstLocal, i \in Ino :
        /\ dir = [db |-> IF v = 0 THEN None ELSE i, part |-> None]
        /\ disk = [j \in Ino |-> IF v # 0 /\ j = i THEN Faithful(v) ELSE Torn]
  BY DEF Init
<1>4. Visible = None \/ Whole(Visible)
  <2>1. Visible = IF dir.db = None THEN None ELSE disk[dir.db]
    BY <1>2, VisibleIsShown DEF Init, Shown
  <2>2. CASE v = 0
    BY <1>3, <2>1, <2>2
  <2>3. CASE v # 0
    <3>1. v \in 1..Newest
      BY <2>3, ReleasesAssumption, UpdaterAssumption DEF Init, Newest
    <3>2. Visible = Faithful(v)
      BY <1>3, <2>1, <2>3, UpdaterAssumption
    <3> QED
      BY <3>1, <3>2 DEF Whole
  <2> QED
    BY <2>2, <2>3
<1>5. dir.part = None
  BY <1>3
<1>6. \A p \in Proc : Sure(p)
  BY DEF Init, Sure, NoResult
<1> QED
  BY <1>1, <1>2, <1>4, <1>5, <1>6 DEF Settled

LEMMA PublishSettled ==
    ASSUME Settled, PublishBaseline \/ PublishDelta
    PROVE  Settled'
<1>1. Overlap'
  BY PublishOverlap DEF Settled
<1>2. UNCHANGED <<files, lock, procs>>
  BY DEF PublishBaseline, PublishDelta
<1>3. Newest \in Nat /\ Newest' = Newest + 1
  BY DEF PublishBaseline, PublishDelta, Settled, Overlap, TypeOK, Newest
<1>4. \A f : Whole(f) => Whole(f)'
  BY <1>3 DEF Whole, Faithful
<1>5. Paired' /\ Visible' = Visible
  BY <1>2, VisibleIsShown DEF Settled, Paired, Shown, files
<1>6. (Visible = None \/ Whole(Visible))'
  BY <1>4, <1>5 DEF Settled, Whole
<1>7. \A p \in Proc : Sure(p)'
  <2> SUFFICES ASSUME NEW p \in Proc PROVE Sure(p)'
    OBVIOUS
  <2>1. Sure(p) /\ VisibleVersion' = VisibleVersion
    BY <1>5 DEF Settled, VisibleVersion
  <2>2. entry[p].head <= Newest /\ pc[p] \notin {"idle", "manifest"} => entry[p].head <= Newest'
    BY <1>3, UpdaterAssumption DEF Settled, Overlap, Knows, Manifest
  <2> QED
    BY <1>2, <1>5, <2>1, <2>2 DEF Sure, files, procs, Chain, Deltas, Faithful
<1> QED
  BY <1>1, <1>2, <1>5, <1>6, <1>7 DEF Settled, files

LEMMA ReadSettled ==
    ASSUME Alone, Settled, NEW p \in Proc, NEW c \in Channel, ReadLocal(p, c)
    PROVE  Settled'
<1>1. Overlap' /\ dir' = dir
  BY ReadOverlap DEF Settled
<1>2. \A q \in Proc : q = p
  BY DEF Alone
<1>3. journal' = None /\ Paired' /\ Visible' = Visible
  BY <1>1, <1>2, RecoverSettles DEF ReadLocal
<1>4. Newest' = Newest
  BY DEF ReadLocal, Newest
<1>5. /\ pc'[p] = "manifest" /\ local'[p] = VisibleVersion
      /\ before'[p] = Visible /\ result'[p] = NoResult
  BY DEF ReadLocal, Settled, Overlap, TypeOK, Goto
<1>6. Sure(p)'
  BY <1>3, <1>5 DEF Sure, NoResult, VisibleVersion
<1> QED
  BY <1>1, <1>2, <1>3, <1>4, <1>6 DEF Settled, Whole

LEMMA FetchSettled ==
    ASSUME Alone, Settled, NEW p \in Proc, NEW n \in Answers, Fetch(p, published[n])
    PROVE  Settled'
<1> DEFINE e == published[n]
<1>1. Overlap' /\ dir' = dir
  BY FetchOverlap DEF Settled
<1>2. \A q \in Proc : q = p
  BY DEF Alone
<1>3. journal' = journal /\ disk' = disk /\ Newest' = Newest
  BY DEF Fetch, ChooseBaseline, ChooseNothing, ChooseChain, files, Newest, Ends
<1>4. Paired' /\ Visible' = Visible
  BY <1>1, <1>3, VisibleIsShown DEF Settled, Paired, Shown
<1>5. /\ e \in Manifest /\ e.head = n /\ e.baseline <= e.head /\ e.head <= Newest
      /\ n \in Nat /\ e.baseline \in Nat
  <2>1. n \in 1..Newest /\ Newest \in Nat
    BY DEF Settled, Overlap, TypeOK, Answers, Newest
  <2>2. e \in Manifest
    BY <2>1, PublishedShape DEF Settled, Overlap
  <2>3. e.head = n /\ e.baseline <= n
    BY <2>1 DEF Settled, Overlap, TypeOK, Released, Newest
  <2> QED
    BY <2>1, <2>2, <2>3, UpdaterAssumption DEF Manifest
<1>6. CASE ChooseBaseline(p, e)
  <2>1. pc'[p] = "get" /\ entry'[p] = e
    BY <1>6 DEF ChooseBaseline, Settled, Overlap, TypeOK, Goto
  <2>2. Sure(p)'
    BY <1>3, <1>4, <1>5, <1>6, <2>1 DEF ChooseBaseline, Settled, Sure
  <2> QED
    BY <1>1, <1>2, <1>3, <1>4, <2>2 DEF Settled, Whole
<1>7. CASE ChooseNothing(p, e)
  <2>1. Visible = Faithful(local[p]) /\ local[p] \in {0} \cup Version
    <3>1. local[p] = VisibleVersion /\ local[p] # 0
      BY <1>7 DEF ChooseNothing, WantsBaseline, Settled, Sure
    <3>2. Whole(Visible)
      BY <3>1 DEF Settled, VisibleVersion
    <3> QED
      BY <3>1, <3>2, WholeContent DEF VisibleVersion, Settled, Overlap, TypeOK
  <2> QED
    BY <1>1, <1>3, <1>4, <1>7, <2>1, EndsSettled
       DEF ChooseNothing, Settled, Outcome, Whole
<1>8. CASE ChooseChain(p, e)
  <2>1. pc'[p] = "lock" /\ entry'[p] = e /\ chain'[p] = Chain(e, local[p])
        /\ local' = local
    BY <1>8 DEF ChooseChain, Settled, Overlap, TypeOK, Goto
  <2>2. local[p] \in e.baseline..e.head
    <3>1. local[p] \in Nat /\ local[p] >= e.baseline
      BY <1>5, <1>8, UpdaterAssumption
         DEF ChooseChain, WantsBaseline, Settled, Overlap, TypeOK
    <3>2. PICK d \in Chain(e, local[p]) : d.from = local[p]
      BY <1>8 DEF ChooseChain, StartsElsewhere
    <3>3. local[p] <= e.head
      BY <1>5, <3>1, <3>2 DEF Chain, Deltas
    <3> QED
      BY <1>5, <3>1, <3>3
  <2>3. Sure(p)'
    BY <1>3, <1>4, <1>5, <1>8, <2>1, <2>2
       DEF ChooseChain, Settled, Sure, VisibleVersion, Chain, Deltas
  <2> QED
    BY <1>1, <1>2, <1>3, <1>4, <2>3 DEF Settled, Whole
<1> QED
  BY <1>6, <1>7, <1>8 DEF Fetch

LEMMA FaultSettled ==
    ASSUME Alone, Settled, NEW p \in Proc, Fault(p)
    PROVE  Settled'
<1>1. Overlap' /\ dir'.db = dir.db
  BY FaultOverlap DEF Settled
<1>2. \A q \in Proc : q = p
  BY DEF Alone
<1>3. Visible # Torn
  BY WholeContent, UpdaterAssumption DEF Settled, Overlap
<1>4. CASE ReadLocalFails(p)
  BY <1>2, <1>3, <1>4 DEF ReadLocalFails, InTransaction
<1>5. CASE Fail(p) \/ Locked(p)
  <2>1. UNCHANGED files /\ Newest' = Newest
    BY <1>5 DEF Fail, Locked, Ends, Newest
  <2>2. Paired' /\ Visible' = Visible
    BY <2>1, VisibleIsShown DEF Settled, Paired, Shown, files
  <2>3. Visible = before[p]
    BY <1>5 DEF Fail, Locked, Settled, Sure
  <2> QED
    BY <1>1, <1>5, <2>1, <2>2, <2>3, EndsSettled
       DEF Fail, Locked, Settled, Outcome, Whole, files
<1>6. CASE Crash(p)
  <2>1. UNCHANGED files /\ Newest' = Newest
    BY <1>6 DEF Crash, Ends, Newest
  <2>2. Paired' /\ Visible' = Visible
    BY <2>1, VisibleIsShown DEF Settled, Paired, Shown, files
  <2> QED
    BY <1>1, <1>6, <2>1, <2>2, EndsSettled DEF Crash, Settled, Outcome, Whole, files
<1>7. CASE BeginTxFails(p)
  <2>1. journal = None /\ Visible = before[p]
    BY <1>7 DEF BeginTxFails, Settled, Sure
  <2>2. UNCHANGED files /\ Newest' = Newest
    BY <1>7, <2>1 DEF BeginTxFails, Recover, Hot, Ends, Newest, files
  <2>3. Paired' /\ Visible' = Visible
    BY <2>2, VisibleIsShown DEF Settled, Paired, Shown, files
  <2> QED
    BY <1>1, <1>7, <2>1, <2>2, <2>3, EndsSettled
       DEF BeginTxFails, Settled, Outcome, Whole, files
<1>8. CASE ApplyFails(p)
  <2>1. journal # None /\ fd[p] = dir.db /\ Visible = before[p] /\ Journalled(p)
        /\ dir.db \in Ino
    BY <1>8 DEF ApplyFails, Settled, Sure, Journalled, Paired, Overlap, Knows
  <2>2. disk' = [disk EXCEPT ![dir.db] = journal.undo] /\ journal' = None /\ dir' = dir
        /\ Newest' = Newest
    BY <1>8, <2>1 DEF ApplyFails, Ends, Newest
  <2>3. disk'[dir.db] = journal.undo
    BY <2>1, <2>2 DEF Settled, Overlap, TypeOK
  <2>4. Paired' /\ Visible' = Visible
    BY <2>1, <2>2, <2>3, VisibleIsShown DEF Settled, Paired, Shown
  <2> QED
    BY <1>1, <1>8, <2>1, <2>2, <2>4, EndsSettled
       DEF ApplyFails, Settled, Outcome, Whole
<1>9. CASE WritePartFails(p)
  <2>1. journal' = journal /\ disk' = disk /\ Newest' = Newest /\ dir'.part = None
        /\ pc'[p] = "abort"
    BY <1>9 DEF WritePartFails, Newest, Settled, Overlap, TypeOK, Goto
  <2>2. Paired' /\ Visible' = Visible
    BY <1>1, <2>1, VisibleIsShown DEF Settled, Paired, Shown
  <2>3. Sure(p)'
    BY <1>9, <2>1, <2>2 DEF WritePartFails, Settled, Sure
  <2> QED
    BY <1>1, <1>2, <2>1, <2>2, <2>3 DEF Settled, Whole
<1>10. CASE RenameFails(p)
  <2>1. UNCHANGED files /\ Newest' = Newest /\ pc'[p] = "abort"
    BY <1>10 DEF RenameFails, Newest, Settled, Overlap, TypeOK, Goto
  <2>2. Paired' /\ Visible' = Visible
    BY <2>1, VisibleIsShown DEF Settled, Paired, Shown, files
  <2>3. Sure(p)'
    BY <1>10, <2>1, <2>2 DEF RenameFails, Settled, Sure, files
  <2> QED
    BY <1>1, <1>2, <2>1, <2>2, <2>3 DEF Settled, Whole, files
<1> QED
  BY <1>4, <1>5, <1>6, <1>7, <1>8, <1>9, <1>10 DEF Fault

LEMMA ApplySettled ==
    ASSUME Alone, Settled, NEW p \in Proc, Apply(p)
    PROVE  Settled'
<1>1. Overlap' /\ dir' = dir
  BY ApplyOverlap DEF Settled
<1>2. \A q \in Proc : q = p
  BY DEF Alone
<1>3. CASE TakeLock(p)
  <2>1. journal' = journal /\ disk' = disk /\ Newest' = Newest /\ pc'[p] = "begin"
    BY <1>3 DEF TakeLock, files, Newest, Settled, Overlap, TypeOK, Goto
  <2>2. Paired' /\ Visible' = Visible
    BY <1>1, <2>1, VisibleIsShown DEF Settled, Paired, Shown
  <2>3. Sure(p)'
    BY <1>3, <2>1, <2>2 DEF TakeLock, Settled, Sure, VisibleVersion, Chain, Deltas
  <2> QED
    BY <1>1, <1>2, <2>1, <2>2, <2>3 DEF Settled, Whole
<1>4. CASE BeginTx(p)
  <2>1. dir.db \in Ino /\ dir.db # None /\ Whole(Visible) /\ local[p] = VisibleVersion
    <3>1. dir.db # None /\ local[p] # 0 /\ local[p] = VisibleVersion
      BY <1>4 DEF BeginTx, Settled, Sure, Overlap, Knows
    <3> QED
      BY <3>1, VisibleShape DEF Settled, Overlap, VisibleVersion
  <2>2. Visible = Faithful(local[p])
    BY <2>1, WholeContent DEF Settled, Overlap, VisibleVersion, TypeOK
  <2>3. /\ disk' = [disk EXCEPT ![dir.db] = Visible]
        /\ journal' = [ino |-> dir.db, undo |-> Visible]
        /\ fd'[p] = dir.db /\ pc'[p] = "apply" /\ Newest' = Newest
    BY <1>4 DEF BeginTx, Settled, Overlap, TypeOK, Goto, Newest
  <2>4. journal' # None /\ disk'[dir.db] = Visible
    <3>1. Visible \in Content
      BY <1>4, <2>1, VisibleShape DEF BeginTx, Settled, Overlap
    <3>2. journal' \in [ino : Ino, undo : Content]
      BY <2>1, <2>3, <3>1
    <3> QED
      BY <1>1, <2>1, <2>3, <3>2, UpdaterAssumption DEF Settled, Overlap, TypeOK
  <2>5. Paired' /\ Visible' = Visible
    BY <1>1, <2>1, <2>3, <2>4, VisibleIsShown DEF Paired, Shown
  <2>6. Sure(p)'
    <3>1. /\ disk'[dir'.db] = Faithful(local[p])
          /\ chain'[p] = Chain(entry'[p], local[p])
          /\ local[p] \in entry'[p].baseline..entry'[p].head
      BY <1>1, <1>4, <2>2, <2>4 DEF BeginTx, Settled, Sure
    <3> QED
      BY <1>1, <1>4, <2>3, <2>4, <2>5, <3>1
         DEF BeginTx, Settled, Sure, Chain, Deltas, Faithful
  <2> QED
    BY <1>1, <1>2, <2>3, <2>5, <2>6 DEF Settled, Whole
<1>5. CASE ApplyDelta(p)
  <2>1. /\ journal # None /\ fd[p] = dir.db /\ dir.db \in Ino
        /\ entry[p] \in Manifest
    BY <1>5 DEF ApplyDelta, Settled, Sure, Overlap, Knows
  <2>2. PICK u \in entry[p].baseline..entry[p].head :
          disk[dir.db] = Faithful(u) /\ chain[p] = Chain(entry[p], u)
    BY <1>5 DEF ApplyDelta, Settled, Sure
  <2>3. /\ u \in Nat /\ u < entry[p].head /\ u + 1 \in entry[p].baseline..entry[p].head
        /\ First(chain[p]) = [from |-> u, to |-> u + 1]
        /\ chain[p] \ {First(chain[p])} = Chain(entry[p], u + 1)
    <3>1. u \in Nat /\ entry[p].baseline \in Nat /\ entry[p].head \in Nat
      BY <2>1, <2>2, UpdaterAssumption DEF Manifest
    <3>2. Lowest(entry[p], u) = u
      BY <2>2, <3>1 DEF Lowest
    <3> QED
      BY <1>5, <2>1, <2>2, <3>1, <3>2, ChainFirst DEF ApplyDelta
  <2>4. Patched(disk[dir.db], First(chain[p])) = Faithful(u + 1)
    <3>1. u \in Version /\ u + 1 \in Version
      BY <2>1, <2>2, <2>3, UpdaterAssumption DEF Manifest
    <3> QED
      BY <2>2, <2>3, <3>1, PatchedFaithful
  <2>5. disk'[dir.db] = Faithful(u + 1) /\ chain'[p] = Chain(entry[p], u + 1)
        /\ journal' = journal /\ Newest' = Newest
    BY <1>5, <2>1, <2>3, <2>4 DEF ApplyDelta, Settled, Overlap, TypeOK, Newest
  <2>6. Paired' /\ Visible' = Visible
    BY <1>1, <2>1, <2>5, VisibleIsShown DEF Settled, Paired, Shown
  <2>7. Sure(p)'
    BY <1>1, <1>5, <2>3, <2>5, <2>6
       DEF ApplyDelta, Settled, Sure, VisibleVersion, Chain, Deltas, Faithful
  <2> QED
    BY <1>1, <1>2, <2>5, <2>6, <2>7 DEF Settled, Whole
<1>6. CASE Commit(p)
  <2>1. /\ journal # None /\ fd[p] = dir.db /\ dir.db # None /\ dir.db \in Ino
        /\ entry[p] \in Manifest /\ entry[p].head <= Newest /\ Journalled(p)
    BY <1>6, VisibleShape
       DEF Commit, Settled, Sure, Overlap, Knows, Journalled, Paired
  <2>2. disk[dir.db] = Faithful(entry[p].head)
    <3>1. PICK u \in entry[p].baseline..entry[p].head :
            disk[dir.db] = Faithful(u) /\ chain[p] = Chain(entry[p], u)
      BY <1>6 DEF Commit, Settled, Sure
    <3> QED
      BY <1>6, <2>1, <3>1, ChainEmpty DEF Commit
  <2>3. /\ disk' = [disk EXCEPT ![dir.db].version = entry[p].head]
        /\ journal' = None /\ Newest' = Newest
    BY <1>6, <2>1 DEF Commit, Ends, Newest
  <2>4. disk'[dir.db] = Faithful(entry[p].head)
    BY <2>1, <2>2, <2>3 DEF Settled, Overlap, TypeOK, Faithful
  <2>5. Paired' /\ Visible' = Faithful(entry[p].head)
    BY <1>1, <2>1, <2>3, <2>4, VisibleIsShown DEF Paired, Shown
  <2>6. entry[p].head \in 1..Newest /\ entry[p].head \in {0} \cup Version
    BY <2>1, UpdaterAssumption DEF Manifest, Settled, Overlap, TypeOK, Newest
  <2> QED
    BY <1>1, <1>6, <2>3, <2>5, <2>6, EndsSettled DEF Commit, Settled, Outcome, Whole
<1> QED
  BY <1>3, <1>4, <1>5, <1>6 DEF Apply

LEMMA InstallSettled ==
    ASSUME Alone, Settled, NEW p \in Proc, Install(p)
    PROVE  Settled'
<1>1. Overlap'
  BY InstallOverlap DEF Settled
<1>2. \A q \in Proc : q = p
  BY DEF Alone
<1>3. CASE GetBaseline(p) \/ RemovePart(p)
  <2>1. /\ journal' = journal /\ disk' = disk /\ Newest' = Newest /\ dir'.db = dir.db
        /\ dir'.part \in {dir.part, None} /\ pc'[p] \in {"remove", "create"}
    BY <1>3 DEF GetBaseline, RemovePart, files, Newest, Settled, Overlap, TypeOK, Goto
  <2>2. Paired' /\ Visible' = Visible
    BY <2>1, VisibleIsShown DEF Settled, Paired, Shown
  <2>3. Sure(p)'
    BY <1>3, <2>1, <2>2 DEF GetBaseline, RemovePart, Settled, Sure
  <2> QED
    BY <1>1, <1>2, <2>1, <2>2, <2>3 DEF Settled, Whole
<1>4. CASE CreatePart(p)
  <2>1. PICK i \in Ino :
          /\ IF dir.part = None THEN Free(i) ELSE i = dir.part
          /\ dir' = [dir EXCEPT !.part = i]
          /\ disk' = [disk EXCEPT ![i] = Torn]
          /\ fd' = [fd EXCEPT ![p] = i]
    BY <1>4 DEF CreatePart
  <2>2. i # dir.db /\ i # None
    BY <2>1, UpdaterAssumption DEF Free, Settled
  <2>3. /\ dir'.db = dir.db /\ dir'.part = i /\ fd'[p] = i
        /\ journal' = journal /\ Newest' = Newest /\ pc'[p] = "write"
        /\ dir.db # None => disk'[dir.db] = disk[dir.db]
    BY <1>4, <2>1, <2>2 DEF CreatePart, Settled, Overlap, TypeOK, Newest, Goto
  <2>4. Paired' /\ Visible' = Visible
    BY <2>3, VisibleIsShown DEF Settled, Paired, Shown
  <2>5. Sure(p)'
    BY <1>4, <2>2, <2>3, <2>4 DEF CreatePart, Settled, Sure
  <2> QED
    BY <1>1, <1>2, <2>2, <2>3, <2>4, <2>5 DEF Settled, Whole
<1>5. CASE WritePart(p)
  <2>1. dir.part # None /\ fd[p] = dir.part /\ fd[p] # dir.db /\ fd[p] \in Ino
    BY <1>5 DEF WritePart, Settled, Sure, Overlap, Knows
  <2>2. /\ dir' = dir /\ journal' = journal /\ Newest' = Newest /\ pc'[p] = "rename"
        /\ disk' = [disk EXCEPT ![fd[p]] = Faithful(entry[p].baseline)]
    BY <1>2, <1>5 DEF WritePart, Settled, Overlap, TypeOK, Newest, Goto
  <2>3. /\ dir.db # None => disk'[dir.db] = disk[dir.db]
        /\ disk'[dir.part] = Faithful(entry[p].baseline)
    BY <2>1, <2>2 DEF Settled, Overlap, TypeOK
  <2>4. Paired' /\ Visible' = Visible
    BY <2>2, <2>3, VisibleIsShown DEF Settled, Paired, Shown
  <2>5. Sure(p)'
    BY <1>5, <2>1, <2>2, <2>3, <2>4 DEF WritePart, Settled, Sure, Faithful
  <2> QED
    BY <1>1, <1>2, <2>2, <2>4, <2>5 DEF Settled, Whole
<1>6. CASE Rename(p)
  <2>1. /\ journal = None /\ dir.part # None /\ entry[p] \in Manifest
        /\ disk[dir.part] = Faithful(entry[p].baseline)
        /\ entry[p].baseline <= entry[p].head /\ entry[p].head <= Newest
    BY <1>6 DEF Rename, Settled, Sure, Overlap, Knows
  <2>2. /\ dir'.db = dir.part /\ dir'.part = None /\ journal' = None /\ disk' = disk
        /\ Newest' = Newest /\ pc'[p] = "cleanup"
    BY <1>6, <2>1 DEF Rename, Settled, Overlap, TypeOK, Newest, Goto
  <2>3. Paired' /\ Visible' = Faithful(entry[p].baseline)
    BY <2>1, <2>2, VisibleIsShown DEF Paired, Shown
  <2>4. entry[p].baseline \in 1..Newest
    BY <2>1, UpdaterAssumption DEF Manifest, Settled, Overlap, TypeOK, Newest
  <2>5. Sure(p)'
    BY <1>6, <2>2 DEF Rename, Settled, Sure
  <2> QED
    BY <1>1, <1>2, <2>1, <2>2, <2>3, <2>4, <2>5 DEF Settled, Whole
<1>7. CASE Cleanup(p)
  <2>1. /\ journal' = journal /\ disk' = disk /\ Newest' = Newest /\ dir'.db = dir.db
        /\ dir'.part = None
    BY <1>7 DEF Cleanup, Ends, Newest, Settled, Overlap, TypeOK
  <2>2. Paired' /\ Visible' = Visible
    BY <2>1, VisibleIsShown DEF Settled, Paired, Shown
  <2>3. entry[p].head \in {0} \cup Version
    BY <1>7, UpdaterAssumption DEF Cleanup, Settled, Overlap, Knows, Manifest
  <2>4. CASE pc[p] = "cleanup"
    BY <1>1, <1>7, <2>1, <2>2, <2>3, <2>4, EndsSettled DEF Cleanup, Settled, Outcome, Whole
  <2>5. CASE pc[p] = "abort"
    <3>1. Visible = before[p]
      BY <2>5 DEF Settled, Sure
    <3> QED
      BY <1>1, <1>7, <2>1, <2>2, <2>5, <3>1, EndsSettled
         DEF Cleanup, Settled, Outcome, Whole
  <2> QED
    BY <1>7, <2>4, <2>5 DEF Cleanup
<1> QED
  BY <1>3, <1>4, <1>5, <1>6, <1>7 DEF Install

LEMMA StutterSettled ==
    ASSUME Settled, UNCHANGED vars
    PROVE  Settled'
<1>1. Overlap'
  BY NextOverlap DEF Settled
<1>2. Paired' /\ Visible' = Visible
  BY VisibleIsShown DEF Settled, Paired, Shown, vars, files
<1> QED
  BY <1>1, <1>2
     DEF Settled, Sure, Whole, Newest, VisibleVersion, Chain, Deltas, Faithful, vars,
         files, procs

LEMMA NextSettled ==
    ASSUME Alone, Settled, [Next]_vars
    PROVE  Settled'
BY StutterSettled, PublishSettled, ReadSettled, FetchSettled, ApplySettled, InstallSettled,
   FaultSettled DEF Next, Step

LEMMA AlwaysSettled ==
    ASSUME Alone
    PROVE  Spec => []Settled
<1>1. Init => Settled
  BY InitSettled
<1>2. Settled /\ [Next]_vars => Settled'
  BY NextSettled
<1> QED
  BY <1>1, <1>2, PTL DEF Spec

-----------------------------------------------------------------------------
(* The rows a reader gets are those of the release the shard names, whole, *)
(* through crashes, rollbacks and stale manifests, for any releases.       *)
THEOREM ContentCorrect ==
    ASSUME Alone
    PROVE  Spec => []ContentMatchesLabel
<1>1. Settled => ContentMatchesLabel
  BY DEF Settled, Whole, ContentMatchesLabel
<1> QED
  BY <1>1, AlwaysSettled, PTL

(* An update that reports an error leaves the shard as it found it.        *)
THEOREM FailureHarmless ==
    ASSUME Alone
    PROVE  Spec => []FailedUpdateLeavesShard
<1>1. Settled => FailedUpdateLeavesShard
  BY DEF Settled, Sure, FailedUpdateLeavesShard
<1> QED
  BY <1>1, AlwaysSettled, PTL

(* After an update that applied deltas or had nothing to apply, the shard  *)
(* is the release Result.To names.                                         *)
THEOREM ResultCorrect ==
    ASSUME Alone
    PROVE  Spec => []DeltaResultHonest
<1>1. Settled => DeltaResultHonest
  BY DEF Settled, Sure, DeltaResultHonest
<1> QED
  BY <1>1, AlwaysSettled, PTL

-----------------------------------------------------------------------------
(* The refinement of ReleasedShard.                                        *)
(*                                                                         *)
(* What a reader sees changes in two steps only, COMMIT and the rename of  *)
(* the .part file (Changes).  That both go where ReleasedShard allows      *)
(* rests on what the update that takes them has decided before: Aims.      *)

Installs == {"get", "remove", "create", "write", "rename"}

(* What an update under way will do, and why. *)
Aims(p) ==
    /\ pc[p] \notin {"idle", "manifest"} => \E n \in 1..Newest : entry[p] = published[n]
    /\ pc[p] \in {"manifest"} \cup Installs => local[p] = VisibleVersion
    /\ pc[p] \in Installs =>
           WantsBaseline(chan[p], local[p], entry[p]) \/ TooLong(entry[p], local[p])
    /\ pc[p] \in {"lock", "begin", "apply"} => VisibleVersion <= entry[p].head

Decided == Settled /\ \A p \in Proc : Aims(p)

-----------------------------------------------------------------------------
(* What a reader sees.                                                     *)

LEMMA SameFile ==
    ASSUME Settled, Settled', journal' = journal, dir'.db = dir.db,
           dir.db # None => disk'[dir.db] = disk[dir.db]
    PROVE  Visible' = Visible
BY VisibleIsShown DEF Settled, Shown

LEMMA RenameShows ==
    ASSUME Settled, Settled', NEW p \in Proc, Rename(p)
    PROVE  Visible' = Faithful(entry[p].baseline)
<1>1. journal' = None /\ dir.part # None /\ disk[dir.part] = Faithful(entry[p].baseline)
  BY DEF Rename, Settled, Sure
<1>2. dir'.db = dir.part /\ disk' = disk
  BY DEF Rename
<1> QED
  BY <1>1, <1>2, VisibleIsShown DEF Settled, Shown

LEMMA CommitShows ==
    ASSUME Settled, Settled', NEW p \in Proc, Commit(p)
    PROVE  Visible' = Faithful(entry[p].head)
<1>1. result'[p] = [outcome |-> "delta", to |-> entry[p].head]
  BY DEF Commit, Ends, Settled, Overlap, TypeOK
<1>2. Sure(p)'
  BY DEF Settled
<1>3. Visible' = Faithful(result'[p].to)
  BY <1>1, <1>2 DEF Sure, Faithful
<1> QED
  BY <1>1, <1>3

LEMMA FaultShows ==
    ASSUME Alone, Settled, Settled', NEW p \in Proc, Fault(p)
    PROVE  Visible' = Visible
<1>1. Visible # Torn
  BY WholeContent, UpdaterAssumption DEF Settled, Overlap
<1>2. CASE ReadLocalFails(p)
  BY <1>1, <1>2 DEF Alone, ReadLocalFails, InTransaction
<1>3. CASE Fail(p) \/ Locked(p) \/ Crash(p) \/ RenameFails(p) \/ WritePartFails(p)
  <2>1. journal' = journal /\ disk' = disk /\ dir'.db = dir.db
    BY <1>3 DEF Fail, Locked, Crash, RenameFails, WritePartFails, files, Settled, Overlap, TypeOK
  <2> QED
    BY <2>1, SameFile
<1>4. CASE BeginTxFails(p) \/ ApplyFails(p)
  <2>1. result'[p] = [outcome |-> "failed", to |-> 0] /\ before' = before
    BY <1>4 DEF BeginTxFails, ApplyFails, Ends, Settled, Overlap, TypeOK
  <2>2. Visible = before[p] /\ Visible' = before'[p]
    BY <1>4, <2>1 DEF BeginTxFails, ApplyFails, Settled, Sure
  <2> QED
    BY <2>1, <2>2
<1> QED
  BY <1>2, <1>3, <1>4 DEF Fault

LEMMA ApplyShows ==
    ASSUME Settled, Settled', NEW p \in Proc, TakeLock(p) \/ BeginTx(p) \/ ApplyDelta(p)
    PROVE  Visible' = Visible
<1>1. before' = before /\ pc[p] \notin {"idle", "cleanup"}
  BY DEF TakeLock, BeginTx, ApplyDelta
<1>2. pc'[p] \notin {"idle", "cleanup"}
  BY DEF TakeLock, BeginTx, ApplyDelta, Goto, Settled, Overlap, TypeOK
<1> QED
  BY <1>1, <1>2 DEF Settled, Sure

LEMMA InstallShows ==
    ASSUME Settled, Settled', NEW p \in Proc, Install(p), ~Rename(p)
    PROVE  Visible' = Visible
<1>1. CASE Cleanup(p)
  BY <1>1, SameFile DEF Cleanup, Settled, Overlap, TypeOK
<1>2. CASE ~Cleanup(p)
  <2>1. before' = before /\ pc[p] \notin {"idle", "cleanup"}
    BY <1>2 DEF Install, GetBaseline, RemovePart, CreatePart, WritePart
  <2>2. pc'[p] \notin {"idle", "cleanup"}
    BY <1>2 DEF Install, GetBaseline, RemovePart, CreatePart, WritePart, Goto,
                Settled, Overlap, TypeOK
  <2> QED
    BY <2>1, <2>2 DEF Settled, Sure
<1> QED
  BY <1>1, <1>2

LEMMA ReadShows ==
    ASSUME Alone, Settled, NEW p \in Proc, NEW c \in Channel, ReadLocal(p, c)
    PROVE  Visible' = Visible
<1>1. \A q \in Proc : q = p
  BY DEF Alone
<1> QED
  BY <1>1, RecoverSettles DEF ReadLocal

LEMMA FetchShows ==
    ASSUME Settled, Settled', NEW p \in Proc, NEW n \in Answers, Fetch(p, published[n])
    PROVE  Visible' = Visible
BY SameFile DEF Fetch, ChooseBaseline, ChooseNothing, ChooseChain, files

(* A reader sees a change only when an update commits or renames.          *)
LEMMA Changes ==
    ASSUME Alone, Settled, [Next]_vars,
           \A p \in Proc : ~Commit(p) /\ ~Rename(p)
    PROVE  Visible' = Visible
<1>1. Settled'
  BY NextSettled
<1>2. CASE PublishBaseline \/ PublishDelta \/ UNCHANGED vars
  BY <1>1, <1>2, SameFile DEF PublishBaseline, PublishDelta, files, vars
<1>3. ASSUME NEW p \in Proc, Step(p) \/ Fault(p) PROVE Visible' = Visible
  BY <1>1, <1>3, FaultShows, ApplyShows, InstallShows, ReadShows, FetchShows DEF Step, Apply
<1> QED
  BY <1>2, <1>3 DEF Next

-----------------------------------------------------------------------------
(* Aims are kept.                                                          *)

(* Any step of p that leaves the shard and the releases alone, and p on    *)
(* the way it has chosen.                                                  *)
LEMMA SameAims ==
    ASSUME Alone, Decided, Visible' = Visible, NEW p \in Proc,
           UNCHANGED <<published, chan, local, entry>>,
           pc'[p] \in {"idle", "cleanup", "abort"}
             \/ (pc[p] \in Installs /\ pc'[p] \in Installs)
             \/ (pc[p] \in {"lock", "begin", "apply"} /\ pc'[p] \in {"lock", "begin", "apply"}),
           pc'[p] \in {"cleanup", "abort"} => pc[p] \notin {"idle", "manifest"}
    PROVE  \A q \in Proc : Aims(q)'
<1>1. \A q \in Proc : q = p
  BY DEF Alone
<1>2. Aims(p) /\ VisibleVersion' = VisibleVersion /\ Newest' = Newest
  BY DEF Decided, VisibleVersion, Newest
<1>3. Aims(p)'
  BY <1>2 DEF Aims, Installs, WantsBaseline, TooLong, Chain, Deltas
<1> QED
  BY <1>1, <1>3

(* A process that is done aims at nothing.                                 *)
LEMMA IdleAims ==
    ASSUME Alone, NEW p \in Proc, pc'[p] = "idle"
    PROVE  \A q \in Proc : Aims(q)'
<1>1. \A q \in Proc : q = p
  BY DEF Alone
<1>2. Aims(p)'
  BY DEF Aims, Installs
<1> QED
  BY <1>1, <1>2

LEMMA PublishAims ==
    ASSUME Alone, Decided, PublishBaseline \/ PublishDelta
    PROVE  \A p \in Proc : Aims(p)'
<1> SUFFICES ASSUME NEW p \in Proc PROVE Aims(p)'
  OBVIOUS
<1>1. UNCHANGED <<files, lock, procs>>
  BY DEF PublishBaseline, PublishDelta
<1>2. Visible' = Visible /\ VisibleVersion' = VisibleVersion
  <2>1. Settled'
    BY NextSettled DEF Decided, Next
  <2> QED
    BY <1>1, <2>1, SameFile DEF Decided, files, VisibleVersion
<1>3. \A n \in 1..Newest : n \in 1..Newest' /\ published'[n] = published[n]
  BY DEF PublishBaseline, PublishDelta, Newest, Decided, Settled, Overlap, TypeOK
<1>4. Aims(p)
  BY DEF Decided
<1>5. pc'[p] \notin {"idle", "manifest"} => \E n \in 1..Newest' : entry'[p] = published'[n]
  BY <1>1, <1>3, <1>4 DEF Aims, procs
<1> QED
  BY <1>1, <1>2, <1>4, <1>5 DEF Aims, procs, WantsBaseline, TooLong, Chain, Deltas

LEMMA ReadAims ==
    ASSUME Alone, Decided, NEW p \in Proc, NEW c \in Channel, ReadLocal(p, c)
    PROVE  \A q \in Proc : Aims(q)'
<1>1. \A q \in Proc : q = p
  BY DEF Alone
<1>2. pc'[p] = "manifest" /\ local'[p] = VisibleVersion
  BY DEF ReadLocal, Goto, Decided, Settled, Overlap, TypeOK
<1>3. VisibleVersion' = VisibleVersion
  BY ReadShows DEF Decided, VisibleVersion
<1>4. Aims(p)'
  BY <1>2, <1>3 DEF Aims, Installs
<1> QED
  BY <1>1, <1>4

LEMMA FetchAims ==
    ASSUME Alone, Decided, NEW p \in Proc, NEW n \in Answers, Fetch(p, published[n])
    PROVE  \A q \in Proc : Aims(q)'
<1> DEFINE e == published[n]
<1>1. \A q \in Proc : q = p
  BY DEF Alone
<1>2. Settled' /\ n \in 1..Newest
  BY NextSettled DEF Decided, Next, Step, Answers
<1>3. VisibleVersion' = VisibleVersion
  BY <1>2, FetchShows DEF Decided, VisibleVersion
<1>4. CASE ChooseBaseline(p, e)
  <2>1. pc'[p] = "get" /\ entry'[p] = e /\ UNCHANGED <<published, chan, local>>
    BY <1>4 DEF ChooseBaseline, Goto, Decided, Settled, Overlap, TypeOK
  <2>2. local[p] = VisibleVersion
    BY <1>4 DEF ChooseBaseline, Decided, Aims
  <2>3. WantsBaseline(chan[p], local[p], e) \/ TooLong(e, local[p])
    <3>1. SUFFICES ASSUME ~WantsBaseline(chan[p], local[p], e), StartsElsewhere(e, local[p]),
                          Chain(e, local[p]) # {}
                   PROVE  FALSE
      BY <1>4 DEF ChooseBaseline
    <3>2. e \in Manifest
      BY <1>2, PublishedShape DEF Decided, Settled, Overlap
    <3>3. local[p] \in Nat /\ e.baseline \in Nat /\ e.head \in Nat /\ e.baseline <= local[p]
      BY <3>1, <3>2, UpdaterAssumption DEF Manifest, WantsBaseline, Decided, Settled, Overlap, TypeOK
    <3>4. PICK d \in Chain(e, local[p]) : TRUE
      BY <3>1
    <3>5. local[p] \in e.baseline..(e.head - 1)
      BY <3>3, <3>4 DEF Chain, Deltas
    <3>6. [from |-> local[p], to |-> local[p] + 1] \in Chain(e, local[p])
      BY <3>3, <3>5 DEF Chain, Deltas
    <3> QED
      BY <3>1, <3>6 DEF StartsElsewhere
  <2>4. Aims(p)'
    <3>1. Newest' = Newest /\ e = published'[n]
      BY <2>1 DEF Newest
    <3> QED
      BY <1>2, <1>3, <2>1, <2>2, <2>3, <3>1
         DEF Aims, Installs, WantsBaseline, TooLong, Chain, Deltas
  <2> QED
    BY <1>1, <2>4
<1>5. CASE ChooseNothing(p, e)
  BY <1>5, IdleAims DEF ChooseNothing, Ends, Decided, Settled, Overlap, TypeOK
<1>6. CASE ChooseChain(p, e)
  <2>1. pc'[p] = "lock" /\ entry'[p] = e /\ published' = published /\ local' = local
    BY <1>6 DEF ChooseChain, Goto, Decided, Settled, Overlap, TypeOK
  <2>2. VisibleVersion <= e.head
    <3>1. local'[p] <= e.head /\ local[p] = VisibleVersion
      <4>1. Sure(p)' /\ Sure(p)
        BY <1>2 DEF Decided, Settled
      <4>2. local'[p] \in e.baseline..e.head
        BY <2>1, <4>1 DEF Sure
      <4>3. e.baseline \in Nat /\ e.head \in Nat
        BY <1>2, PublishedShape, UpdaterAssumption DEF Decided, Settled, Overlap, Manifest
      <4> QED
        BY <1>6, <4>1, <4>2, <4>3 DEF Sure, ChooseChain
    <3> QED
      BY <2>1, <3>1
  <2>3. Aims(p)'
    BY <1>2, <1>3, <2>1, <2>2 DEF Aims, Installs, Newest
  <2> QED
    BY <1>1, <2>3
<1> QED
  BY <1>4, <1>5, <1>6 DEF Fetch

LEMMA FaultAims ==
    ASSUME Alone, Decided, NEW p \in Proc, Fault(p)
    PROVE  \A q \in Proc : Aims(q)'
<1>1. Settled'
  BY NextSettled DEF Decided, Next
<1>2. Visible' = Visible
  BY <1>1, FaultShows DEF Decided
<1>3. CASE ReadLocalFails(p)
  BY <1>3, IdleAims DEF ReadLocalFails
<1>4. CASE Fail(p) \/ Locked(p) \/ BeginTxFails(p) \/ ApplyFails(p) \/ Crash(p)
  BY <1>4, IdleAims DEF Fail, Locked, BeginTxFails, ApplyFails, Crash, Ends,
                        Decided, Settled, Overlap, TypeOK
<1>5. CASE WritePartFails(p) \/ RenameFails(p)
  BY <1>2, <1>5, SameAims DEF WritePartFails, RenameFails, Goto, Decided, Settled, Overlap, TypeOK
<1> QED
  BY <1>3, <1>4, <1>5 DEF Fault

LEMMA ApplyAims ==
    ASSUME Alone, Decided, NEW p \in Proc, Apply(p)
    PROVE  \A q \in Proc : Aims(q)'
<1>1. Settled'
  BY NextSettled DEF Decided, Next, Step
<1>2. CASE TakeLock(p) \/ BeginTx(p) \/ ApplyDelta(p)
  <2>1. Visible' = Visible
    BY <1>1, <1>2, ApplyShows DEF Decided
  <2> QED
    BY <1>2, <2>1, SameAims DEF TakeLock, BeginTx, ApplyDelta, Goto, Decided, Settled, Overlap, TypeOK
<1>3. CASE Commit(p)
  BY <1>3, IdleAims DEF Commit, Ends, Decided, Settled, Overlap, TypeOK
<1> QED
  BY <1>2, <1>3 DEF Apply

LEMMA InstallAims ==
    ASSUME Alone, Decided, NEW p \in Proc, Install(p)
    PROVE  \A q \in Proc : Aims(q)'
<1>1. Settled'
  BY NextSettled DEF Decided, Next, Step
<1>2. CASE GetBaseline(p) \/ RemovePart(p) \/ CreatePart(p) \/ WritePart(p)
  <2>1. ~Rename(p)
    BY <1>2 DEF GetBaseline, RemovePart, CreatePart, WritePart, Rename
  <2>2. Visible' = Visible
    BY <1>1, <2>1, InstallShows DEF Decided
  <2> QED
    BY <1>2, <2>2, SameAims
       DEF GetBaseline, RemovePart, CreatePart, WritePart, Goto, Installs,
           Decided, Settled, Overlap, TypeOK
<1>3. CASE Rename(p)
  <2>1. pc'[p] = "cleanup" /\ UNCHANGED <<published, entry>> /\ \A q \in Proc : q = p
    BY <1>3 DEF Alone, Rename, Goto, Decided, Settled, Overlap, TypeOK
  <2>2. \E n \in 1..Newest : entry[p] = published[n]
    BY <1>3 DEF Rename, Decided, Aims
  <2>3. Aims(p)'
    BY <2>1, <2>2 DEF Aims, Installs, Newest
  <2> QED
    BY <2>1, <2>3
<1>4. CASE Cleanup(p)
  BY <1>4, IdleAims DEF Cleanup, Ends, Decided, Settled, Overlap, TypeOK
<1> QED
  BY <1>2, <1>3, <1>4 DEF Install

LEMMA StutterAims ==
    ASSUME Decided, UNCHANGED vars
    PROVE  \A p \in Proc : Aims(p)'
<1>1. Settled'
  BY StutterSettled DEF Decided
<1>2. Visible' = Visible
  BY <1>1, SameFile DEF Decided, vars, files
<1> QED
  BY <1>2 DEF Decided, Aims, Newest, VisibleVersion, WantsBaseline, TooLong, Chain, Deltas,
              vars, procs

LEMMA AlwaysDecided ==
    ASSUME Alone
    PROVE  Spec => []Decided
<1>1. Init => Decided
  BY InitSettled DEF Decided, Aims, Installs, Init
<1>2. Decided /\ [Next]_vars => Decided'
  <2>1. Decided /\ [Next]_vars => Settled'
    BY NextSettled DEF Decided
  <2>2. Decided /\ [Next]_vars => \A p \in Proc : Aims(p)'
    BY PublishAims, ReadAims, FetchAims, FaultAims, ApplyAims, InstallAims, StutterAims
       DEF Next, Step
  <2> QED
    BY <2>1, <2>2 DEF Decided
<1> QED
  BY <1>1, <1>2, PTL DEF Spec

-----------------------------------------------------------------------------
(* Where the two steps go.                                                 *)

LEMMA RenameGoes ==
    ASSUME Alone, Decided, NEW p \in Proc, Rename(p)
    PROVE  /\ \E n \in 1..Newest : Visible' = Faithful(published[n].baseline)
           /\ chan[p] = "daily" /\ ~TooLong(entry[p], local[p])
                => VisibleVersion' >= VisibleVersion
<1>1. Settled'
  BY NextSettled DEF Decided, Next, Step, Install
<1>2. Visible' = Faithful(entry[p].baseline)
  BY <1>1, RenameShows DEF Decided
<1>3. pc[p] = "rename" /\ Aims(p) /\ entry[p] \in Manifest
  BY DEF Rename, Decided, Settled, Overlap, Knows
<1>4. PICK n \in 1..Newest : entry[p] = published[n]
  BY <1>3 DEF Aims
<1>5. Faithful(entry[p].baseline) # None /\ VisibleVersion' = entry[p].baseline
  <2>1. Faithful(entry[p].baseline) \in Content
    BY <1>3, UpdaterAssumption DEF Faithful, Content, Manifest
  <2>2. Faithful(entry[p].baseline) # None
    BY <2>1, UpdaterAssumption
  <2> QED
    BY <1>2, <2>2 DEF VisibleVersion, Faithful
<1>6. ASSUME chan[p] = "daily", ~TooLong(entry[p], local[p])
      PROVE  VisibleVersion' >= VisibleVersion
  <2>1. local[p] = VisibleVersion /\ (local[p] = 0 \/ local[p] < entry[p].baseline)
    BY <1>3, <1>6 DEF Aims, Installs, WantsBaseline
  <2>2. local[p] \in Nat /\ entry[p].baseline \in Nat
    BY <1>3, UpdaterAssumption DEF Manifest, Decided, Settled, Overlap, TypeOK
  <2> QED
    BY <1>5, <2>1, <2>2
<1> QED
  BY <1>2, <1>4, <1>6

LEMMA CommitGoes ==
    ASSUME Alone, Decided, NEW p \in Proc, Commit(p)
    PROVE  /\ entry[p].head \in 1..Newest
           /\ Visible' = Faithful(entry[p].head)
           /\ Visible # None
           /\ VisibleVersion \in Nat /\ VisibleVersion' = entry[p].head
           /\ VisibleVersion <= entry[p].head
           /\ Visible = Faithful(VisibleVersion)
<1>1. Settled'
  BY NextSettled DEF Decided, Next, Step, Apply
<1>2. Visible' = Faithful(entry[p].head)
  BY <1>1, CommitShows DEF Decided
<1>3. pc[p] = "apply" /\ Aims(p) /\ entry[p] \in Manifest /\ dir.db # None
      /\ entry[p].head <= Newest
  BY DEF Commit, Decided, Settled, Sure, Overlap, Knows
<1>4. Visible # None
  <2>1. Visible \in Content \cup {Torn}
    BY <1>3, VisibleShape DEF Decided, Settled, Overlap
  <2> QED
    BY <2>1, UpdaterAssumption
<1>5. VisibleVersion = Visible.version /\ Whole(Visible)
  BY <1>4 DEF VisibleVersion, Decided, Settled
<1>6. VisibleVersion \in 1..Newest /\ Visible = Faithful(VisibleVersion)
  BY <1>5, WholeContent DEF Decided, Settled, Overlap
<1>7. entry[p].head \in Version
  BY <1>3 DEF Manifest
<1>8. Faithful(entry[p].head) # None
  BY <1>7, UpdaterAssumption DEF Faithful, Content
<1>9. VisibleVersion' = entry[p].head
  BY <1>2, <1>8 DEF VisibleVersion, Faithful
<1>10. Newest \in Nat /\ MaxVersion \in Nat
  BY UpdaterAssumption DEF Decided, Settled, Overlap, TypeOK, Newest
<1> QED
  BY <1>2, <1>3, <1>4, <1>6, <1>7, <1>9, <1>10 DEF Aims

-----------------------------------------------------------------------------
(* A client of the daily channel never goes back to an older release, be   *)
(* the manifest it gets ever so stale, unless the chain of deltas is       *)
(* longer than Update will apply (steps 3 to 5 of Update).                 *)
THEOREM NeverRegresses ==
    ASSUME Alone
    PROVE  Spec => DailyNeverRegresses
<1>1. ASSUME Decided, [Next]_vars, NEW p \in Proc,
             chan[p] = "daily", ~TooLong(entry[p], local[p])
      PROVE  VisibleVersion' >= VisibleVersion
  <2>1. \A q \in Proc : q = p
    BY DEF Alone
  <2>2. CASE Rename(p)
    BY <1>1, <2>2, RenameGoes
  <2>3. CASE Commit(p)
    <3>1. entry[p].head \in Nat
      BY <1>1, <2>3, CommitGoes DEF Decided, Settled, Overlap, TypeOK, Newest
    <3> QED
      BY <1>1, <2>3, <3>1, CommitGoes
  <2>4. CASE ~Rename(p) /\ ~Commit(p)
    <3>1. Visible' = Visible
      BY <1>1, <2>1, <2>4, Changes DEF Decided
    <3>2. VisibleVersion \in Nat
      <4>1. Visible # Torn
        BY <1>1, WholeContent, UpdaterAssumption DEF Decided, Settled, Overlap
      <4> QED
        BY <1>1, <4>1, VersionShape, UpdaterAssumption DEF Decided, Settled, Overlap
    <3> QED
      BY <3>1, <3>2 DEF VisibleVersion
  <2> QED
    BY <2>2, <2>3, <2>4
<1>2. Decided /\ [Next]_vars
        => [\A p \in Proc : chan[p] = "daily" /\ ~TooLong(entry[p], local[p])
                              => VisibleVersion' >= VisibleVersion]_vars
  BY <1>1
<1> QED
  BY <1>2, AlwaysDecided, PTL DEF Spec, DailyNeverRegresses

(* Readers of a shard that sku updates see what ReleasedShard promises:    *)
(* single steps, each to a whole release that has been published, forward  *)
(* or to a published baseline (Update, Applier.Apply, installBaseline).    *)
THEOREM Refinement ==
    ASSUME Alone
    PROVE  Spec => ImplementsReleasedShard
<1>1. Init => Atomic!Init
  <2> SUFFICES ASSUME Init PROVE Atomic!Init
    OBVIOUS
  <2>1. Settled
    BY InitSettled
  <2>2. PICK v \in FirstLocal, i \in Ino :
          /\ dir = [db |-> IF v = 0 THEN None ELSE i, part |-> None]
          /\ disk = [j \in Ino |-> IF v # 0 /\ j = i THEN Faithful(v) ELSE Torn]
    BY DEF Init
  <2>3. Visible = IF v = 0 THEN None ELSE Faithful(v)
    BY <2>1, <2>2, VisibleIsShown, UpdaterAssumption DEF Init, Settled, Shown
  <2>4. published \in FirstReleases
    BY DEF Init
  <2> QED
    BY <2>2, <2>3, <2>4 DEF Atomic!Init, Atomic!Release, Faithful
<1>2. Decided /\ [Next]_vars => [Atomic!Next]_<<published, Visible>>
  <2> SUFFICES ASSUME Decided, [Next]_vars, <<published, Visible>>' # <<published, Visible>>
               PROVE  Atomic!Next
    OBVIOUS
  <2>1. CASE PublishBaseline \/ PublishDelta
    <3>1. Settled'
      BY <2>1, NextSettled DEF Decided, Next
    <3>2. Visible' = Visible
      BY <2>1, <3>1, SameFile DEF PublishBaseline, PublishDelta, files, Decided
    <3>3. Newest \in Nat /\ Newest > 0
      BY DEF Decided, Settled, Overlap, TypeOK, Newest
    <3>4. published[Newest] \in Manifest
      BY <3>3, PublishedShape DEF Decided, Settled, Overlap
    <3>5. Newest + 1 \in 1..MaxVersion /\ published[Newest].baseline \in 1..MaxVersion
      BY <2>1, <3>3, <3>4, UpdaterAssumption DEF PublishBaseline, PublishDelta, Manifest
    <3>6. \E b \in 1..MaxVersion :
            published' = Append(published, [baseline |-> b, head |-> Len(published) + 1])
      <4>1. CASE PublishBaseline
        BY <3>5, <4>1 DEF PublishBaseline, Newest
      <4>2. CASE PublishDelta
        <5>1. [published[Newest] EXCEPT !.head = Newest + 1]
                = [baseline |-> published[Newest].baseline, head |-> Newest + 1]
          BY <3>4 DEF Manifest
        <5> QED
          BY <3>5, <4>2, <5>1 DEF PublishDelta, Newest
      <4> QED
        BY <2>1, <4>1, <4>2
    <3> QED
      BY <2>1, <3>2, <3>6 DEF PublishBaseline, PublishDelta, Newest, Atomic!Publish, Atomic!Next
  <2>2. ASSUME NEW p \in Proc, Rename(p) PROVE Atomic!Next
    <3>1. published' = published
      BY <2>2 DEF Rename
    <3>2. \E n \in 1..Newest : Visible' = Faithful(published[n].baseline)
      BY <2>2, RenameGoes
    <3> QED
      BY <3>1, <3>2 DEF Newest, Faithful, Atomic!Release, Atomic!Reinstall, Atomic!Next
  <2>3. ASSUME NEW p \in Proc, Commit(p) PROVE Atomic!Next
    <3>1. published' = published
      BY <2>3 DEF Commit, Ends
    <3>2. entry[p].head \in 1..Newest /\ Visible' = Faithful(entry[p].head)
          /\ VisibleVersion \in Nat /\ VisibleVersion <= entry[p].head
          /\ Visible # None /\ Visible = Faithful(VisibleVersion)
      BY <2>3, CommitGoes
    <3>3. VisibleVersion # entry[p].head
      BY <3>1, <3>2
    <3>4. entry[p].head > Visible.version
      BY <3>2, <3>3 DEF VisibleVersion
    <3> QED
      BY <3>1, <3>2, <3>4 DEF Newest, Faithful, Atomic!Release, Atomic!Forward, Atomic!Next
  <2>4. CASE \A p \in Proc : ~Commit(p) /\ ~Rename(p)
    <3>1. Visible' = Visible
      BY <2>4, Changes DEF Decided
    <3>2. PublishBaseline \/ PublishDelta
      BY <3>1, OnlyReleasesPublish
    <3> QED
      BY <2>1, <3>2
  <2> QED
    BY <2>2, <2>3, <2>4
<1> QED
  BY <1>1, <1>2, AlwaysDecided, PTL DEF Spec, ImplementsReleasedShard, Atomic!Spec

=============================================================================
