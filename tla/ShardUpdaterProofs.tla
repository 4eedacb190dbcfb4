------------------------- MODULE ShardUpdaterProofs -------------------------
(***************************************************************************)
(* Theorems about ShardUpdater.                                            *)
(*                                                                         *)
(* However many updates overlap, the types are kept, and the lock is held  *)
(* by exactly the process that has a transaction.  The invariant they rest *)
(* on, Overlap, says what each process knows at each of its steps.         *)
(* Together says more of daily updates that all work from the newest       *)
(* manifest: a reader of the shard sees a whole release before and after   *)
(* each, however they interleave.                                          *)
(***************************************************************************)
EXTENDS ShardUpdater, FiniteSetTheorems, TLAPS

USE DEF Version

(* What holds of a process wherever the others are. *)
Knows(p) ==
    /\ pc[p] \notin {"idle", "manifest"} => entry[p] \in Manifest
    /\ pc[p] \in {"manifest", "lock", "begin"} /\ local[p] # 0 => dir.db # None
    /\ pc[p] \in {"lock", "begin"} => local[p] # 0
    /\ pc[p] = "apply" => fd[p] \in Ino /\ dir.db # None
    /\ pc[p] = "write" => fd[p] \in Ino
    /\ pc[p] \in {"lock", "begin", "apply"} =>
           \E k \in Nat : chain[p] = Chain(entry[p], k)

Overlap == TypeOK /\ LockProtocol /\ Newest > 0 /\ \A p \in Proc : Knows(p)

(* A journal belongs to the file that bears the name, and keeps a release. *)
Paired == journal # None => dir.db # None /\ journal.ino = dir.db

(* Visible, when the journal is paired. *)
Shown ==
    IF dir.db = None THEN None
    ELSE IF journal # None THEN journal.undo
    ELSE disk[dir.db]

-----------------------------------------------------------------------------
(* Chains.                                                                 *)

Lowest(e, k) == IF k < e.baseline THEN e.baseline ELSE k

(* The first delta of a chain is the one from its lowest version; what is  *)
(* left without it is the chain from the next version on.                  *)
LEMMA ChainFirst ==
    ASSUME NEW e \in Manifest, NEW k \in Nat, Chain(e, k) # {}
    PROVE  /\ Lowest(e, k) \in Nat
           /\ Lowest(e, k) < e.head
           /\ First(Chain(e, k)) = [from |-> Lowest(e, k), to |-> Lowest(e, k) + 1]
           /\ First(Chain(e, k)) \in Chain(e, k)
           /\ Chain(e, k) \ {First(Chain(e, k))} = Chain(e, Lowest(e, k) + 1)
<1> DEFINE m == Lowest(e, k)
           d == [from |-> m, to |-> m + 1]
<1>1. e.baseline \in Nat /\ e.head \in Nat /\ e.baseline > 0 /\ m \in Nat
  BY UpdaterAssumption DEF Manifest, Lowest
<1>2. \A x \in Chain(e, k) : /\ x.from \in Nat
                             /\ x.from >= m
                             /\ x.from <= e.head - 1
                             /\ x = [from |-> x.from, to |-> x.from + 1]
  BY <1>1 DEF Chain, Deltas, Lowest
<1>3. m <= e.head - 1
  BY <1>1, <1>2
<1>4. d \in Chain(e, k)
  BY <1>1, <1>3 DEF Chain, Deltas, Lowest
<1>5. First(Chain(e, k)) = d
  <2>1. \A x \in Chain(e, k) : d.from <= x.from
    BY <1>1, <1>2
  <2>2. /\ First(Chain(e, k)) \in Chain(e, k)
        /\ \A x \in Chain(e, k) : First(Chain(e, k)).from <= x.from
    BY <1>4, <2>1 DEF First
  <2>3. First(Chain(e, k)).from = m
    BY <1>1, <1>2, <1>4, <2>1, <2>2
  <2> QED
    BY <1>2, <2>2, <2>3
<1>6. Chain(e, k) \ {d} = Chain(e, m + 1)
  BY <1>1, <1>2 DEF Chain, Deltas, Lowest
<1> QED
  BY <1>1, <1>3, <1>4, <1>5, <1>6

(* A chain is empty only at the head. *)
LEMMA ChainEmpty ==
    ASSUME NEW e \in Manifest, NEW u \in e.baseline..e.head, Chain(e, u) = {}
    PROVE  u = e.head
<1>1. e.baseline \in Nat /\ e.head \in Nat /\ u \in Nat
  BY UpdaterAssumption DEF Manifest
<1>2. u < e.head => [from |-> u, to |-> u + 1] \in Chain(e, u)
  BY <1>1 DEF Chain, Deltas
<1> QED
  BY <1>1, <1>2

-----------------------------------------------------------------------------
(* The shape of what a step reads.                                         *)

LEMMA VisibleShape ==
    ASSUME TypeOK
    PROVE  /\ dir.db \in Ino \cup {None}
           /\ dir.db # None => Visible \in Content \cup {Torn}
           /\ dir.db = None => Visible = None
           /\ Hot => PlayedBack \in Content \cup {Torn} /\ dir.db \in Ino
<1>1. dir.db \in Ino \cup {None}
  BY DEF TypeOK
<1>2. journal # None => journal.ino \in Ino /\ journal.undo \in Content
  BY DEF TypeOK
<1>3. Hot => PlayedBack \in Content \cup {Torn} /\ dir.db \in Ino
  BY <1>1, <1>2 DEF Hot, PlayedBack
<1>4. dir.db # None => disk[dir.db] \in Content \cup {Torn}
  BY <1>1 DEF TypeOK
<1> QED
  BY <1>1, <1>2, <1>3, <1>4 DEF Visible

LEMMA VisibleIsShown ==
    /\ Paired => Visible = Shown
    /\ Paired' => Visible' = Shown'
BY DEF Paired, Visible, Shown, Hot, PlayedBack

LEMMA RecoverTypes ==
    ASSUME TypeOK, Recover
    PROVE  /\ disk' \in [Ino -> Content \cup {Torn}]
           /\ journal' \in {None} \cup [ino : Ino, undo : Content]
<1>1. CASE Hot
  BY <1>1, VisibleShape DEF Recover, TypeOK
<1>2. CASE ~Hot
  BY <1>2 DEF Recover, TypeOK
<1> QED
  BY <1>1, <1>2

LEMMA VersionShape ==
    ASSUME TypeOK, Visible # Torn
    PROVE  /\ VisibleVersion \in {0} \cup Version
           /\ VisibleVersion # 0 => dir.db # None
BY VisibleShape, UpdaterAssumption DEF VisibleVersion, Content

LEMMA PublishedShape ==
    ASSUME TypeOK, NEW n \in 1..Newest
    PROVE  published[n] \in Manifest
BY DEF TypeOK, Newest

(* The end of an update is typed, gives the lock back, and knows nothing.  *)
LEMMA EndsOverlap ==
    ASSUME Overlap, NEW p \in Proc, NEW o \in Outcome, NEW v \in {0} \cup Version,
           Ends(p, o, v),
           dir' \in [{"db", "part"} -> Ino \cup {None}],
           disk' \in [Ino -> Content \cup {Torn}],
           journal' \in {None} \cup [ino : Ino, undo : Content],
           dir.db # None => dir'.db # None
    PROVE  Overlap'
<1> USE DEF Overlap
<1>1. TypeOK'
  BY UpdaterAssumption DEF TypeOK, Ends, Released
<1>2. LockProtocol'
  BY UpdaterAssumption DEF TypeOK, LockProtocol, Ends
<1>3. (Newest > 0)'
  BY DEF Ends, Newest
<1>4. ASSUME NEW q \in Proc PROVE Knows(q)'
  <2>1. CASE q = p
    BY <2>1 DEF Knows, Ends, TypeOK
  <2>2. CASE q # p
    <3>1. /\ pc'[q] = pc[q] /\ entry'[q] = entry[q] /\ local'[q] = local[q]
          /\ fd'[q] = fd[q] /\ chain'[q] = chain[q]
      BY <2>2 DEF Ends, TypeOK
    <3> QED
      BY <3>1 DEF Knows, Chain, Deltas
  <2> QED
    BY <2>1, <2>2
<1> QED
  BY <1>1, <1>2, <1>3, <1>4

-----------------------------------------------------------------------------
(* A step of p leaves what the other processes know alone.                 *)
LEMMA OthersKnow ==
    ASSUME Overlap, NEW p \in Proc, NEW q \in Proc, q # p,
           pc'[q] = pc[q], entry'[q] = entry[q], local'[q] = local[q],
           fd'[q] = fd[q], chain'[q] = chain[q],
           dir.db # None => dir'.db # None
    PROVE  Knows(q)'
BY DEF Overlap, Knows, Chain, Deltas

LEMMA InitOverlap == Init => Overlap
<1> SUFFICES ASSUME Init PROVE Overlap
  OBVIOUS
<1>1. TypeOK
  <2>1. published \in Seq(Manifest) /\ Released(published)
    BY ReleasesAssumption DEF Init
  <2>2. PICK v \in FirstLocal, i \in Ino :
          /\ dir = [db |-> IF v = 0 THEN None ELSE i, part |-> None]
          /\ disk = [j \in Ino |-> IF v # 0 /\ j = i THEN Faithful(v) ELSE Torn]
    BY DEF Init
  <2>3. dir \in [{"db", "part"} -> Ino \cup {None}]
    BY <2>2
  <2>4. v # 0 => Faithful(v) \in Content
    BY UpdaterAssumption DEF Faithful, Content
  <2>5. disk \in [Ino -> Content \cup {Torn}]
    BY <2>2, <2>4
  <2> QED
    BY <2>1, <2>3, <2>5 DEF Init, TypeOK, Outcome, NoResult
<1>2. LockProtocol
  BY UpdaterAssumption DEF Init, LockProtocol
<1>3. Newest > 0
  BY ReleasesAssumption, UpdaterAssumption DEF Init, Newest
<1>4. \A p \in Proc : Knows(p)
  BY DEF Init, Knows
<1> QED
  BY <1>1, <1>2, <1>3, <1>4 DEF Overlap

LEMMA PublishOverlap ==
    ASSUME Overlap, PublishBaseline \/ PublishDelta
    PROVE  Overlap' /\ dir' = dir
<1> USE UpdaterAssumption DEF Overlap
<1>1. Newest \in Nat /\ Newest = Len(published) /\ Newest + 1 \in Version
      /\ published[Newest] \in Manifest
  BY PublishedShape DEF TypeOK, Newest, PublishBaseline, PublishDelta
<1>2. PICK b \in Version :
        /\ published' = Append(published, [baseline |-> b, head |-> Newest + 1])
        /\ b = Newest + 1 \/ b = published[Newest].baseline
  <2>1. CASE PublishBaseline
    BY <1>1, <2>1 DEF PublishBaseline
  <2>2. CASE PublishDelta
    <3>1. [published[Newest] EXCEPT !.head = Newest + 1] =
             [baseline |-> published[Newest].baseline, head |-> Newest + 1]
      BY <1>1 DEF Manifest
    <3> QED
      BY <1>1, <2>2, <3>1 DEF PublishDelta, Manifest
  <2> QED
    BY <2>1, <2>2
<1>3. published' \in Seq(Manifest)
  BY <1>1, <1>2 DEF TypeOK, Manifest
<1>4. Released(published')
  <2>1. published[Newest].baseline <= Newest /\ published[Newest].baseline \in Nat
    BY <1>1 DEF TypeOK, Released, Manifest
  <2>2. Len(published') = Newest + 1
    BY <1>1, <1>2 DEF TypeOK
  <2>3. \A n \in 1..Newest : published'[n] = published[n]
    BY <1>1, <1>2 DEF TypeOK
  <2>4. published'[Newest + 1] = [baseline |-> b, head |-> Newest + 1]
    BY <1>1, <1>2 DEF TypeOK
  <2> SUFFICES ASSUME NEW n \in 1..Len(published')
               PROVE  /\ published'[n].head = n
                      /\ published'[n].baseline <= n
                      /\ published'[n].baseline < n =>
                             /\ n > 1
                             /\ published'[n].baseline = published'[n - 1].baseline
    BY DEF Released
  <2>5. CASE n = Newest + 1
    BY <1>1, <1>2, <2>1, <2>3, <2>4, <2>5
  <2>6. CASE n \in 1..Newest
    <3>1. /\ published[n].head = n
          /\ published[n].baseline <= n
          /\ published[n].baseline < n =>
                 n > 1 /\ published[n].baseline = published[n - 1].baseline
      BY <1>1, <2>6 DEF TypeOK, Released
    <3>2. n > 1 => n - 1 \in 1..Newest
      BY <1>1, <2>6
    <3> QED
      BY <2>3, <2>6, <3>1, <3>2
  <2> QED
    BY <1>1, <2>2, <2>5, <2>6
<1>5. UNCHANGED <<files, lock, procs>>
  BY DEF PublishBaseline, PublishDelta
<1>6. TypeOK'
  BY <1>3, <1>4, <1>5 DEF TypeOK, files, procs
<1>7. (Newest > 0)'
  BY <1>1, <1>2 DEF Newest, TypeOK
<1>8. LockProtocol'
  BY <1>5 DEF LockProtocol, procs
<1>9. \A p \in Proc : Knows(p)'
  BY <1>5 DEF Knows, Chain, Deltas, files, procs
<1> QED
  BY <1>5, <1>6, <1>7, <1>8, <1>9 DEF files

LEMMA ReadOverlap ==
    ASSUME Overlap, NEW p \in Proc, NEW c \in Channel, ReadLocal(p, c)
    PROVE  Overlap' /\ dir' = dir
<1> USE DEF Overlap
<1>1. TypeOK'
  <2>1. Visible \in Content \cup {None, Torn} /\ VisibleVersion \in {0} \cup Version
    BY VisibleShape, VersionShape DEF ReadLocal
  <2>2. c \in {"stable", "daily"}
    BY UpdaterAssumption
  <2> QED
    BY <2>1, <2>2, RecoverTypes DEF ReadLocal, TypeOK, Goto, Outcome, NoResult
<1>2. LockProtocol'
  BY DEF ReadLocal, LockProtocol, Goto, TypeOK
<1>3. Knows(p)'
  BY VersionShape DEF ReadLocal, Knows, Goto, TypeOK
<1>4. \A q \in Proc : q # p => Knows(q)'
  BY OthersKnow DEF ReadLocal, Goto, TypeOK
<1> QED
  BY <1>1, <1>2, <1>3, <1>4 DEF ReadLocal, Newest

LEMMA ReadFailsOverlap ==
    ASSUME Overlap, NEW p \in Proc, ReadLocalFails(p)
    PROVE  Overlap' /\ dir' = dir
<1> USE DEF Overlap
<1>1. TypeOK'
  <2>1. Visible \in Content \cup {None, Torn}
    BY VisibleShape
  <2> QED
    BY <2>1, RecoverTypes DEF ReadLocalFails, TypeOK, Outcome
<1>2. LockProtocol'
  BY DEF ReadLocalFails, LockProtocol
<1>3. \A q \in Proc : Knows(q)'
  BY DEF ReadLocalFails, Knows, Chain, Deltas
<1> QED
  BY <1>1, <1>2, <1>3 DEF ReadLocalFails, Newest

LEMMA FetchOverlap ==
    ASSUME Overlap, NEW p \in Proc, NEW n \in Answers, Fetch(p, published[n])
    PROVE  Overlap' /\ dir' = dir
<1> USE DEF Overlap
<1>1. published[n] \in Manifest
  BY PublishedShape DEF Answers
<1>2. CASE ChooseBaseline(p, published[n])
  <2>1. TypeOK'
    BY <1>1, <1>2 DEF ChooseBaseline, TypeOK, Goto, files
  <2>2. LockProtocol'
    BY <1>2 DEF ChooseBaseline, LockProtocol, Goto, TypeOK
  <2>3. Knows(p)'
    BY <1>1, <1>2 DEF ChooseBaseline, Knows, Goto, TypeOK
  <2>4. \A q \in Proc : q # p => Knows(q)'
    BY <1>2, OthersKnow DEF ChooseBaseline, Goto, TypeOK, files
  <2> QED
    BY <1>2, <2>1, <2>2, <2>3, <2>4 DEF ChooseBaseline, Newest, files
<1>3. CASE ChooseNothing(p, published[n])
  BY <1>3, EndsOverlap DEF ChooseNothing, files, TypeOK, Outcome
<1>4. CASE ChooseChain(p, published[n])
  <2>1. Chain(published[n], local[p]) \in SUBSET Delta
    BY <1>1, UpdaterAssumption DEF Chain, Deltas, Delta, Manifest, TypeOK
  <2>2. TypeOK'
    BY <1>1, <1>4, <2>1 DEF ChooseChain, TypeOK, Goto, files
  <2>3. LockProtocol'
    BY <1>4 DEF ChooseChain, LockProtocol, Goto, TypeOK
  <2>4. Knows(p)'
    <3>1. local[p] \in Nat /\ local[p] # 0 /\ dir.db # None
      BY <1>4, UpdaterAssumption DEF ChooseChain, WantsBaseline, Knows, TypeOK
    <3>2. chain'[p] = Chain(entry'[p], local[p])
      BY <1>4 DEF ChooseChain, TypeOK
    <3> QED
      BY <1>1, <1>4, <3>1, <3>2 DEF ChooseChain, Knows, Goto, TypeOK, files
  <2>5. \A q \in Proc : q # p => Knows(q)'
    BY <1>4, OthersKnow DEF ChooseChain, Goto, TypeOK, files
  <2> QED
    BY <1>4, <2>2, <2>3, <2>4, <2>5 DEF ChooseChain, Newest, files
<1> QED
  BY <1>2, <1>3, <1>4 DEF Fetch

LEMMA ApplyOverlap ==
    ASSUME Overlap, NEW p \in Proc, Apply(p)
    PROVE  Overlap' /\ dir' = dir
<1> USE DEF Overlap
<1>1. CASE TakeLock(p)
  <2>1. TypeOK'
    BY <1>1 DEF TakeLock, TypeOK, Goto, files
  <2>2. LockProtocol'
    BY <1>1, UpdaterAssumption DEF TakeLock, LockProtocol, Goto, TypeOK
  <2>3. Knows(p)'
    BY <1>1 DEF TakeLock, Knows, Goto, TypeOK, Chain, Deltas, files
  <2>4. \A q \in Proc : q # p => Knows(q)'
    BY <1>1, OthersKnow DEF TakeLock, Goto, TypeOK, files
  <2> QED
    BY <1>1, <2>1, <2>2, <2>3, <2>4 DEF TakeLock, Newest, files
<1>2. CASE BeginTx(p)
  <2>1. dir.db \in Ino /\ Visible \in Content
    BY <1>2, VisibleShape DEF BeginTx, Knows
  <2>2. TypeOK'
    BY <1>2, <2>1 DEF BeginTx, TypeOK, Goto
  <2>3. LockProtocol'
    BY <1>2 DEF BeginTx, LockProtocol, Goto, TypeOK
  <2>4. Knows(p)'
    BY <1>2, <2>1 DEF BeginTx, Knows, Goto, TypeOK, Chain, Deltas
  <2>5. \A q \in Proc : q # p => Knows(q)'
    BY <1>2, OthersKnow DEF BeginTx, Goto, TypeOK
  <2> QED
    BY <1>2, <2>2, <2>3, <2>4, <2>5 DEF BeginTx, Newest
<1>3. CASE ApplyDelta(p)
  <2>1. PICK k \in Nat : chain[p] = Chain(entry[p], k)
    BY <1>3 DEF ApplyDelta, Knows
  <2>2. entry[p] \in Manifest /\ fd[p] \in Ino
    BY <1>3 DEF ApplyDelta, Knows
  <2>3. /\ First(chain[p]) \in chain[p]
        /\ \E j \in Nat : chain[p] \ {First(chain[p])} = Chain(entry[p], j)
    BY <1>3, <2>1, <2>2, ChainFirst DEF ApplyDelta
  <2>4. First(chain[p]) \in Delta
    BY <2>3 DEF TypeOK
  <2>5. Patched(disk[fd[p]], First(chain[p])) \in Content
    <3>1. disk[fd[p]] \in Content
      BY <1>3, <2>2 DEF ApplyDelta, TypeOK
    <3> QED
      BY <2>4, <3>1, UpdaterAssumption DEF Patched, Content, Delta
  <2>6. TypeOK'
    BY <1>3, <2>2, <2>5 DEF ApplyDelta, TypeOK
  <2>7. LockProtocol'
    BY <1>3 DEF ApplyDelta, LockProtocol
  <2>8. Knows(p)'
    <3>1. \E j \in Nat : chain'[p] = Chain(entry[p], j)
      BY <1>3, <2>3 DEF ApplyDelta, TypeOK
    <3> QED
      BY <1>3, <3>1 DEF ApplyDelta, Knows, Chain, Deltas
  <2>9. \A q \in Proc : q # p => Knows(q)'
    BY <1>3, OthersKnow DEF ApplyDelta, TypeOK
  <2> QED
    BY <1>3, <2>6, <2>7, <2>8, <2>9 DEF ApplyDelta, Newest
<1>4. CASE Commit(p)
  <2>1. [disk[fd[p]] EXCEPT !.version = entry[p].head] \in Content
    <3>1. disk[fd[p]] \in Content /\ entry[p].head \in Version
      BY <1>4 DEF Commit, Knows, TypeOK, Manifest
    <3> QED
      BY <3>1 DEF Content
  <2>2. disk' \in [Ino -> Content \cup {Torn}]
    BY <1>4, <2>1 DEF Commit, TypeOK
  <2>3. journal' \in {None} \cup [ino : Ino, undo : Content]
    BY <1>4 DEF Commit, TypeOK
  <2>4. entry[p].head \in Version
    BY <1>4 DEF Commit, Knows, Manifest
  <2> QED
    BY <1>4, <2>2, <2>3, <2>4, EndsOverlap DEF Commit, TypeOK, Outcome
<1> QED
  BY <1>1, <1>2, <1>3, <1>4 DEF Apply

LEMMA InstallOverlap ==
    ASSUME Overlap, NEW p \in Proc, Install(p)
    PROVE  Overlap' /\ (dir.db # None => dir'.db # None)
<1> USE DEF Overlap
<1>1. CASE GetBaseline(p)
  <2>1. TypeOK' /\ LockProtocol' /\ Knows(p)'
    BY <1>1 DEF GetBaseline, TypeOK, LockProtocol, Knows, Goto, files
  <2>2. \A q \in Proc : q # p => Knows(q)'
    BY <1>1, OthersKnow DEF GetBaseline, Goto, TypeOK, files
  <2> QED
    BY <1>1, <2>1, <2>2 DEF GetBaseline, Newest, files
<1>2. CASE RemovePart(p)
  <2>1. dir'.db = dir.db
    BY <1>2 DEF RemovePart, TypeOK
  <2>2. TypeOK' /\ LockProtocol' /\ Knows(p)'
    BY <1>2 DEF RemovePart, TypeOK, LockProtocol, Knows, Goto
  <2>3. \A q \in Proc : q # p => Knows(q)'
    BY <1>2, <2>1, OthersKnow DEF RemovePart, Goto, TypeOK
  <2> QED
    BY <1>2, <2>1, <2>2, <2>3 DEF RemovePart, Newest
<1>3. CASE CreatePart(p)
  <2>1. PICK i \in Ino :
          /\ dir' = [dir EXCEPT !.part = i]
          /\ disk' = [disk EXCEPT ![i] = Torn]
          /\ fd' = [fd EXCEPT ![p] = i]
    BY <1>3 DEF CreatePart
  <2>2. dir'.db = dir.db
    BY <2>1 DEF TypeOK
  <2>3. TypeOK'
    BY <1>3, <2>1 DEF CreatePart, TypeOK, Goto
  <2>4. LockProtocol' /\ Knows(p)'
    BY <1>3, <2>1 DEF CreatePart, LockProtocol, Knows, Goto, TypeOK
  <2>5. \A q \in Proc : q # p => Knows(q)'
    BY <1>3, <2>1, <2>2, OthersKnow DEF CreatePart, Goto, TypeOK
  <2> QED
    BY <1>3, <2>2, <2>3, <2>4, <2>5 DEF CreatePart, Newest
<1>4. CASE WritePart(p)
  <2>1. Faithful(entry[p].baseline) \in Content
    BY <1>4, UpdaterAssumption DEF WritePart, Knows, Faithful, Content, Manifest
  <2>2. disk' \in [Ino -> Content \cup {Torn}]
    BY <1>4, <2>1 DEF WritePart, TypeOK
  <2>3. TypeOK'
    BY <1>4, <2>2 DEF WritePart, TypeOK, Goto
  <2>4. LockProtocol' /\ Knows(p)'
    BY <1>4 DEF WritePart, LockProtocol, Knows, Goto, TypeOK
  <2>5. \A q \in Proc : q # p => Knows(q)'
    BY <1>4, OthersKnow DEF WritePart, Goto, TypeOK
  <2> QED
    BY <1>4, <2>3, <2>4, <2>5 DEF WritePart, Newest
<1>5. CASE Rename(p)
  <2>1. dir'.db # None
    BY <1>5 DEF Rename
  <2>2. TypeOK'
    BY <1>5 DEF Rename, TypeOK, Goto
  <2>3. LockProtocol' /\ Knows(p)'
    BY <1>5 DEF Rename, LockProtocol, Knows, Goto, TypeOK
  <2>4. \A q \in Proc : q # p => Knows(q)'
    BY <1>5, <2>1, OthersKnow DEF Rename, Goto, TypeOK
  <2> QED
    BY <1>5, <2>1, <2>2, <2>3, <2>4 DEF Rename, Newest
<1>6. CASE Cleanup(p)
  <2>1. /\ dir'.db = dir.db
        /\ dir' \in [{"db", "part"} -> Ino \cup {None}]
    BY <1>6 DEF Cleanup, TypeOK
  <2>2. /\ disk' \in [Ino -> Content \cup {Torn}]
        /\ journal' \in {None} \cup [ino : Ino, undo : Content]
    BY <1>6 DEF Cleanup, TypeOK
  <2>3. entry[p].head \in Version
    BY <1>6 DEF Cleanup, Knows, Manifest
  <2> QED
    BY <1>6, <2>1, <2>2, <2>3, EndsOverlap DEF Cleanup, Outcome
<1> QED
  BY <1>1, <1>2, <1>3, <1>4, <1>5, <1>6 DEF Install

LEMMA FaultOverlap ==
    ASSUME Overlap, NEW p \in Proc, Fault(p)
    PROVE  Overlap' /\ dir'.db = dir.db
<1> USE DEF Overlap
<1>1. CASE ReadLocalFails(p)
  BY <1>1, ReadFailsOverlap
<1>2. CASE Fail(p) \/ Locked(p) \/ Crash(p)
  BY <1>2, EndsOverlap DEF Fail, Locked, Crash, files, TypeOK, Outcome
<1>3. CASE BeginTxFails(p)
  BY <1>3, RecoverTypes, EndsOverlap DEF BeginTxFails, TypeOK, Outcome
<1>4. CASE ApplyFails(p)
  <2>1. /\ disk' \in [Ino -> Content \cup {Torn}]
        /\ journal' \in {None} \cup [ino : Ino, undo : Content]
    BY <1>4 DEF ApplyFails, Journalled, TypeOK
  <2> QED
    BY <1>4, <2>1, EndsOverlap DEF ApplyFails, TypeOK, Outcome
<1>5. CASE WritePartFails(p)
  <2>1. dir'.db = dir.db
    BY <1>5 DEF WritePartFails, TypeOK
  <2>2. TypeOK' /\ LockProtocol' /\ Knows(p)'
    BY <1>5 DEF WritePartFails, TypeOK, LockProtocol, Knows, Goto
  <2>3. \A q \in Proc : q # p => Knows(q)'
    BY <1>5, <2>1, OthersKnow DEF WritePartFails, Goto, TypeOK
  <2> QED
    BY <1>5, <2>1, <2>2, <2>3 DEF WritePartFails, Newest
<1>6. CASE RenameFails(p)
  <2>1. TypeOK' /\ LockProtocol' /\ Knows(p)'
    BY <1>6 DEF RenameFails, TypeOK, LockProtocol, Knows, Goto, files
  <2>2. \A q \in Proc : q # p => Knows(q)'
    BY <1>6, OthersKnow DEF RenameFails, Goto, TypeOK, files
  <2> QED
    BY <1>6, <2>1, <2>2 DEF RenameFails, Newest, files
<1> QED
  BY <1>1, <1>2, <1>3, <1>4, <1>5, <1>6 DEF Fault

LEMMA NextOverlap ==
    ASSUME Overlap, [Next]_vars
    PROVE  Overlap' /\ (dir.db # None => dir'.db # None)
<1>1. CASE UNCHANGED vars
  BY <1>1 DEF Overlap, vars, files, procs, TypeOK, LockProtocol, Newest, Knows, Chain,
              Deltas
<1>2. CASE PublishBaseline \/ PublishDelta
  BY <1>2, PublishOverlap
<1>3. ASSUME NEW p \in Proc, Step(p)
      PROVE  Overlap' /\ (dir.db # None => dir'.db # None)
  BY <1>3, ReadOverlap, FetchOverlap, ApplyOverlap, InstallOverlap DEF Step
<1>4. ASSUME NEW p \in Proc, Fault(p)
      PROVE  Overlap' /\ (dir.db # None => dir'.db # None)
  BY <1>4, FaultOverlap
<1> QED
  BY <1>1, <1>2, <1>3, <1>4 DEF Next

LEMMA AlwaysOverlap == Spec => []Overlap
<1>1. Init => Overlap
  BY InitOverlap
<1>2. Overlap /\ [Next]_vars => Overlap'
  BY NextOverlap
<1> QED
  BY <1>1, <1>2, PTL DEF Spec

(* Updates publish nothing.                                                *)
LEMMA OnlyReleasesPublish ==
    ASSUME [Next]_vars, published' # published
    PROVE  PublishBaseline \/ PublishDelta
<1>1. ASSUME NEW p \in Proc, Fault(p) PROVE published' = published
  BY <1>1 DEF Fault, ReadLocalFails, Fail, Locked, BeginTxFails, ApplyFails, WritePartFails,
              RenameFails, Crash, Ends
<1>2. ASSUME NEW p \in Proc, Step(p) PROVE published' = published
  <2>1. CASE Apply(p)
    BY <2>1 DEF Apply, TakeLock, BeginTx, ApplyDelta, Commit, Ends
  <2>2. CASE Install(p)
    BY <2>2 DEF Install, GetBaseline, RemovePart, CreatePart, WritePart, Rename, Cleanup, Ends
  <2>3. ASSUME NEW n \in Answers, Fetch(p, published[n]) PROVE published' = published
    BY <2>3 DEF Fetch, ChooseBaseline, ChooseNothing, ChooseChain, Ends
  <2>4. ASSUME NEW c \in Channel, ReadLocal(p, c) PROVE published' = published
    BY <2>4 DEF ReadLocal
  <2> QED
    BY <1>2, <2>1, <2>2, <2>3, <2>4 DEF Step
<1> QED
  BY <1>1, <1>2 DEF Next, vars

(* Any number of updates, on any channel, with any faults: the variables   *)
(* keep their types and the manifests the form build_manifest gives them.  *)
THEOREM TypeCorrect == Spec => []TypeOK
<1>1. Overlap => TypeOK
  BY DEF Overlap
<1> QED
  BY <1>1, AlwaysOverlap, PTL

(* The flock is held by the one process between TakeLock and the end of    *)
(* its transaction, and a crash never leaves it behind.                    *)
THEOREM LockCorrect == Spec => []LockProtocol
<1>1. Overlap => LockProtocol
  BY DEF Overlap
<1> QED
  BY <1>1, AlwaysOverlap, PTL

-----------------------------------------------------------------------------
(* Daily updates that race from one manifest.                              *)
(*                                                                         *)
(* The shard is installed, the newest release is out, its baseline is not  *)
(* newer than the shard and the chain from there not too long, and no      *)
(* manifest server is behind.  Then no update takes a baseline; the lock   *)
(* keeps the transactions apart; and a chain that is replayed on a shard   *)
(* somebody else has already brought to the head leaves it there.          *)

OneManifest ==
    /\ Channel \subseteq {"daily"} /\ Lag = 0
    /\ \A ms \in FirstReleases :
           /\ Len(ms) = MaxVersion
           /\ \A v \in FirstLocal :
                  v # 0 /\ ms[MaxVersion].baseline <= v /\ MaxVersion - v <= MaxChain

Latest == published[Newest]

InReach(v) == v \in Latest.baseline..Newest /\ Newest - v <= MaxChain

(* Every row is that of release k or already that of the newest.           *)
Halfway(f, k) ==
    f \in Content /\ \A r \in Row : f.rows[r] \in {Truth[k][r], Truth[Newest][r]}

(* What a process knows at each of its steps, the others doing the same.   *)
Races(p) ==
    /\ chan[p] = "daily"
    /\ pc[p] \in {"idle", "manifest", "lock", "begin", "apply"}
    /\ pc[p] # "idle" => InReach(local[p]) /\ VisibleVersion \in {local[p], Newest}
    /\ pc[p] \in {"lock", "begin", "apply"} => entry[p] = Latest
    /\ pc[p] \in {"lock", "begin"} => chain[p] = Chain(Latest, local[p])
    /\ pc[p] = "apply" =>
           /\ journal # None /\ fd[p] = dir.db
           /\ \E k \in Latest.baseline..Newest :
                  chain[p] = Chain(Latest, k) /\ Halfway(disk[dir.db], k)
    /\ result[p].outcome \in {"noop", "delta"} =>
           result[p].to = Newest /\ Visible = Faithful(Newest)

Together ==
    /\ Overlap
    /\ Newest = MaxVersion /\ dir.db # None
    /\ Paired
    /\ \E v \in Version : InReach(v) /\ Visible = Faithful(v)
    /\ \A p \in Proc : Races(p)

-----------------------------------------------------------------------------
(* A chain is as long as it is from its start to the head.                 *)
LEMMA ChainLength ==
    ASSUME NEW e \in Manifest, NEW u \in e.baseline..e.head
    PROVE  Cardinality(Chain(e, u)) \in Nat /\ Cardinality(Chain(e, u)) <= e.head - u
<1> DEFINE T == u..(e.head - 1)
           f == [d \in Chain(e, u) |-> d.from]
<1>1. e.baseline \in Nat /\ e.head \in Nat /\ u \in Nat
  BY UpdaterAssumption DEF Manifest
<1>2. \A d \in Chain(e, u) : d.from \in T /\ d = [from |-> d.from, to |-> d.from + 1]
  BY <1>1 DEF Chain, Deltas
<1>3. f \in Injection(Chain(e, u), T)
  BY <1>2, Zenon DEF Injection, IsInjective
<1>4. IsFiniteSet(T) /\ Cardinality(T) <= e.head - u
  <2>1. u \in Int /\ e.head - 1 \in Int
    BY <1>1
  <2>2. /\ IsFiniteSet(T)
        /\ Cardinality(T) = IF u > e.head - 1 THEN 0 ELSE e.head - 1 - u + 1
    BY <2>1, FS_Interval
  <2> QED
    BY <1>1, <2>2
<1>5. IsFiniteSet(Chain(e, u)) /\ Cardinality(Chain(e, u)) <= Cardinality(T)
  BY <1>3, <1>4, FS_Injection
<1>6. Cardinality(Chain(e, u)) \in Nat /\ Cardinality(T) \in Nat
  BY <1>4, <1>5, FS_CardinalityType
<1> QED
  BY <1>1, <1>4, <1>5, <1>6

(* What is known of the manifest and of the shard.                         *)
LEMMA TogetherShape ==
    ASSUME Together
    PROVE  /\ Newest \in Version /\ Newest \in Nat
           /\ Latest \in Manifest /\ Latest.head = Newest
           /\ Latest.baseline \in Nat /\ Latest.baseline > 0 /\ Latest.baseline <= Newest
           /\ dir.db \in Ino /\ dir.db # None
           /\ Visible \in Content /\ Visible # None /\ Visible # Torn
           /\ VisibleVersion \in Version /\ InReach(VisibleVersion)
           /\ Visible = Faithful(VisibleVersion)
           /\ Visible = IF journal # None THEN journal.undo ELSE disk[dir.db]
<1> USE DEF Together
<1>1. Newest \in Version /\ Newest \in Nat
  BY UpdaterAssumption
<1>2. Latest \in Manifest /\ Latest.head = Newest /\ Latest.baseline <= Newest
  BY <1>1, PublishedShape DEF Overlap, Latest, TypeOK, Released, Newest
<1>3. Latest.baseline \in Nat /\ Latest.baseline > 0
  BY <1>2, UpdaterAssumption DEF Manifest
<1>4. PICK v \in Version : InReach(v) /\ Visible = Faithful(v)
  OBVIOUS
<1>5. Visible \in Content /\ Visible.version = v
  BY <1>4, UpdaterAssumption DEF Faithful, Content
<1>6. Visible # None /\ Visible # Torn
  BY <1>5, UpdaterAssumption
<1>7. VisibleVersion = v
  BY <1>5, <1>6 DEF VisibleVersion
<1>8. dir.db \in Ino
  BY VisibleShape DEF Overlap
<1> QED
  BY <1>1, <1>2, <1>3, <1>4, <1>5, <1>6, <1>7, <1>8, VisibleIsShown DEF Shown

(* A delta takes a shard half-way from release k to the head half-way from *)
(* the release after k.                                                    *)
LEMMA PatchedHalfway ==
    ASSUME NEW k \in Version, k + 1 \in Version, Newest \in Version, NEW f, Halfway(f, k)
    PROVE  Halfway(Patched(f, [from |-> k, to |-> k + 1]), k + 1)
<1> DEFINE g == Patched(f, [from |-> k, to |-> k + 1])
<1>1. g \in Content
  BY UpdaterAssumption DEF Patched, Content, Halfway
<1>2. ASSUME NEW r \in Row PROVE g.rows[r] \in {Truth[k + 1][r], Truth[Newest][r]}
  <2>1. f.rows[r] \in {Truth[k][r], Truth[Newest][r]}
    BY DEF Halfway
  <2>2. g.rows[r] = IF Truth[k][r] # Truth[k + 1][r] THEN Truth[k + 1][r] ELSE f.rows[r]
    BY DEF Patched
  <2> QED
    BY <2>1, <2>2
<1> QED
  BY <1>1, <1>2 DEF Halfway

(* Half-way from the newest release is the newest release, once its        *)
(* version is pinned.                                                      *)
LEMMA HalfwayThere ==
    ASSUME Newest \in Version, NEW f, Halfway(f, Newest)
    PROVE  [f EXCEPT !.version = Newest] = Faithful(Newest)
<1>1. f \in Content /\ \A r \in Row : f.rows[r] = Truth[Newest][r]
  BY DEF Halfway
<1>2. f.rows \in [Row -> Val] /\ Truth[Newest] \in [Row -> Val]
  BY <1>1, UpdaterAssumption DEF Content
<1>3. f.rows = Truth[Newest]
  BY <1>1, <1>2
<1> QED
  BY <1>1, <1>3 DEF Content, Faithful

(* Opening the shard shows what it showed, and leaves a transaction alone. *)
LEMMA RecoverTogether ==
    ASSUME Together, Recover, dir' = dir
    PROVE  /\ Paired' /\ Visible' = Visible
           /\ (\E q \in Proc : pc[q] = "apply") => journal' = journal /\ disk' = disk
<1>1. dir.db \in Ino
  BY TogetherShape
<1>2. CASE Hot
  <2>1. PlayedBack = journal.undo /\ journal # None
    BY <1>2 DEF Hot, PlayedBack, Together, Paired
  <2>2. journal' = None /\ disk' = [disk EXCEPT ![dir.db] = journal.undo]
    BY <1>2, <2>1 DEF Recover
  <2>3. disk'[dir.db] = journal.undo
    BY <1>1, <2>2 DEF Together, Overlap, TypeOK
  <2>4. Paired' /\ Visible' = Visible
    BY <2>1, <2>2, <2>3, TogetherShape, VisibleIsShown DEF Paired, Shown
  <2>5. ~\E q \in Proc : pc[q] = "apply"
    BY <1>2 DEF Hot, InTransaction, Together, Races
  <2> QED
    BY <2>4, <2>5
<1>3. CASE ~Hot
  <2>1. journal' = journal /\ disk' = disk
    BY <1>3 DEF Recover
  <2> QED
    BY <2>1, VisibleIsShown DEF Together, Paired, Shown
<1> QED
  BY <1>2, <1>3

(* A process that does not move keeps what it knows, when readers see what *)
(* they saw or the newest release, and a transaction is left alone.        *)
LEMMA StillRaces ==
    ASSUME Together, NEW q \in Proc, published' = published, dir' = dir,
           pc'[q] = pc[q], chan'[q] = chan[q], local'[q] = local[q], entry'[q] = entry[q],
           chain'[q] = chain[q], fd'[q] = fd[q], result'[q] = result[q],
           Visible' \in {Visible, Faithful(Newest)},
           pc[q] = "apply" => journal' = journal /\ disk'[dir.db] = disk[dir.db]
    PROVE  Races(q)'
<1>1. Newest' = Newest /\ Latest' = Latest
  BY DEF Newest, Latest
<1>2. VisibleVersion' \in {VisibleVersion, Newest}
  <2>1. Faithful(Newest) # None /\ Faithful(Newest).version = Newest
    BY TogetherShape, UpdaterAssumption DEF Faithful, Content
  <2> QED
    BY <2>1 DEF VisibleVersion
<1>3. Races(q)
  BY DEF Together
<1>4. result[q].outcome \in {"noop", "delta"} => Visible' = Faithful(Newest)
  BY <1>3 DEF Races
<1> QED
  BY <1>1, <1>2, <1>3, <1>4 DEF Races, InReach, Chain, Deltas, Halfway, Faithful

(* A step of p that keeps all of this keeps the invariant.                 *)
LEMMA StillTogether ==
    ASSUME Together, Overlap', NEW p \in Proc, published' = published, dir' = dir,
           Paired', Visible' \in {Visible, Faithful(Newest)},
           \A q \in Proc \ {p} :
               /\ pc'[q] = pc[q] /\ chan'[q] = chan[q] /\ local'[q] = local[q]
               /\ entry'[q] = entry[q] /\ chain'[q] = chain[q] /\ fd'[q] = fd[q]
               /\ result'[q] = result[q]
               /\ pc[q] = "apply" => journal' = journal /\ disk'[dir.db] = disk[dir.db],
           Races(p)'
    PROVE  Together'
<1>1. Newest' = Newest /\ Latest' = Latest
  BY DEF Newest, Latest
<1>2. \A q \in Proc : Races(q)'
  BY StillRaces
<1>3. InReach(Newest)
  BY TogetherShape, UpdaterAssumption DEF InReach
<1>4. \E v \in Version : InReach(v)' /\ Visible' = Faithful(v)'
  BY <1>1, <1>3, TogetherShape DEF InReach, Faithful
<1> QED
  BY <1>1, <1>2, <1>4 DEF Together

(* The end of an update.                                                   *)
LEMMA EndsTogether ==
    ASSUME Together, Overlap', NEW p \in Proc, NEW o, NEW v, Ends(p, o, v), dir' = dir,
           Paired', Visible' \in {Visible, Faithful(Newest)},
           o \in {"noop", "delta"} => v = Newest /\ Visible' = Faithful(Newest),
           \A q \in Proc \ {p} :
               pc[q] = "apply" => journal' = journal /\ disk'[dir.db] = disk[dir.db]
    PROVE  Together'
<1>1. /\ pc'[p] = "idle" /\ chan'[p] = "daily"
      /\ result'[p] = [outcome |-> o, to |-> v] /\ published' = published
  BY DEF Ends, Together, Overlap, TypeOK
<1>2. Newest' = Newest
  BY <1>1 DEF Newest
<1>3. Races(p)'
  BY <1>1, <1>2 DEF Races, Faithful
<1>4. \A q \in Proc \ {p} :
          /\ pc'[q] = pc[q] /\ chan'[q] = chan[q] /\ local'[q] = local[q]
          /\ entry'[q] = entry[q] /\ chain'[q] = chain[q] /\ fd'[q] = fd[q]
          /\ result'[q] = result[q]
  BY DEF Ends, Together, Overlap, TypeOK
<1> QED
  BY <1>1, <1>3, <1>4, StillTogether

-----------------------------------------------------------------------------
(* One lemma per group of steps.                                           *)

LEMMA InitTogether == OneManifest /\ Init => Together
<1> SUFFICES ASSUME OneManifest, Init PROVE Together
  OBVIOUS
<1>1. Overlap
  BY InitOverlap
<1>2. PICK v \in FirstLocal, i \in Ino :
        /\ dir = [db |-> IF v = 0 THEN None ELSE i, part |-> None]
        /\ disk = [j \in Ino |-> IF v # 0 /\ j = i THEN Faithful(v) ELSE Torn]
  BY DEF Init
<1>3. published \in FirstReleases /\ Newest = MaxVersion
  BY DEF Init, OneManifest, Newest
<1>4. v # 0 /\ Latest.baseline <= v /\ v <= Newest /\ Newest - v <= MaxChain
  BY <1>3, ReleasesAssumption DEF OneManifest, Newest, Latest
<1>5. v \in Version /\ InReach(v)
  <2>1. v \in Version
    BY <1>4, UpdaterAssumption
  <2>2. Newest \in Nat /\ Latest \in Manifest
    BY <1>1, <1>3, <2>1, UpdaterAssumption, PublishedShape DEF Overlap, Latest
  <2> QED
    BY <1>4, <2>1, <2>2, UpdaterAssumption DEF InReach, Manifest
<1>6. dir.db = i /\ dir.db # None /\ disk[dir.db] = Faithful(v)
  BY <1>2, <1>4, UpdaterAssumption
<1>7. Paired
  BY DEF Init, Paired
<1>8. Visible = Faithful(v)
  BY <1>6, <1>7, VisibleIsShown DEF Init, Shown
<1>9. \A p \in Proc : Races(p)
  BY DEF Init, Races, NoResult
<1> QED
  BY <1>1, <1>3, <1>5, <1>6, <1>7, <1>8, <1>9 DEF Together

LEMMA ReadTogether ==
    ASSUME OneManifest, Together, NEW p \in Proc, NEW c \in Channel, ReadLocal(p, c)
    PROVE  Together' /\ Visible' = Visible
<1>1. Overlap' /\ dir' = dir
  BY ReadOverlap DEF Together
<1>2. /\ Paired' /\ Visible' = Visible
      /\ (\E q \in Proc : pc[q] = "apply") => journal' = journal /\ disk' = disk
  BY <1>1, RecoverTogether DEF ReadLocal
<1>3. c = "daily"
  BY DEF OneManifest
<1>4. /\ pc'[p] = "manifest" /\ chan'[p] = c /\ local'[p] = VisibleVersion
      /\ result'[p] = NoResult /\ published' = published
  BY DEF ReadLocal, Goto, Together, Overlap, TypeOK
<1>5. Races(p)'
  <2>1. InReach(VisibleVersion) /\ Latest' = Latest /\ Newest' = Newest
    BY <1>4, TogetherShape DEF Latest, Newest
  <2> QED
    BY <1>2, <1>3, <1>4, <2>1 DEF Races, InReach, NoResult, VisibleVersion
<1>6. \A q \in Proc \ {p} :
          /\ pc'[q] = pc[q] /\ chan'[q] = chan[q] /\ local'[q] = local[q]
          /\ entry'[q] = entry[q] /\ chain'[q] = chain[q] /\ fd'[q] = fd[q]
          /\ result'[q] = result[q]
          /\ pc[q] = "apply" => journal' = journal /\ disk'[dir.db] = disk[dir.db]
  BY <1>2 DEF ReadLocal, Goto, Together, Overlap, TypeOK
<1> QED
  BY <1>1, <1>2, <1>4, <1>5, <1>6, StillTogether

LEMMA FetchTogether ==
    ASSUME OneManifest, Together, NEW p \in Proc, NEW n \in Answers, Fetch(p, published[n])
    PROVE  Together' /\ Visible' = Visible
<1> DEFINE u == local[p]
<1>1. published[n] = Latest
  BY TogetherShape DEF OneManifest, Answers, Latest
<1>2. Overlap' /\ dir' = dir
  BY FetchOverlap DEF Together
<1>3. journal' = journal /\ disk' = disk /\ published' = published
  BY DEF Fetch, ChooseBaseline, ChooseNothing, ChooseChain, files, Ends
<1>4. Paired' /\ Visible' = Visible
  BY <1>2, <1>3, VisibleIsShown DEF Together, Paired, Shown
<1>5. /\ pc[p] = "manifest" /\ chan[p] = "daily"
      /\ InReach(u) /\ VisibleVersion \in {u, Newest}
  BY DEF Fetch, ChooseBaseline, ChooseNothing, ChooseChain, Together, Races
<1>6. /\ u \in Nat /\ u > 0 /\ u >= Latest.baseline /\ u \in Latest.baseline..Latest.head
      /\ Newest - u <= MaxChain
  BY <1>5, TogetherShape DEF InReach
<1>7. ~WantsBaseline("daily", u, Latest)
  BY <1>6, TogetherShape DEF WantsBaseline
<1>8. ~TooLong(Latest, u)
  BY <1>6, TogetherShape, ChainLength, UpdaterAssumption DEF TooLong
<1>9. Chain(Latest, u) # {} => ~StartsElsewhere(Latest, u)
  <2> SUFFICES ASSUME NEW d \in Chain(Latest, u) PROVE ~StartsElsewhere(Latest, u)
    OBVIOUS
  <2>1. u < Latest.head
    BY <1>6, TogetherShape DEF Chain, Deltas
  <2>2. [from |-> u, to |-> u + 1] \in Chain(Latest, u)
    BY <1>6, <2>1, TogetherShape DEF Chain, Deltas
  <2> QED
    BY <2>2 DEF StartsElsewhere
<1>10. CASE ChooseBaseline(p, Latest)
  BY <1>5, <1>7, <1>8, <1>9, <1>10 DEF ChooseBaseline
<1>11. CASE ChooseNothing(p, Latest)
  <2>1. u = Newest
    BY <1>6, <1>11, TogetherShape, ChainEmpty DEF ChooseNothing
  <2>2. Visible = Faithful(Newest)
    BY <1>5, <2>1, TogetherShape
  <2> QED
    BY <1>2, <1>3, <1>4, <1>11, <2>1, <2>2, EndsTogether DEF ChooseNothing
<1>12. CASE ChooseChain(p, Latest)
  <2>1. /\ pc'[p] = "lock" /\ entry'[p] = Latest /\ chain'[p] = Chain(Latest, u)
        /\ chan' = chan /\ local' = local /\ result' = result
    BY <1>12 DEF ChooseChain, Goto, Together, Overlap, TypeOK
  <2>2. Newest' = Newest /\ Latest' = Latest
    BY <1>3 DEF Newest, Latest
  <2>3. Races(p)
    BY DEF Together
  <2>4. Races(p)'
    BY <1>4, <1>5, <2>1, <2>2, <2>3
       DEF Races, InReach, VisibleVersion, Chain, Deltas, Faithful
  <2>5. \A q \in Proc \ {p} :
            /\ pc'[q] = pc[q] /\ chan'[q] = chan[q] /\ local'[q] = local[q]
            /\ entry'[q] = entry[q] /\ chain'[q] = chain[q] /\ fd'[q] = fd[q]
            /\ result'[q] = result[q]
    BY <1>12 DEF ChooseChain, Goto, Together, Overlap, TypeOK
  <2> QED
    BY <1>2, <1>3, <1>4, <2>4, <2>5, StillTogether
<1> QED
  BY <1>1, <1>10, <1>11, <1>12 DEF Fetch

(* Only the holder of the lock has a transaction.                          *)
LEMMA OneTransaction ==
    ASSUME Together, NEW p \in Proc, NEW q \in Proc, pc[p] \in {"begin", "apply"}, q # p
    PROVE  pc[q] # "apply"
BY DEF Together, Overlap, LockProtocol

LEMMA ApplyTogether ==
    ASSUME Together, NEW p \in Proc, Apply(p)
    PROVE  /\ Together'
           /\ IF Commit(p) THEN Visible' = Faithful(Newest) ELSE Visible' = Visible
<1> USE DEF Together
<1>1. Overlap' /\ dir' = dir
  BY ApplyOverlap
<1>2. published' = published /\ Newest' = Newest /\ Latest' = Latest
  BY DEF Apply, TakeLock, BeginTx, ApplyDelta, Commit, Ends, Newest, Latest
<1>3. Races(p) /\ dir.db \in Ino /\ dir.db # None
  BY TogetherShape
<1>4. ASSUME ~Commit(p)
      PROVE  \A q \in Proc \ {p} :
                 /\ pc'[q] = pc[q] /\ chan'[q] = chan[q] /\ local'[q] = local[q]
                 /\ entry'[q] = entry[q] /\ chain'[q] = chain[q] /\ fd'[q] = fd[q]
                 /\ result'[q] = result[q]
  BY <1>4 DEF Apply, TakeLock, BeginTx, ApplyDelta, Goto, Overlap, TypeOK
<1>5. CASE TakeLock(p)
  <2>1. journal' = journal /\ disk' = disk /\ pc[p] = "lock" /\ pc'[p] = "begin"
        /\ UNCHANGED <<chan, local, entry, chain, result>>
    BY <1>5 DEF TakeLock, files, Goto, Overlap, TypeOK
  <2>2. Paired' /\ Visible' = Visible
    BY <1>1, <2>1, VisibleIsShown DEF Paired, Shown
  <2>3. Races(p)'
    BY <1>2, <1>3, <2>1, <2>2 DEF Races, InReach, VisibleVersion, Chain, Deltas, Faithful
  <2>4. ~Commit(p)
    BY <2>1 DEF Commit
  <2> QED
    BY <1>1, <1>2, <1>4, <2>1, <2>2, <2>3, <2>4, StillTogether
<1>6. CASE BeginTx(p)
  <2>1. /\ disk' = [disk EXCEPT ![dir.db] = Visible]
        /\ journal' = [ino |-> dir.db, undo |-> Visible]
        /\ fd'[p] = dir.db /\ pc[p] = "begin" /\ pc'[p] = "apply"
        /\ UNCHANGED <<chan, local, entry, chain, result>>
    BY <1>6 DEF BeginTx, Goto, Overlap, TypeOK
  <2>2. disk'[dir.db] = Visible /\ journal' # None
    BY <1>3, <2>1, TogetherShape, UpdaterAssumption DEF Overlap, TypeOK
  <2>3. Paired' /\ Visible' = Visible
    BY <1>1, <1>3, <2>1, <2>2, VisibleIsShown DEF Paired, Shown
  <2>4. /\ InReach(local[p]) /\ VisibleVersion \in {local[p], Newest}
        /\ entry[p] = Latest /\ chain[p] = Chain(Latest, local[p])
        /\ local[p] \in Latest.baseline..Newest
    BY <1>3, <2>1 DEF Races, InReach
  <2>5. Halfway(Visible, local[p])
    BY <2>4, TogetherShape DEF Halfway, Faithful
  <2>6. Races(p)'
    BY <1>1, <1>2, <1>3, <2>1, <2>2, <2>3, <2>4, <2>5
       DEF Races, InReach, VisibleVersion, Chain, Deltas, Halfway, Faithful
  <2>7. ~Commit(p) /\ \A q \in Proc \ {p} : pc[q] # "apply"
    BY <2>1, OneTransaction DEF Commit
  <2> QED
    BY <1>1, <1>2, <1>4, <2>3, <2>6, <2>7, StillTogether
<1>7. CASE ApplyDelta(p)
  <2>1. pc[p] = "apply" /\ fd[p] = dir.db /\ journal # None /\ entry[p] = Latest
    BY <1>3, <1>7 DEF ApplyDelta, Races
  <2>2. PICK k \in Latest.baseline..Newest :
          chain[p] = Chain(Latest, k) /\ Halfway(disk[dir.db], k)
    BY <1>3, <2>1 DEF Races
  <2>3. /\ k \in Version /\ k + 1 \in Version /\ k + 1 \in Latest.baseline..Newest
        /\ First(chain[p]) = [from |-> k, to |-> k + 1]
        /\ chain[p] \ {First(chain[p])} = Chain(Latest, k + 1)
    <3>1. k \in Nat /\ Lowest(Latest, k) = k
      BY <2>2, TogetherShape DEF Lowest
    <3>2. /\ k < Latest.head
          /\ First(chain[p]) = [from |-> k, to |-> k + 1]
          /\ chain[p] \ {First(chain[p])} = Chain(Latest, k + 1)
      BY <1>7, <2>2, <3>1, TogetherShape, ChainFirst DEF ApplyDelta
    <3> QED
      BY <2>2, <3>1, <3>2, TogetherShape, UpdaterAssumption
  <2>4. /\ disk' = [disk EXCEPT ![dir.db] = Patched(@, First(chain[p]))]
        /\ chain'[p] = Chain(Latest, k + 1)
        /\ pc' = pc /\ journal' = journal
        /\ UNCHANGED <<chan, local, entry, fd, result>>
    BY <1>7, <2>1, <2>3 DEF ApplyDelta, Overlap, TypeOK
  <2>5. Halfway(disk'[dir.db], k + 1)
    <3>1. disk'[dir.db] = Patched(disk[dir.db], First(chain[p]))
      BY <1>3, <2>4 DEF Overlap, TypeOK
    <3> QED
      BY <2>2, <2>3, <3>1, TogetherShape, PatchedHalfway
  <2>6. Paired' /\ Visible' = Visible
    BY <1>1, <2>1, <2>4, VisibleIsShown DEF Paired, Shown
  <2>7. Races(p)'
    BY <1>1, <1>2, <1>3, <2>1, <2>3, <2>4, <2>5, <2>6
       DEF Races, InReach, VisibleVersion, Chain, Deltas, Halfway, Faithful
  <2>8. ~Commit(p)
    <3>1. First(chain[p]) \in chain[p]
      BY <1>7, <2>2, TogetherShape, ChainFirst DEF ApplyDelta
    <3> QED
      BY <3>1 DEF Commit
  <2>9. \A q \in Proc \ {p} : pc[q] # "apply"
    BY <2>1, OneTransaction
  <2> QED
    BY <1>1, <1>2, <1>4, <2>6, <2>7, <2>8, <2>9, StillTogether
<1>8. CASE Commit(p)
  <2>1. pc[p] = "apply" /\ fd[p] = dir.db /\ journal # None /\ entry[p] = Latest
    BY <1>3, <1>8 DEF Commit, Races
  <2>2. Halfway(disk[dir.db], Newest)
    <3>1. PICK k \in Latest.baseline..Newest :
            chain[p] = Chain(Latest, k) /\ Halfway(disk[dir.db], k)
      BY <1>3, <2>1 DEF Races
    <3>2. k = Newest
      BY <1>8, <3>1, TogetherShape, ChainEmpty DEF Commit
    <3> QED
      BY <3>1, <3>2
  <2>3. disk' = [disk EXCEPT ![dir.db].version = Newest] /\ journal' = None
    BY <1>8, <2>1, TogetherShape DEF Commit, Journalled, Paired
  <2>4. disk'[dir.db] = Faithful(Newest)
    <3>1. disk'[dir.db] = [disk[dir.db] EXCEPT !.version = Newest]
      BY <1>3, <2>3 DEF Overlap, TypeOK
    <3> QED
      BY <2>2, <3>1, TogetherShape, HalfwayThere
  <2>5. Paired' /\ Visible' = Faithful(Newest)
    BY <1>1, <1>3, <2>3, <2>4, VisibleIsShown DEF Paired, Shown
  <2>6. \A q \in Proc \ {p} : pc[q] # "apply"
    BY <2>1, OneTransaction
  <2>7. Ends(p, "delta", Newest)
    BY <1>8, <2>1, TogetherShape DEF Commit
  <2> QED
    BY <1>1, <1>8, <2>5, <2>6, <2>7, EndsTogether
<1> QED
  BY <1>4, <1>5, <1>6, <1>7, <1>8 DEF Apply

LEMMA FaultTogether ==
    ASSUME Together, NEW p \in Proc, Fault(p)
    PROVE  Together' /\ Visible' = Visible
<1> USE DEF Together
<1>1. Overlap' /\ dir'.db = dir.db
  BY FaultOverlap
<1>2. Races(p) /\ dir.db \in Ino /\ dir.db # None
  BY TogetherShape
<1>3. CASE ReadLocalFails(p)
  <2>1. /\ dir' = dir /\ pc' = pc /\ published' = published
        /\ UNCHANGED <<chan, local, entry, chain, fd>>
        /\ pc[p] = "idle" /\ result'[p] = [outcome |-> "unreadable", to |-> 0]
    BY <1>3 DEF ReadLocalFails, Overlap, TypeOK
  <2>2. /\ Paired' /\ Visible' = Visible
        /\ (\E q \in Proc : pc[q] = "apply") => journal' = journal /\ disk' = disk
    BY <1>3, <2>1, RecoverTogether DEF ReadLocalFails
  <2>3. Races(p)'
    BY <1>2, <2>1 DEF Races
  <2>4. \A q \in Proc \ {p} : result'[q] = result[q]
    BY <1>3 DEF ReadLocalFails, Overlap, TypeOK
  <2> QED
    BY <1>1, <2>1, <2>2, <2>3, <2>4, StillTogether
<1>4. CASE Fail(p) \/ Locked(p) \/ Crash(p)
  <2>1. /\ UNCHANGED files
        /\ \E o \in {"failed", "locked", "crashed"} : Ends(p, o, 0)
    BY <1>4 DEF Fail, Locked, Crash
  <2>2. Paired' /\ Visible' = Visible
    BY <2>1, VisibleIsShown DEF Paired, Shown, files
  <2> QED
    BY <1>1, <2>1, <2>2, EndsTogether DEF files
<1>5. CASE BeginTxFails(p)
  <2>1. dir' = dir /\ Ends(p, "failed", 0)
    BY <1>5 DEF BeginTxFails
  <2>2. Paired' /\ Visible' = Visible
    BY <1>5, <2>1, RecoverTogether, VisibleIsShown DEF BeginTxFails, Paired, Shown
  <2>3. \A q \in Proc \ {p} : pc[q] # "apply"
    BY <1>5, OneTransaction DEF BeginTxFails
  <2> QED
    BY <1>1, <2>1, <2>2, <2>3, EndsTogether
<1>6. CASE ApplyFails(p)
  <2>1. /\ dir' = dir /\ Ends(p, "failed", 0) /\ pc[p] = "apply"
        /\ journal # None /\ fd[p] = dir.db /\ journal.ino = dir.db
    BY <1>2, <1>6 DEF ApplyFails, Races, Paired
  <2>2. disk' = [disk EXCEPT ![dir.db] = journal.undo] /\ journal' = None
    BY <1>6, <2>1 DEF ApplyFails, Journalled
  <2>3. disk'[dir.db] = journal.undo
    BY <1>2, <2>2 DEF Overlap, TypeOK
  <2>4. Paired' /\ Visible' = Visible
    BY <1>2, <2>1, <2>2, <2>3, VisibleIsShown DEF Paired, Shown
  <2>5. \A q \in Proc \ {p} : pc[q] # "apply"
    BY <2>1, OneTransaction
  <2> QED
    BY <1>1, <2>1, <2>4, <2>5, EndsTogether
<1>7. ~WritePartFails(p) /\ ~RenameFails(p)
  BY <1>2 DEF WritePartFails, RenameFails, Races
<1> QED
  BY <1>3, <1>4, <1>5, <1>6, <1>7 DEF Fault

(* Nobody installs, nothing is published; a reader sees a change only when *)
(* a chain is committed, and then the newest release.                      *)
LEMMA NextTogether ==
    ASSUME OneManifest, Together, [Next]_vars
    PROVE  Together' /\ published' = published /\ Visible' \in {Visible, Faithful(Newest)}
<1>1. CASE UNCHANGED vars
  <2>1. Overlap'
    BY NextOverlap DEF Together
  <2>2. Paired' /\ Visible' = Visible
    BY <1>1, VisibleIsShown DEF Together, Paired, Shown, vars, files
  <2> QED
    BY <1>1, <2>1, <2>2
       DEF Together, Races, InReach, Newest, Latest, VisibleVersion, Chain, Deltas, Halfway,
           Faithful, vars, files, procs
<1>2. ~PublishBaseline /\ ~PublishDelta
  BY UpdaterAssumption DEF PublishBaseline, PublishDelta, Together
<1>3. published' = published
  BY <1>2, OnlyReleasesPublish
<1>4. ASSUME NEW p \in Proc, Step(p)
      PROVE  Together' /\ Visible' \in {Visible, Faithful(Newest)}
  <2>1. ~Install(p)
    BY DEF Install, GetBaseline, RemovePart, CreatePart, WritePart, Rename, Cleanup,
           Together, Races
  <2> QED
    BY <1>4, <2>1, ReadTogether, FetchTogether, ApplyTogether DEF Step
<1>5. ASSUME NEW p \in Proc, Fault(p)
      PROVE  Together' /\ Visible' \in {Visible, Faithful(Newest)}
  BY <1>5, FaultTogether
<1> QED
  BY <1>1, <1>2, <1>3, <1>4, <1>5 DEF Next

LEMMA AlwaysTogether ==
    ASSUME OneManifest
    PROVE  Spec => []Together
<1>1. Init => Together
  BY InitTogether
<1>2. Together /\ [Next]_vars => Together'
  BY NextTogether
<1> QED
  BY <1>1, <1>2, PTL DEF Spec

(* Updates that race from one manifest, and fail or die at any step, show  *)
(* a reader one whole release: the lock keeps their transactions apart,    *)
(* and a delta that is replayed sets rows to what they are.                *)
THEOREM RacesKeepContent ==
    ASSUME OneManifest
    PROVE  Spec => []ContentMatchesLabel
<1>1. Together => ContentMatchesLabel
  <2> SUFFICES ASSUME Together PROVE ContentMatchesLabel
    OBVIOUS
  <2>1. VisibleVersion \in 1..Newest
    BY TogetherShape DEF InReach
  <2> QED
    BY <2>1, TogetherShape DEF ContentMatchesLabel
<1> QED
  BY <1>1, AlwaysTogether, PTL

(* Each of them that reports success has brought the shard to the release  *)
(* it names, or found it there, and the others never take it away.         *)
THEOREM RacesReportTrue ==
    ASSUME OneManifest
    PROVE  Spec => []DeltaResultHonest
<1>1. Together => DeltaResultHonest
  BY DEF Together, Races, DeltaResultHonest
<1> QED
  BY <1>1, AlwaysTogether, PTL

LEMMA RaceGoes ==
    ASSUME OneManifest, Together, [Next]_vars, Visible' # Visible
    PROVE  /\ Visible' = Faithful(Newest)
           /\ VisibleVersion \in Nat /\ VisibleVersion < Newest
           /\ VisibleVersion' = Newest
<1>1. Visible' = Faithful(Newest)
  BY NextTogether
<1>2. VisibleVersion \in Nat /\ VisibleVersion <= Newest /\ VisibleVersion # Newest
  BY <1>1, TogetherShape DEF InReach
<1>3. Visible' # None /\ VisibleVersion' = Newest
  <2>1. Faithful(Newest) # None
    BY TogetherShape, UpdaterAssumption DEF Faithful, Content
  <2> QED
    BY <1>1, <2>1 DEF VisibleVersion, Faithful
<1> QED
  BY <1>1, <1>2, <1>3, TogetherShape

(* No step of any of them takes the shard back.                            *)
THEOREM RacesNeverRegress ==
    ASSUME OneManifest
    PROVE  Spec => DailyNeverRegresses
<1>1. ASSUME Together, [Next]_vars PROVE VisibleVersion' >= VisibleVersion
  <2>1. CASE Visible' # Visible
    BY <1>1, <2>1, RaceGoes, TogetherShape
  <2>2. CASE Visible' = Visible
    BY <1>1, <2>2, TogetherShape DEF VisibleVersion
  <2> QED
    BY <2>1, <2>2
<1>2. Together /\ [Next]_vars
        => [\A p \in Proc : chan[p] = "daily" /\ ~TooLong(entry[p], local[p])
                              => VisibleVersion' >= VisibleVersion]_vars
  BY <1>1
<1> QED
  BY <1>2, AlwaysTogether, PTL DEF Spec, DailyNeverRegresses

(* They implement ReleasedShard: however many run, a reader sees the shard *)
(* move forward once, in one step, to a published release.                 *)
THEOREM RacesRefine ==
    ASSUME OneManifest
    PROVE  Spec => ImplementsReleasedShard
<1>1. Init => Atomic!Init
  <2> SUFFICES ASSUME Init PROVE Atomic!Init
    OBVIOUS
  <2>1. Together
    BY InitTogether
  <2>2. PICK v \in FirstLocal, i \in Ino :
          /\ dir = [db |-> IF v = 0 THEN None ELSE i, part |-> None]
          /\ disk = [j \in Ino |-> IF v # 0 /\ j = i THEN Faithful(v) ELSE Torn]
    BY DEF Init
  <2>3. v # 0 /\ Visible = Faithful(v)
    BY <2>1, <2>2, TogetherShape, UpdaterAssumption DEF Init
  <2>4. published \in FirstReleases
    BY DEF Init
  <2> QED
    BY <2>2, <2>3, <2>4 DEF Atomic!Init, Atomic!Release, Faithful
<1>2. Together /\ [Next]_vars => [Atomic!Next]_<<published, Visible>>
  <2> SUFFICES ASSUME Together, [Next]_vars, <<published, Visible>>' # <<published, Visible>>
               PROVE  Atomic!Next
    OBVIOUS
  <2>1. published' = published
    BY NextTogether
  <2>2. /\ Visible' = Faithful(Newest) /\ Newest \in 1..Newest
        /\ VisibleVersion < Newest /\ VisibleVersion = Visible.version
    BY <2>1, RaceGoes, TogetherShape DEF VisibleVersion
  <2>3. Newest > Visible.version
    BY <2>2, TogetherShape
  <2> QED
    BY <2>1, <2>2, <2>3 DEF Newest, Faithful, Atomic!Release, Atomic!Forward, Atomic!Next
<1> QED
  BY <1>1, <1>2, AlwaysTogether, PTL DEF Spec, ImplementsReleasedShard, Atomic!Spec

=============================================================================
