----------------------- MODULE ReleasePipelineProofs -----------------------
(***************************************************************************)
(* Theorems about ReleasePipeline, for any providers, shards and numbers   *)
(* of days, when a workflow is run again with force_baseline only and the  *)
(* manifest of the previous release can be downloaded (AsDocumented).      *)
(*                                                                         *)
(* The releases of days gone by do not change any more.  What is still in  *)
(* motion is the release of the day, which a publish job may delete and    *)
(* create anew while provider runs come and go.  The invariant compares    *)
(* everything of the day with the last release before it (Past): a delta   *)
(* starts there, an untouched shard has the entry it has there, a rerun    *)
(* only ever puts a newer baseline in the place of a file.                 *)
(***************************************************************************)
EXTENDS ReleasePipeline, TLAPS

AsDocumented == Rerun \subseteq {TRUE} /\ "manifest" \notin Unreachable

(* A file of an artifact or of a release, and the rows it leads to. *)
Touched(f) == f.baseline # None \/ f.delta # None
RowsOf(f) == IF f.baseline # None THEN f.baseline ELSE f.delta.new
FileOf(a, s) == [baseline |-> a.baseline[s], delta |-> a.delta[s]]
RowsIn(rel, d, s) == RowsOf(FileOf(rel[d], s))

Fresh(d) == [baseline |-> d, head |-> d, deltas |-> <<>>]

(* All that an entry points to is there, and leads to its head: a baseline *)
(* and one delta at most, which a replaced release may list again.         *)
Supported(rel, s, e) ==
    /\ rel[e.baseline] # None /\ rel[e.baseline].baseline[s] # None
    /\ rel[e.head] # None
    /\ \/ e = Fresh(e.head)
       \/ /\ e.baseline < e.head
          /\ rel[e.head].baseline[s] = None /\ rel[e.head].delta[s] # None
          /\ rel[e.head].delta[s].from = e.baseline
          /\ rel[e.head].delta[s].to = e.head
          /\ rel[e.head].delta[s].old = rel[e.baseline].baseline[s]
          /\ e.deltas # <<>>
          /\ \A i \in DOMAIN e.deltas : e.deltas[i] = rel[e.head].delta[s]

Sound(rel, d) ==
    \A s \in Shard :
        /\ rel[d].manifest[s] # None =>
               rel[d].manifest[s].head <= d /\ Supported(rel, s, rel[d].manifest[s])
        /\ rel[d].baseline[s] # None => rel[d].manifest[s] = Fresh(d)
        /\ rel[d].state[s] # None =>
               /\ rel[d].manifest[s] # None
               /\ rel[d].state[s] <= RowsIn(rel, rel[d].manifest[s].head, s)

(* The last release before today, and what the day begins with. *)
IsPast(k) ==
    /\ k < day
    /\ k # 0 => release[k] # None
    /\ \A d \in Day : release[d] # None => d <= k \/ d = day
Past == CHOOSE k \in 0..MaxDay : IsPast(k)
Before(s) == IF Past = 0 THEN None ELSE release[Past].manifest[s]
BeforeRows(s) == RowsAt(Before(s).head, s)

(* What may be said of release a of today. *)
WithToday(a) == [release EXCEPT ![day] = a]
Stands(a) ==
    /\ Sound(WithToday(a), day)
    /\ \A s \in Shard :
           /\ a.baseline[s] = None \/ a.delta[s] = None
           /\ ~Touched(FileOf(a, s)) => a.manifest[s] = Before(s)
           /\ a.baseline[s] # None => File(s).baseline # None
           /\ a.delta[s] # None =>
                  /\ a.manifest[s] # None /\ a.manifest[s].head = day
                  /\ File(s).delta = a.delta[s] \/ File(s).baseline # None
           /\ Touched(FileOf(a, s)) => RowsOf(FileOf(a, s)) <= RowsOf(File(s))

(* Revision v of a shard is in its file of the day, or was before. *)
Backed(v, s) ==
    IF Touched(File(s)) THEN v <= RowsOf(File(s))
    ELSE Before(s) # None /\ v <= BeforeRows(s)

FileSound(s) ==
    /\ File(s).baseline = None \/ File(s).delta = None
    /\ File(s).delta # None =>
           /\ Past # 0
           /\ File(s).delta.from = Past
           /\ File(s).delta.to = day
           /\ File(s).delta.old = release[Past].baseline[s]
    /\ Touched(File(s)) =>
           /\ RowsOf(File(s)) <= upstream[s]
           /\ Before(s) # None => BeforeRows(s) <= RowsOf(File(s))

BuiltSound(p, s) ==
    /\ run[p].built[s] <= upstream[s]
    /\ Before(s) # None => BeforeRows(s) <= run[p].built[s]
    /\ Touched(File(s)) => RowsOf(File(s)) <= run[p].built[s]
    /\ run[p].state[s] # None => run[p].state[s] <= run[p].built[s]

RunSound(p) ==
    /\ ~run[p].rebuild => artifact[p] = None
    /\ run[p].previous \in {Past, day}
    /\ \A s \in Shard :
           /\ s \in run[p].due \/ run[p].built[s] # None => Owner[s] = p
           /\ run[p].rebuild /\ Owner[s] = p => s \in run[p].due \/ run[p].built[s] # None
           /\ run[p].built[s] # None => BuiltSound(p, s)
           /\ s \in run[p].due /\ run[p].state[s] # None => run[p].state[s] <= upstream[s]
           /\ s \notin run[p].due /\ run[p].built[s] = None /\ run[p].state[s] # None =>
                  Backed(run[p].state[s], s)

Typed ==
    /\ day \in Day
    /\ upstream \in [Shard -> Revision]
    /\ run \in [Provider -> Maybe(Run)]
    /\ artifact \in [Provider -> Maybe(Artifact)]
    /\ publish \in Maybe(Job)
    /\ release \in [Day -> Maybe(Assets)]
    /\ latest \in Maybe(Manifest)
    /\ mirror \in Maybe(Manifest)
    /\ replaced \in 0..MaxReplaced
    /\ lost \in BOOLEAN

Gone == Past \in 0..MaxDay /\ IsPast(Past) /\ \A d \in Day : d < day /\ release[d] # None => Sound(release, d)

JobSound ==
    publish # None =>
        /\ Stands(publish.assets)
        /\ publish.step = "recreate" => release[day] = None
        /\ publish.step \in {"drop", "latest", "mirror"} => release[day] = publish.assets

StatesBacked ==
    \A p \in Provider, s \in Shard :
        artifact[p] # None /\ artifact[p].state[s] # None => Backed(artifact[p].state[s], s)

Inv ==
    /\ Typed
    /\ Gone
    /\ release[day] # None => Stands(release[day])
    /\ JobSound
    /\ \A s \in Shard : FileSound(s)
    /\ StatesBacked
    /\ \A p \in Provider : run[p] # None => RunSound(p)
    /\ \A s \in Shard : Before(s) # None => BeforeRows(s) <= upstream[s]

-----------------------------------------------------------------------------
(* Types.                                                                  *)

LEMMA Numbers ==
    /\ Revision \subseteq Nat
    /\ None \notin Revision /\ None \notin Nat
    /\ \A s \in Shard, n \in Nat : n < MaxRevision[s] => n + 1 \in Revision
    /\ Day \subseteq Nat /\ MaxDay \in Nat
BY PipelineAssumption DEF Revision, Day

LEMMA FileTyped ==
    ASSUME Typed, NEW s \in Shard
    PROVE  File(s) \in [baseline : Maybe(Revision), delta : Maybe(Delta)]
<1>1. Owner[s] \in Provider
  BY PipelineAssumption
<1>2. CASE artifact[Owner[s]] # None
  <2>1. artifact[Owner[s]] \in Artifact
    BY <1>1, <1>2 DEF Typed, Maybe
  <2> QED
    BY <1>2, <2>1 DEF File, Artifact
<1>3. CASE artifact[Owner[s]] = None
  BY <1>3 DEF File, Untouched, Maybe
<1> QED
  BY <1>2, <1>3

LEMMA FileRows ==
    ASSUME Typed, NEW s \in Shard, Touched(File(s))
    PROVE  RowsOf(File(s)) \in Revision /\ RowsOf(File(s)) \in Nat
<1>1. File(s) \in [baseline : Maybe(Revision), delta : Maybe(Delta)]
  BY FileTyped
<1>2. RowsOf(File(s)) \in Revision
  BY <1>1 DEF Touched, RowsOf, Maybe, Delta
<1> QED
  BY <1>2, Numbers

LEMMA ReleaseTyped ==
    ASSUME Typed, NEW d \in Day, release[d] # None
    PROVE  release[d] \in Assets
BY DEF Typed, Maybe

LEMMA AssetsTyped ==
    ASSUME NEW a \in Assets, NEW s \in Shard
    PROVE  /\ a.baseline[s] \in Maybe(Revision)
           /\ a.delta[s] \in Maybe(Delta)
           /\ a.manifest[s] \in Maybe(ManifestEntry)
           /\ a.state[s] \in Maybe(Revision)
           /\ Touched(FileOf(a, s)) => RowsOf(FileOf(a, s)) \in Nat
<1>1. /\ a.baseline[s] \in Maybe(Revision)
      /\ a.delta[s] \in Maybe(Delta)
      /\ a.manifest[s] \in Maybe(ManifestEntry)
      /\ a.state[s] \in Maybe(Revision)
  BY DEF Assets, Manifest, State
<1>2. Touched(FileOf(a, s)) => RowsOf(FileOf(a, s)) \in Nat
  BY <1>1, Numbers DEF Touched, RowsOf, FileOf, Maybe, Delta
<1> QED
  BY <1>1, <1>2

LEMMA RowsAtRowsIn ==
    ASSUME NEW d, NEW s
    PROVE  RowsAt(d, s) = RowsIn(release, d, s)
BY DEF RowsAt, RowsIn, RowsOf, FileOf

(* An entry that is supported leads to rows of some revision.              *)
LEMMA SupportedRows ==
    ASSUME NEW rel \in [Day -> Maybe(Assets)], NEW s \in Shard, NEW e \in ManifestEntry,
           Supported(rel, s, e)
    PROVE  /\ e.head \in Day /\ e.baseline \in Day /\ e.baseline <= e.head
           /\ rel[e.head] \in Assets
           /\ Touched(FileOf(rel[e.head], s)) /\ RowsIn(rel, e.head, s) \in Nat
<1>1. e.head \in Day /\ e.baseline \in Day
  BY DEF ManifestEntry
<1>2. rel[e.head] \in Assets
  BY <1>1 DEF Supported, Maybe
<1>3. e.baseline <= e.head /\ Touched(FileOf(rel[e.head], s))
  <2>1. CASE e = Fresh(e.head)
    <3>1. e.baseline = e.head
      BY <2>1 DEF Fresh
    <3> QED
      BY <1>1, <3>1, Numbers DEF Supported, Touched, FileOf
  <2>2. CASE e # Fresh(e.head)
    <3>1. e.baseline < e.head /\ rel[e.head].delta[s] # None
      BY <2>2 DEF Supported
    <3>2. Touched(FileOf(rel[e.head], s))
      BY <3>1 DEF Touched, FileOf
    <3>3. e.baseline \in Nat /\ e.head \in Nat
      BY <1>1, Numbers
    <3> QED
      BY <3>1, <3>2, <3>3
  <2> QED
    BY <2>1, <2>2
<1> QED
  BY <1>1, <1>2, <1>3, AssetsTyped DEF RowsIn

-----------------------------------------------------------------------------
(* The days gone by.                                                       *)

LEMMA PastUnique ==
    ASSUME NEW j \in 0..MaxDay, NEW k \in 0..MaxDay, IsPast(j), IsPast(k), day \in Day
    PROVE  j = k
BY Numbers DEF IsPast, Day

LEMMA PastIs ==
    ASSUME NEW k \in 0..MaxDay, IsPast(k), day \in Day
    PROVE  Past = k
BY PastUnique DEF Past

(* Entries are of days up to the release they are in, so what it says does *)
(* not depend on later days.                                               *)
LEMMA SoundLocal ==
    ASSUME NEW rel \in [Day -> Maybe(Assets)], NEW new \in [Day -> Maybe(Assets)],
           NEW d \in Day, rel[d] # None,
           \A k \in Day : k <= d => new[k] = rel[k],
           Sound(rel, d)
    PROVE  Sound(new, d)
<1> SUFFICES ASSUME NEW s \in Shard
             PROVE  /\ new[d].manifest[s] # None =>
                          new[d].manifest[s].head <= d /\ Supported(new, s, new[d].manifest[s])
                    /\ new[d].baseline[s] # None => new[d].manifest[s] = Fresh(d)
                    /\ new[d].state[s] # None =>
                          /\ new[d].manifest[s] # None
                          /\ new[d].state[s] <= RowsIn(new, new[d].manifest[s].head, s)
  BY DEF Sound
<1> DEFINE e == rel[d].manifest[s]
<1>1. new[d] = rel[d] /\ d \in Nat
  BY Numbers
<1>2. CASE e = None
  BY <1>1, <1>2 DEF Sound
<1>3. CASE e # None
  <2>1. e \in ManifestEntry
    BY <1>3, AssetsTyped DEF Maybe
  <2>2. e.head <= d /\ Supported(rel, s, e)
    BY <1>3 DEF Sound
  <2>3. e.head \in Day /\ e.baseline \in Day /\ e.baseline <= e.head
    BY <2>1, <2>2, SupportedRows
  <2>4. new[e.head] = rel[e.head] /\ new[e.baseline] = rel[e.baseline]
    BY <2>2, <2>3, Numbers
  <2>5. Supported(new, s, e)
    BY <2>2, <2>4 DEF Supported
  <2>6. RowsIn(new, e.head, s) = RowsIn(rel, e.head, s)
    BY <2>4 DEF RowsIn
  <2> QED
    BY <1>1, <2>2, <2>5, <2>6 DEF Sound
<1> QED
  BY <1>2, <1>3

(* What the day begins with.                                               *)
LEMMA BeforeTyped ==
    ASSUME Typed, Gone, NEW s \in Shard
    PROVE  /\ Past # 0 => Past \in Day /\ release[Past] \in Assets /\ Sound(release, Past)
           /\ Before(s) # None =>
                  /\ Past # 0 /\ Before(s) = release[Past].manifest[s]
                  /\ Before(s) \in ManifestEntry
                  /\ Before(s).head <= Past
                  /\ Supported(release, s, Before(s))
                  /\ BeforeRows(s) \in Nat
<1>1. Past # 0 => Past \in Day /\ release[Past] \in Assets /\ Sound(release, Past)
  BY Numbers, ReleaseTyped DEF Gone, IsPast, Day, Typed
<1>2. ASSUME Before(s) # None
      PROVE  /\ Past # 0 /\ Before(s) = release[Past].manifest[s]
             /\ Before(s) \in ManifestEntry
             /\ Before(s).head <= Past
             /\ Supported(release, s, Before(s))
  <2>1. Past # 0 /\ Before(s) = release[Past].manifest[s]
    BY <1>2 DEF Before
  <2> QED
    BY <1>1, <1>2, <2>1, AssetsTyped DEF Maybe, Sound
<1>3. Before(s) # None => BeforeRows(s) \in Nat
  BY <1>2, SupportedRows, RowsAtRowsIn DEF BeforeRows, Typed
<1> QED
  BY <1>1, <1>2, <1>3

(* Whatever happens to the release of the day, the past stays.             *)
LEMMA PastStays ==
    ASSUME Typed, Gone, day' = day,
           release' \in [Day -> Maybe(Assets)],
           \A d \in Day : d # day => release'[d] = release[d]
    PROVE  /\ Past' = Past /\ Gone'
           /\ \A s \in Shard :
                 /\ Before(s)' = Before(s)
                 /\ Before(s) # None => BeforeRows(s)' = BeforeRows(s)
<1>1. day \in Day /\ day \in Nat
  BY Numbers DEF Typed
<1>2. Past \in 0..MaxDay /\ IsPast(Past)
  BY DEF Gone
<1>3. ASSUME NEW k \in 0..MaxDay PROVE IsPast(k)' <=> IsPast(k)
  BY <1>1, Numbers DEF IsPast, Day
<1>4. Past' = Past
  BY <1>3 DEF Past
<1>5. ASSUME NEW d \in Day, d < day, release[d] # None PROVE Sound(release', d)
  <2>1. Sound(release, d)
    BY <1>5 DEF Gone
  <2>2. \A k \in Day : k <= d => release'[k] = release[k]
    BY <1>1, <1>5, Numbers
  <2> QED
    BY <1>5, <2>1, <2>2, SoundLocal DEF Typed
<1>6. Gone'
  <2>1. IsPast(Past)'
    BY <1>2, <1>3, <1>4
  <2>2. \A d \in Day : d < day /\ release'[d] # None => Sound(release', d)
    BY <1>1, <1>5, Numbers
  <2> QED
    BY <1>2, <1>4, <2>1, <2>2 DEF Gone
<1>7. ASSUME NEW s \in Shard
      PROVE  /\ Before(s)' = Before(s)
             /\ Before(s) # None => BeforeRows(s)' = BeforeRows(s)
  <2>1. Past # 0 => release'[Past] = release[Past]
    BY <1>1, <1>2, Numbers DEF IsPast, Day
  <2>2. Before(s)' = Before(s)
    BY <1>4, <2>1 DEF Before
  <2>3. ASSUME Before(s) # None PROVE BeforeRows(s)' = BeforeRows(s)
    <3>1. Before(s).head \in Day /\ Before(s).head <= Past
      BY <2>3, BeforeTyped DEF ManifestEntry
    <3>2. Before(s).head \in Nat
      BY <3>1, Numbers
    <3>3. Past < day /\ Past \in Nat
      BY <1>2 DEF IsPast
    <3>4. release'[Before(s).head] = release[Before(s).head]
      BY <1>1, <3>1, <3>2, <3>3
    <3> QED
      BY <2>2, <3>4 DEF BeforeRows, RowsAt
  <2> QED
    BY <2>2, <2>3
<1> QED
  BY <1>4, <1>6, <1>7

LEMMA NewestIs ==
    ASSUME Typed, Gone
    PROVE  Newest = IF release[day] # None THEN day ELSE Past
<1>1. day \in Day /\ day \in Nat /\ Past \in Nat /\ IsPast(Past)
  BY Numbers DEF Typed, Gone
<1>2. CASE release[day] # None
  <2>1. day \in Released /\ \A e \in Released : e <= day
    BY <1>1, <1>2, Numbers DEF Released, IsPast
  <2>2. \A d \in Released : (\A e \in Released : e <= d) => d = day
    BY <1>1, <2>1, Numbers DEF Released
  <2> QED
    BY <1>2, <2>1, <2>2 DEF Newest
<1>3. CASE release[day] = None /\ Past # 0
  <2>1. Past \in Released /\ \A e \in Released : e <= Past
    BY <1>1, <1>3, Numbers DEF Released, IsPast, Gone, Day
  <2>2. \A d \in Released : (\A e \in Released : e <= d) => d = Past
    BY <1>1, <2>1, Numbers DEF Released
  <2> QED
    BY <1>3, <2>1, <2>2 DEF Newest
<1>4. CASE release[day] = None /\ Past = 0
  <2>1. Released = {}
    BY <1>1, <1>4, Numbers DEF Released, IsPast, Day
  <2> QED
    BY <1>4, <2>1 DEF Newest
<1> QED
  BY <1>2, <1>3, <1>4

-----------------------------------------------------------------------------
(* What a file of the day is worth.                                        *)

LEMMA BackedBelow ==
    ASSUME Inv, NEW s \in Shard, NEW v \in Nat
    PROVE  /\ Before(s) # None /\ v <= BeforeRows(s) => Backed(v, s)
           /\ Backed(v, s) => v <= upstream[s]
<1>1. upstream[s] \in Nat /\ FileSound(s) /\ (Before(s) # None => BeforeRows(s) <= upstream[s])
  BY Numbers DEF Inv, Typed
<1>2. Touched(File(s)) => RowsOf(File(s)) \in Nat
  BY FileRows DEF Inv
<1>3. Before(s) # None => BeforeRows(s) \in Nat
  BY BeforeTyped DEF Inv
<1>4. ASSUME Before(s) # None, v <= BeforeRows(s) PROVE Backed(v, s)
  BY <1>1, <1>2, <1>3, <1>4 DEF Backed, FileSound
<1>5. ASSUME Backed(v, s) PROVE v <= upstream[s]
  BY <1>1, <1>2, <1>3, <1>5 DEF Backed, FileSound
<1> QED
  BY <1>4, <1>5

LEMMA WithTodayIs ==
    ASSUME Typed, NEW a \in Assets
    PROVE  /\ WithToday(a) \in [Day -> Maybe(Assets)]
           /\ WithToday(a)[day] = a
           /\ \A d \in Day : d # day => WithToday(a)[d] = release[d]
           /\ a # None
           /\ release[day] = a => WithToday(a) = release
BY NoneIsNoFile DEF Typed, WithToday, Maybe

(* The head of an entry that may be published is rows the day has.         *)
LEMMA Standing ==
    ASSUME Inv, NEW a \in Assets, Stands(a), NEW s \in Shard, a.manifest[s] # None
    PROVE  /\ RowsIn(WithToday(a), a.manifest[s].head, s) \in Nat
           /\ Backed(RowsIn(WithToday(a), a.manifest[s].head, s), s)
<1> DEFINE e == a.manifest[s]
           rel == WithToday(a)
<1>1. rel \in [Day -> Maybe(Assets)] /\ rel[day] = a /\ a # None
      /\ \A d \in Day : d # day => rel[d] = release[d]
  BY WithTodayIs DEF Inv
<1>2. day \in Day /\ day \in Nat
  BY Numbers DEF Inv, Typed
<1>3. e \in ManifestEntry /\ Supported(rel, s, e)
  BY <1>1, AssetsTyped DEF Stands, Sound, Maybe
<1>4. RowsIn(rel, e.head, s) \in Nat
  BY <1>1, <1>3, SupportedRows
<1>5. CASE Touched(FileOf(a, s))
  <2>1. e.head = day
    <3>1. a.baseline[s] # None => e = Fresh(day)
      BY <1>1 DEF Stands, Sound
    <3>2. a.delta[s] # None => e.head = day
      BY DEF Stands
    <3> QED
      BY <1>5, <3>1, <3>2 DEF Touched, FileOf, Fresh
  <2>2. RowsIn(rel, e.head, s) = RowsOf(FileOf(a, s))
    BY <1>1, <2>1 DEF RowsIn
  <2>3. Touched(File(s)) /\ RowsOf(FileOf(a, s)) <= RowsOf(File(s))
    BY <1>5, NoneIsNoFile, AssetsTyped DEF Stands, Touched, FileOf, Maybe
  <2> QED
    BY <1>4, <2>2, <2>3 DEF Backed
<1>6. CASE ~Touched(FileOf(a, s))
  <2>1. e = Before(s)
    BY <1>6 DEF Stands
  <2>2. Before(s) # None /\ Before(s).head <= Past /\ Before(s).head \in Day
    BY <2>1, <1>3, BeforeTyped DEF Inv, ManifestEntry
  <2>3. Past \in Nat /\ Past < day /\ Before(s).head \in Nat
    BY <2>2, Numbers DEF Inv, Gone, IsPast
  <2>4. rel[Before(s).head] = release[Before(s).head]
    BY <1>1, <1>2, <2>2, <2>3
  <2>5. RowsIn(rel, e.head, s) = BeforeRows(s)
    BY <2>1, <2>4, RowsAtRowsIn DEF BeforeRows, RowsIn
  <2> QED
    BY <1>4, <2>2, <2>5, BackedBelow
<1> QED
  BY <1>4, <1>5, <1>6

-----------------------------------------------------------------------------
(* The steps, from those that touch nothing the invariant compares.        *)

LEMMA InitInv ==
    ASSUME Init
    PROVE  Inv
<1>1. 1 \in Day /\ 1 \in Nat
  BY PipelineAssumption DEF Day
<1>2. \A s \in Shard : 1 \in Revision
  BY PipelineAssumption DEF Revision
<1>3. Typed
  <2>1. day \in Day /\ upstream \in [Shard -> Revision] /\ replaced \in 0..MaxReplaced
    BY <1>1, <1>2, PipelineAssumption DEF Init
  <2> QED
    BY <2>1 DEF Init, Typed, Maybe
<1>4. 0 \in 0..MaxDay /\ IsPast(0)
  BY <1>1, PipelineAssumption DEF Init, IsPast, Day
<1>5. Past = 0
  BY <1>1, <1>4, PastIs DEF Init
<1>6. Gone
  BY <1>4, <1>5, Numbers DEF Gone, Init
<1>7. \A s \in Shard : File(s) = Untouched /\ Before(s) = None
  BY <1>5, PipelineAssumption DEF Init, File, Before
<1>8. \A s \in Shard : FileSound(s)
  BY <1>7 DEF FileSound, Untouched, Touched
<1> QED
  BY <1>1, <1>3, <1>6, <1>7, <1>8 DEF Inv, JobSound, StatesBacked, Init

(* Whatever leaves the release of the day, the files and the past alone. *)
LEMMA StandsStays ==
    ASSUME Typed, Gone, day' = day, artifact' = artifact,
           release' \in [Day -> Maybe(Assets)],
           \A d \in Day : d # day => release'[d] = release[d],
           NEW a
    PROVE  Stands(a)' = Stands(a)
<1>1. WithToday(a)' = WithToday(a)
  BY DEF WithToday, Typed
<1>2. \A s \in Shard : Before(s)' = Before(s)
  BY PastStays
<1>3. \A s \in Shard : File(s)' = File(s)
  BY DEF File
<1> QED
  BY <1>1, <1>2, <1>3 DEF Stands

(* A step of the publish job, on the release of the day or beside it.      *)
LEMMA JobSteps ==
    ASSUME Inv, UNCHANGED <<day, upstream, run, artifact>>,
           release' \in [Day -> Maybe(Assets)],
           \A d \in Day : d # day => release'[d] = release[d],
           Typed', release'[day] # None => Stands(release'[day]),
           publish' # None =>
              /\ Stands(publish'.assets)
              /\ publish'.step = "recreate" => release'[day] = None
              /\ publish'.step \in {"drop", "latest", "mirror"} => release'[day] = publish'.assets
    PROVE  Inv'
<1>1. /\ Past' = Past /\ Gone'
      /\ \A s \in Shard :
            /\ Before(s)' = Before(s)
            /\ Before(s) # None => BeforeRows(s)' = BeforeRows(s)
  BY PastStays DEF Inv
<1>2. \A a : Stands(a)' = Stands(a)
  BY StandsStays DEF Inv
<1>3. \A s \in Shard : File(s)' = File(s)
  BY DEF File
<1>4. Past # 0 => release'[Past] = release[Past]
  BY Numbers DEF Inv, Gone, IsPast, Day
<1>5. ASSUME NEW s \in Shard PROVE FileSound(s)'
  <2>1. FileSound(s)
    BY DEF Inv
  <2> QED
    BY <1>1, <1>3, <1>4, <2>1 DEF FileSound
<1>6. \A v : \A s \in Shard : Backed(v, s)' = Backed(v, s)
  BY <1>1, <1>3 DEF Backed
<1>7. ASSUME NEW p \in Provider, run[p] # None PROVE RunSound(p)'
  <2>1. RunSound(p)
    BY <1>7 DEF Inv
  <2>2. \A s \in Shard : BuiltSound(p, s)' = BuiltSound(p, s)
    BY <1>1, <1>3 DEF BuiltSound
  <2> QED
    BY <1>1, <1>6, <2>1, <2>2 DEF RunSound
<1>8. StatesBacked'
  BY <1>6 DEF Inv, StatesBacked
<1>9. JobSound' /\ (release[day] # None => Stands(release[day]))'
  BY <1>2 DEF JobSound
<1> QED
  BY <1>1, <1>5, <1>7, <1>8, <1>9 DEF Inv

LEMMA PublishInv ==
    ASSUME Inv, DeleteRelease \/ CreateRelease \/ DropLatest \/ CreateLatest \/ PushMirror
                \/ PublishDies \/ ClientUpdate
    PROVE  Inv'
<1>1. Typed /\ day \in Day /\ JobSound /\ (release[day] # None => Stands(release[day]))
  BY DEF Inv, Typed
<1>2. publish # None => publish \in Job /\ publish.assets \in Assets
  BY <1>1 DEF Typed, Maybe, Job
<1>3. CASE DeleteRelease
  <2>1. /\ release' \in [Day -> Maybe(Assets)] /\ release'[day] = None
        /\ \A d \in Day : d # day => release'[d] = release[d]
    BY <1>1, <1>3 DEF DeleteRelease, Typed, Maybe
  <2>2. publish' \in Job /\ publish'.assets = publish.assets /\ publish'.step = "recreate"
    BY <1>2, <1>3 DEF DeleteRelease, Job
  <2>3. replaced' \in 0..MaxReplaced
    BY <1>1, <1>3, PipelineAssumption DEF DeleteRelease, Typed
  <2>4. Typed'
    BY <1>1, <1>3, <2>1, <2>2, <2>3 DEF DeleteRelease, Typed, Maybe
  <2> QED
    BY <1>1, <1>3, <2>1, <2>2, <2>4, JobSteps DEF DeleteRelease, JobSound
<1>4. CASE CreateRelease
  <2>1. /\ release' \in [Day -> Maybe(Assets)] /\ release'[day] = publish.assets
        /\ \A d \in Day : d # day => release'[d] = release[d]
    BY <1>1, <1>2, <1>4 DEF CreateRelease, Typed, Maybe
  <2>2. publish' \in Job /\ publish'.assets = publish.assets /\ publish'.step = "drop"
    BY <1>2, <1>4 DEF CreateRelease, Job
  <2>3. Typed'
    BY <1>1, <1>4, <2>1, <2>2 DEF CreateRelease, Typed, Maybe
  <2> QED
    BY <1>1, <1>4, <2>1, <2>2, <2>3, JobSteps DEF CreateRelease, JobSound
<1>5. CASE DropLatest \/ CreateLatest
  <2>1. publish # None /\ publish.step \in {"drop", "latest"} /\ release' = release
    BY <1>5 DEF DropLatest, CreateLatest
  <2>2. /\ publish' \in Job /\ publish'.assets = publish.assets
        /\ publish'.step \in {"latest", "mirror"}
    BY <1>2, <1>5 DEF DropLatest, CreateLatest, Job
  <2>3. latest' \in Maybe(Manifest)
    BY <1>2, <1>5 DEF DropLatest, CreateLatest, Maybe, Assets
  <2>4. Typed'
    BY <1>1, <1>5, <2>2, <2>3 DEF DropLatest, CreateLatest, Typed, Maybe
  <2>5. UNCHANGED <<day, upstream, run, artifact>>
    BY <1>5 DEF DropLatest, CreateLatest
  <2> QED
    BY <1>1, <2>1, <2>2, <2>4, <2>5, JobSteps DEF Typed, JobSound
<1>6. CASE PushMirror \/ PublishDies \/ ClientUpdate
  <2>1. /\ UNCHANGED <<day, upstream, run, artifact>> /\ release' = release
        /\ publish' = None \/ publish' = publish
    BY <1>6 DEF PushMirror, PublishDies, ClientUpdate
  <2>2. mirror' \in Maybe(Manifest) /\ lost' \in BOOLEAN
    BY <1>1, <1>2, <1>6 DEF PushMirror, PublishDies, ClientUpdate, Typed, Maybe, Assets
  <2>3. Typed'
    BY <1>1, <1>6, <2>1, <2>2 DEF PushMirror, PublishDies, ClientUpdate, Typed, Maybe
  <2> QED
    BY <1>1, <2>1, <2>3, JobSteps DEF Typed, JobSound
<1> QED
  BY <1>3, <1>4, <1>5, <1>6

LEMMA UpstreamChangesInv ==
    ASSUME Inv, NEW t \in Shard, UpstreamChanges(t)
    PROVE  Inv'
<1>1. UNCHANGED <<day, run, artifact, publish, release, latest, mirror, replaced, lost>>
  BY DEF UpstreamChanges
<1>2. upstream' \in [Shard -> Revision] /\ \A s \in Shard : upstream[s] <= upstream'[s]
  <2>1. upstream \in [Shard -> Revision] /\ \A s \in Shard : upstream[s] \in Nat
    BY Numbers DEF Inv, Typed
  <2>2. upstream[t] + 1 \in Revision /\ upstream' = [upstream EXCEPT ![t] = @ + 1]
    BY <2>1, Numbers DEF UpstreamChanges
  <2> QED
    BY <2>1, <2>2
<1>3. Typed'
  BY <1>1, <1>2 DEF Inv, Typed
<1>4. /\ Past' = Past /\ Gone'
      /\ \A s \in Shard :
            /\ Before(s)' = Before(s)
            /\ Before(s) # None => BeforeRows(s)' = BeforeRows(s)
  BY <1>1, PastStays DEF Inv, Typed
<1>5. \A s \in Shard : File(s)' = File(s)
  BY <1>1 DEF File
<1>6. \A a : Stands(a)' = Stands(a)
  BY <1>1, StandsStays DEF Inv, Typed
<1>7. \A v : \A s \in Shard : Backed(v, s)' = Backed(v, s)
  BY <1>4, <1>5 DEF Backed
<1>8. ASSUME NEW s \in Shard
      PROVE FileSound(s)' /\ (Before(s)' # None => BeforeRows(s)' <= upstream'[s])
  <2>1. FileSound(s) /\ (Before(s) # None => BeforeRows(s) <= upstream[s])
    BY DEF Inv
  <2>2. upstream[s] \in Nat /\ upstream'[s] \in Nat /\ upstream[s] <= upstream'[s]
    BY <1>2, Numbers DEF Inv, Typed
  <2>3. Touched(File(s)) => RowsOf(File(s)) \in Nat
    BY FileRows DEF Inv
  <2>4. Before(s) # None => BeforeRows(s) \in Nat
    BY BeforeTyped DEF Inv
  <2>5. Touched(File(s)) => RowsOf(File(s)) <= upstream'[s]
    BY <2>1, <2>2, <2>3 DEF FileSound
  <2>6. Before(s) # None => BeforeRows(s) <= upstream'[s]
    BY <2>1, <2>2, <2>4
  <2> QED
    BY <1>1, <1>4, <1>5, <2>1, <2>5, <2>6 DEF FileSound
<1>9. ASSUME NEW p \in Provider, run[p] # None PROVE RunSound(p)'
  <2>1. RunSound(p) /\ run[p] \in Run
    BY <1>9 DEF Inv, Typed, Maybe
  <2>2. ASSUME NEW s \in Shard
        PROVE  /\ run[p].built[s] # None => BuiltSound(p, s)'
               /\ s \in run[p].due /\ run[p].state[s] # None => run[p].state[s] <= upstream'[s]
    <3>1. upstream[s] \in Nat /\ upstream'[s] \in Nat /\ upstream[s] <= upstream'[s]
      BY <1>2, Numbers DEF Inv, Typed
    <3>2. run[p].built[s] \in Maybe(Revision) /\ run[p].state[s] \in Maybe(Revision)
      BY <2>1 DEF Run, State
    <3>3. run[p].built[s] # None => run[p].built[s] \in Nat /\ run[p].built[s] <= upstream[s]
      BY <2>1, <3>2, Numbers DEF RunSound, BuiltSound, Maybe
    <3>4. run[p].built[s] # None => run[p].built[s] <= upstream'[s]
      BY <3>1, <3>3
    <3>5. run[p].built[s] # None => BuiltSound(p, s)'
      BY <1>1, <1>4, <1>5, <2>1, <3>4 DEF RunSound, BuiltSound
    <3>6. run[p].state[s] # None => run[p].state[s] \in Nat
      BY <3>2, Numbers DEF Maybe
    <3>7. s \in run[p].due /\ run[p].state[s] # None => run[p].state[s] <= upstream'[s]
      BY <2>1, <3>1, <3>6 DEF RunSound
    <3> QED
      BY <3>5, <3>7
  <2> QED
    BY <1>1, <1>4, <1>7, <2>1, <2>2 DEF RunSound
<1>10. StatesBacked' /\ JobSound' /\ (release[day] # None => Stands(release[day]))'
  BY <1>1, <1>6, <1>7 DEF Inv, StatesBacked, JobSound
<1> QED
  BY <1>1, <1>3, <1>4, <1>8, <1>9, <1>10 DEF Inv

LEMMA NewDayInv ==
    ASSUME Inv, NewDay
    PROVE  Inv'
<1>1. /\ day < MaxDay /\ day' = day + 1 /\ publish = None
      /\ UNCHANGED <<upstream, publish, release, latest, mirror, replaced, lost>>
      /\ run' = [p \in Provider |-> None] /\ artifact' = [p \in Provider |-> None]
  BY DEF NewDay
<1>2. day \in Day /\ day \in Nat /\ day' \in Day /\ day' \in Nat
  BY <1>1, PipelineAssumption DEF Inv, Typed, Day
<1>3. Typed'
  BY <1>1, <1>2 DEF Inv, Typed, Maybe
<1>4. PICK k \in 0..MaxDay : /\ k = (IF release[day] # None THEN day ELSE Past)
                              /\ k \in Nat /\ k <= day /\ Past < day
  BY <1>2, Numbers DEF Inv, Gone, IsPast, Day
<1>5. IsPast(k)'
  <2>1. /\ Past # 0 => release[Past] # None
        /\ \A d \in Day : release[d] # None => d <= Past \/ d = day
    BY DEF Inv, Gone, IsPast
  <2>2. k < day'
    <3>1. k \in Nat /\ k <= day
      BY <1>4
    <3> HIDE <1>4
    <3> QED
      BY <1>1, <1>2, <3>1
  <2>3. k # 0 => release'[k] # None
    BY <1>1, <1>4, <2>1
  <2>4. ASSUME NEW d \in Day, release'[d] # None PROVE d <= k \/ d = day'
    <3>1. d \in Nat /\ Past \in Nat
      BY Numbers DEF Inv, Gone
    <3> QED
      BY <1>1, <1>2, <1>4, <2>1, <2>4, <3>1, Numbers
  <2> QED
    BY <2>2, <2>3, <2>4 DEF IsPast
<1>6. Past' = k
  <2>1. ASSUME NEW j \in 0..MaxDay, IsPast(j)' PROVE j = k
    <3>1. /\ j < day' /\ (j # 0 => release[j] # None)
          /\ \A d \in Day : release[d] # None => d <= j \/ d = day'
      BY <1>1, <2>1 DEF IsPast
    <3>2. /\ k < day' /\ (k # 0 => release[k] # None)
          /\ \A d \in Day : release[d] # None => d <= k \/ d = day'
      BY <1>1, <1>5 DEF IsPast
    <3>3. (j # 0 => j \in Day) /\ (k # 0 => k \in Day)
      BY <1>4, Numbers DEF Day
    <3> QED
      BY <1>2, <1>4, <2>1, <3>1, <3>2, <3>3, Numbers
  <2>2. \A j \in 0..MaxDay : IsPast(j)' <=> j = k
    BY <1>4, <1>5, <2>1
  <2> QED
    BY <1>4, <2>2 DEF Past
<1>7. release[day] # None => Sound(release, day) /\ Stands(release[day])
  BY WithTodayIs, ReleaseTyped, <1>2 DEF Inv, Stands
<1>8. Gone'
  <2>1. \A d \in Day : d < day' => d < day \/ d = day
    BY <1>1, <1>2, Numbers
  <2>2. \A d \in Day : d < day' /\ release[d] # None => Sound(release, d)
    BY <1>7, <2>1 DEF Inv, Gone
  <2>3. Past' \in 0..MaxDay /\ IsPast(Past)'
    BY <1>4, <1>5, <1>6
  <2> QED
    BY <1>1, <2>2, <2>3 DEF Gone
<1>9. ASSUME NEW s \in Shard
      PROVE  /\ File(s)' = Untouched
             /\ Before(s)' # None => BeforeRows(s)' <= upstream[s]
  <2>1. File(s)' = Untouched
    BY <1>1, PipelineAssumption DEF File
  <2>2. CASE release[day] # None
    <3> DEFINE a == release[day]
    <3>1. Before(s)' = a.manifest[s]
      BY <1>1, <1>2, <1>4, <1>6, <2>2, Numbers, PipelineAssumption DEF Before, Day
    <3>2. ASSUME a.manifest[s] # None PROVE RowsIn(release, a.manifest[s].head, s) <= upstream[s]
      <4>1. a \in Assets /\ WithToday(a) = release
        BY <1>2, <2>2, ReleaseTyped, WithTodayIs DEF Inv
      <4>2. /\ RowsIn(release, a.manifest[s].head, s) \in Nat
            /\ Backed(RowsIn(release, a.manifest[s].head, s), s)
        BY <1>7, <2>2, <3>2, <4>1, Standing
      <4> QED
        BY <4>2, BackedBelow
    <3> QED
      BY <1>1, <2>1, <3>1, <3>2 DEF BeforeRows, RowsAt, RowsIn, RowsOf, FileOf
  <2>3. CASE release[day] = None
    <3>1. Before(s)' = Before(s)
      BY <1>1, <1>4, <1>6, <2>3 DEF Before
    <3> QED
      BY <1>1, <2>1, <3>1 DEF BeforeRows, RowsAt, Inv
  <2> QED
    BY <2>2, <2>3
<1>10. \A s \in Shard : FileSound(s)'
  BY <1>9 DEF FileSound, Untouched, Touched
<1>11. release'[day'] = None
  <2>1. \A d \in Day : release[d] # None => d <= Past \/ d = day
    BY DEF Inv, Gone, IsPast
  <2> QED
    BY <1>1, <1>2, <1>4, <2>1, Numbers DEF Inv, Gone
<1> QED
  BY <1>1, <1>3, <1>8, <1>9, <1>10, <1>11 DEF Inv, JobSound, StatesBacked

(* A provider run goes on by itself.                                       *)
LEMMA RunSteps ==
    ASSUME Inv, NEW p \in Provider, NEW r \in Maybe(Run), run' = [run EXCEPT ![p] = r],
           UNCHANGED <<day, upstream, artifact, publish, release, latest, mirror, replaced, lost>>,
           r # None => RunSound(p)'
    PROVE  Inv'
<1>1. Typed'
  BY DEF Inv, Typed, Maybe
<1>2. Past' = Past /\ Gone' /\ \A s \in Shard : Before(s)' = Before(s)
  BY PastStays DEF Inv, Typed
<1>3. \A s \in Shard : BeforeRows(s)' = BeforeRows(s)
  BY <1>2 DEF BeforeRows, RowsAt
<1>4. \A s \in Shard : File(s)' = File(s)
  BY DEF File
<1>5. \A a : Stands(a)' = Stands(a)
  BY StandsStays DEF Inv, Typed
<1>6. \A v : \A s \in Shard : Backed(v, s)' = Backed(v, s)
  BY <1>2, <1>3, <1>4 DEF Backed
<1>7. \A s \in Shard : FileSound(s)'
  BY <1>2, <1>3, <1>4 DEF Inv, FileSound
<1>8. ASSUME NEW q \in Provider, run'[q] # None PROVE RunSound(q)'
  <2>1. CASE q = p
    BY <1>8, <2>1 DEF Inv, Typed
  <2>2. CASE q # p
    <3>1. run'[q] = run[q] /\ RunSound(q)
      BY <1>8, <2>2 DEF Inv, Typed
    <3>2. \A s \in Shard : BuiltSound(q, s)' = BuiltSound(q, s)
      BY <1>2, <1>3, <1>4, <3>1 DEF BuiltSound
    <3> QED
      BY <1>2, <1>6, <3>1, <3>2 DEF RunSound
  <2> QED
    BY <2>1, <2>2
<1>9. StatesBacked' /\ JobSound' /\ (release[day] # None => Stands(release[day]))'
  BY <1>5, <1>6 DEF Inv, StatesBacked, JobSound
<1> QED
  BY <1>1, <1>2, <1>3, <1>7, <1>8, <1>9 DEF Inv

LEMMA RunFailsInv ==
    ASSUME Inv, NEW p \in Provider, RunFails(p)
    PROVE  Inv'
BY RunSteps DEF RunFails, Maybe

(* The indicators of the newest release are those of rows the day has.     *)
LEMMA NewestBacked ==
    ASSUME Inv, Newest # 0, NEW s \in Shard, release[Newest].state[s] # None
    PROVE  /\ release[Newest].state[s] \in Nat
           /\ Backed(release[Newest].state[s], s)
<1>1. Newest = IF release[day] # None THEN day ELSE Past
  BY NewestIs DEF Inv
<1>2. Newest \in Day /\ release[Newest] \in Assets
  BY <1>1, BeforeTyped, ReleaseTyped DEF Inv, Typed
<1> DEFINE v == release[Newest].state[s]
<1>3. v \in Nat
  BY <1>2, AssetsTyped, Numbers DEF Maybe
<1>4. CASE release[day] # None
  <2> DEFINE a == release[day]
             n == RowsIn(release, a.manifest[s].head, s)
  <2>1. Newest = day /\ a \in Assets /\ Stands(a) /\ WithToday(a) = release
    BY <1>1, <1>2, <1>4, WithTodayIs DEF Inv
  <2>2. a.manifest[s] # None /\ v <= n
    BY <2>1 DEF Stands, Sound
  <2>3. n \in Nat /\ Backed(n, s)
    BY <2>1, <2>2, Standing
  <2>4. Before(s) # None => BeforeRows(s) \in Nat
    BY BeforeTyped DEF Inv
  <2>5. Touched(File(s)) => RowsOf(File(s)) \in Nat
    BY FileRows DEF Inv
  <2>6. Backed(v, s)
    BY <1>3, <2>2, <2>3, <2>4, <2>5 DEF Backed
  <2> QED
    BY <1>3, <2>6
<1>5. CASE release[day] = None
  <2>1. Newest = Past /\ Past # 0 /\ Sound(release, Past) /\ Before(s) = release[Past].manifest[s]
    BY <1>1, <1>5, BeforeTyped DEF Inv, Before
  <2>2. Before(s) # None /\ v <= BeforeRows(s)
    BY <2>1, RowsAtRowsIn DEF Sound, BeforeRows
  <2> QED
    BY <1>3, <2>2, BackedBelow
<1> QED
  BY <1>4, <1>5

LEMMA DiscoverInv ==
    ASSUME AsDocumented, Inv, NEW p \in Provider, NEW force \in BOOLEAN, Discover(p, force)
    PROVE  Inv'
<1>1. run[p] = None /\ (artifact[p] # None => force)
  BY DEF Discover, AsDocumented
<1>2. UNCHANGED <<day, upstream, artifact, publish, release, latest, mirror, replaced, lost>>
  BY DEF Discover
<1>3. PICK old \in Fetched("state", Newest, Nothing) :
          LET rebuild == force \/ old = Nothing
              changed == {s \in Shard : Owner[s] = p /\ (rebuild \/ upstream[s] # old[s])}
          IN  run' = [run EXCEPT ![p] =
                 [previous |-> Newest, rebuild |-> rebuild,
                  state |-> [s \in Shard |-> IF Owner[s] = p THEN upstream[s] ELSE old[s]],
                  due |-> changed, built |-> Nothing]]
  BY DEF Discover
<1> DEFINE rebuild == force \/ old = Nothing
           changed == {s \in Shard : Owner[s] = p /\ (rebuild \/ upstream[s] # old[s])}
           seen == [s \in Shard |-> IF Owner[s] = p THEN upstream[s] ELSE old[s]]
<1>0. PICK r : r = [previous |-> Newest, rebuild |-> rebuild, state |-> seen,
                    due |-> changed, built |-> Nothing]
  OBVIOUS
<1>4. Newest = (IF release[day] # None THEN day ELSE Past) /\ Newest \in 0..MaxDay
  BY NewestIs, Numbers DEF Inv, Typed, Gone, Day
<1>5. Newest # 0 => Newest \in Day /\ release[Newest] \in Assets
  <2>1. day \in Day /\ (release[day] # None => release[day] \in Assets)
    BY ReleaseTyped DEF Inv, Typed
  <2>2. Past # 0 => Past \in Day /\ release[Past] \in Assets
    <3>1. \A s \in Shard : Past # 0 => Past \in Day /\ release[Past] \in Assets
      BY BeforeTyped DEF Inv
    <3> QED
      BY <3>1, PipelineAssumption
  <2> QED
    BY <1>4, <2>1, <2>2
<1>6. old # Nothing => Newest # 0 /\ old = release[Newest].state
  <2>1. ASSUME Newest = 0 PROVE Fetched("state", Newest, Nothing) = {Nothing}
    BY <2>1 DEF Fetched
  <2>2. Fetched("state", Newest, Nothing) \subseteq {Nothing, release[Newest].state}
    BY DEF Fetched
  <2> QED
    BY <1>3, <2>1, <2>2
<1>7. old \in State
  BY <1>5, <1>6 DEF State, Assets, Nothing, Maybe
<1>8. ASSUME NEW s \in Shard, old[s] # None
      PROVE  Backed(old[s], s)
  <2>1. Newest # 0 /\ old = release[Newest].state
    BY <1>6, <1>8 DEF Nothing
  <2> QED
    BY <1>8, <2>1, NewestBacked
<1>9. r \in Run /\ r # None
  <2>1. seen \in State
    BY <1>7 DEF State, Maybe, Inv, Typed
  <2>2. r \in Run
    BY <1>0, <1>4, <2>1 DEF Run, Nothing, Maybe
  <2> QED
    BY <2>2, NoneIsNoFile
<1>10. run' = [run EXCEPT ![p] = r] /\ run'[p] = r
  BY <1>0, <1>3 DEF Inv, Typed
<1>11. \A v : \A s \in Shard : Backed(v, s)' = Backed(v, s)
  <2>1. \A s \in Shard : File(s)' = File(s)
    BY <1>2 DEF File
  <2>2. Past' = Past
    BY <1>2, PastStays DEF Inv, Typed
  <2> QED
    BY <1>2, <2>1, <2>2 DEF Backed, Before, BeforeRows, RowsAt
<1>12. RunSound(p)'
  <2>1. Past' = Past
    BY <1>2, PastStays DEF Inv, Typed
  <2>2. ~r.rebuild => artifact'[p] = None
    BY <1>0, <1>1, <1>2
  <2>3. r.previous \in {Past, day}'
    BY <1>0, <1>2, <1>4, <2>1
  <2>4. ASSUME NEW s \in Shard
        PROVE  /\ s \in r.due \/ r.built[s] # None => Owner[s] = p
               /\ r.rebuild /\ Owner[s] = p => s \in r.due \/ r.built[s] # None
               /\ r.built[s] = None
               /\ s \in r.due /\ r.state[s] # None => r.state[s] <= upstream'[s]
               /\ s \notin r.due /\ r.built[s] = None /\ r.state[s] # None => Backed(r.state[s], s)'
    <3>1. r.built[s] = None
      BY <1>0 DEF Nothing
    <3>2. s \in r.due => Owner[s] = p /\ r.state[s] = upstream[s] /\ upstream[s] \in Nat
      BY <1>0, Numbers DEF Inv, Typed
    <3>3. s \notin r.due => r.state[s] = old[s] /\ ~(r.rebuild /\ Owner[s] = p)
      BY <1>0
    <3> QED
      BY <1>2, <1>8, <1>11, <3>1, <3>2, <3>3
  <2> QED
    BY <1>10, <2>2, <2>3, <2>4 DEF RunSound
<1> QED
  BY <1>2, <1>9, <1>10, <1>12, RunSteps DEF Maybe

LEMMA IngestInv ==
    ASSUME Inv, NEW p \in Provider, NEW t \in Shard, Ingest(p, t)
    PROVE  Inv'
<1>1. /\ run[p] # None /\ t \in run[p].due
      /\ UNCHANGED <<day, upstream, artifact, publish, release, latest, mirror, replaced, lost>>
  BY DEF Ingest
<1>2. run[p] \in Run /\ RunSound(p)
  BY <1>1 DEF Inv, Typed, Maybe
<1> PICK r : r = [run[p] EXCEPT !.due = @ \ {t}, !.built[t] = upstream[t]]
  OBVIOUS
<1>3. /\ r \in Run /\ r # None
      /\ r.previous = run[p].previous /\ r.rebuild = run[p].rebuild /\ r.state = run[p].state
      /\ r.due = run[p].due \ {t}
      /\ r.built[t] = upstream[t] /\ upstream[t] # None
      /\ \A s \in Shard : s # t => r.built[s] = run[p].built[s]
  <2>1. upstream[t] \in Revision /\ upstream[t] # None
    BY Numbers DEF Inv, Typed
  <2>2. run[p].due \ {t} \in SUBSET Shard /\ run[p].built \in [Shard -> Maybe(Revision)]
    BY <1>2 DEF Run
  <2>3. [run[p].built EXCEPT ![t] = upstream[t]] \in [Shard -> Maybe(Revision)]
    BY <2>1, <2>2 DEF Maybe
  <2>4. r = [previous |-> run[p].previous, rebuild |-> run[p].rebuild, state |-> run[p].state,
             due |-> run[p].due \ {t}, built |-> [run[p].built EXCEPT ![t] = upstream[t]]]
    BY <1>2 DEF Run
  <2>5. r \in Run
    BY <1>2, <2>2, <2>3, <2>4 DEF Run
  <2> QED
    BY <2>1, <2>2, <2>4, <2>5, NoneIsNoFile
<1>4. run' = [run EXCEPT ![p] = r] /\ run'[p] = r
  BY DEF Ingest, Inv, Typed
<1>5. Past' = Past
  BY <1>1, PastStays DEF Inv, Typed
<1>6. \A s \in Shard : File(s)' = File(s) /\ Before(s)' = Before(s) /\ BeforeRows(s)' = BeforeRows(s)
  BY <1>1, <1>5 DEF File, Before, BeforeRows, RowsAt
<1>7. \A v : \A s \in Shard : Backed(v, s)' = Backed(v, s)
  BY <1>6 DEF Backed
<1>8. BuiltSound(p, t)'
  <2>1. upstream[t] \in Nat /\ FileSound(t) /\ (Before(t) # None => BeforeRows(t) <= upstream[t])
    BY Numbers DEF Inv, Typed
  <2>2. run[p].state[t] # None => run[p].state[t] <= upstream[t]
    BY <1>1, <1>2 DEF RunSound
  <2>3. run'[p].built[t] = upstream[t] /\ run'[p].state[t] = run[p].state[t] /\ upstream' = upstream
    BY <1>1, <1>3, <1>4
  <2>4. Touched(File(t)) => RowsOf(File(t)) <= upstream[t]
    BY <2>1 DEF FileSound
  <2> QED
    BY <1>6, <2>1, <2>2, <2>3, <2>4 DEF BuiltSound
<1>9. \A s \in Shard : s # t => BuiltSound(p, s)' = BuiltSound(p, s)
  BY <1>1, <1>3, <1>4, <1>6 DEF BuiltSound
<1>10. RunSound(p)'
  <2>1. \A s \in Shard :
           /\ s \in r.due \/ r.built[s] # None => Owner[s] = p
           /\ r.rebuild /\ Owner[s] = p => s \in r.due \/ r.built[s] # None
           /\ r.built[s] # None => BuiltSound(p, s)'
           /\ s \in r.due /\ r.state[s] # None => r.state[s] <= upstream'[s]
           /\ s \notin r.due /\ r.built[s] = None /\ r.state[s] # None => Backed(r.state[s], s)'
    BY <1>1, <1>2, <1>3, <1>7, <1>8, <1>9 DEF RunSound
  <2> QED
    BY <1>1, <1>2, <1>3, <1>4, <1>5, <2>1 DEF RunSound
<1> QED
  BY <1>1, <1>3, <1>4, <1>10, RunSteps DEF Maybe

(* A new artifact replaces a file, if there was one, by a newer baseline.  *)
LEMMA BundleInv ==
    ASSUME Inv, NEW p \in Provider, Bundle(p)
    PROVE  Inv'
<1> DEFINE r == run[p]
           touched == {s \in Shard : r.built[s] # None}
<1>1. /\ r # None /\ r.due = {} /\ run' = [run EXCEPT ![p] = None]
      /\ UNCHANGED <<day, upstream, publish, release, latest, mirror, replaced, lost>>
  BY DEF Bundle
<1>2. r \in Run /\ RunSound(p)
  BY <1>1 DEF Inv, Typed, Maybe
<1>3. PICK old \in [touched -> Maybe(Revision)] :
        /\ \A s \in touched :
              \E found \in Fetched("baseline", r.previous, Nothing) : old[s] = found[s]
        /\ artifact' = [artifact EXCEPT ![p] =
              [state |-> r.state,
               files |-> [s \in Shard |-> IF s \in touched THEN Packaged(r, s, old[s])
                                          ELSE Untouched]]]
  BY DEF Bundle
<1>4. ASSUME NEW s \in touched
      PROVE  /\ Owner[s] = p /\ BuiltSound(p, s)
             /\ r.built[s] \in Revision /\ r.built[s] \in Nat
             /\ r.previous \in 0..MaxDay
  BY <1>2, Numbers DEF RunSound, Run, Maybe
<1>5. ASSUME NEW s \in touched, ~r.rebuild, old[s] # None
      PROVE  /\ r.previous = Past /\ Past # 0 /\ Past \in Day
             /\ old[s] = release[Past].baseline[s]
  <2>1. r.previous # 0 /\ old[s] = release[r.previous].baseline[s] /\ release[r.previous] # None
    BY <1>3, <1>5 DEF Fetched, Nothing
  <2>2. artifact[p] = None /\ r.previous \in {Past, day}
    BY <1>2, <1>5 DEF RunSound
  <2>3. File(s) = Untouched
    BY <1>4, <2>2 DEF File
  <2>4. r.previous # day
    BY <1>5, <2>1, <2>3 DEF Inv, Stands, Untouched
  <2> QED
    BY <2>1, <2>2, <2>4, BeforeTyped DEF Inv
<1>6. day \in Day
  BY DEF Inv, Typed
<1>7. ASSUME NEW s \in touched
      PROVE  LET f == Packaged(r, s, old[s]) IN
             /\ f \in [baseline : Maybe(Revision), delta : Maybe(Delta)]
             /\ Touched(f) /\ RowsOf(f) = r.built[s]
             /\ f.baseline = None \/ f.delta = None
             /\ r.rebuild => f.baseline # None
             /\ f.delta # None =>
                   /\ Past # 0 /\ f.delta.from = Past /\ f.delta.to = day
                   /\ f.delta.old = release[Past].baseline[s]
  <2>1. CASE r.rebuild \/ old[s] = None
    BY <1>4, <2>1, Numbers DEF Packaged, Touched, RowsOf, Maybe
  <2>2. CASE ~(r.rebuild \/ old[s] = None)
    <3> DEFINE d == [from |-> r.previous, to |-> day, old |-> old[s], new |-> r.built[s]]
    <3>1. d \in Delta /\ d # None
      BY <1>4, <1>5, <1>6, <2>2, NoneIsNoFile DEF Delta, Maybe
    <3> QED
      BY <1>4, <1>5, <2>2, <3>1 DEF Packaged, Touched, RowsOf, Maybe
  <2> QED
    BY <2>1, <2>2
<1>8. Typed'
  <2>1. [s \in Shard |-> IF s \in touched THEN Packaged(r, s, old[s]) ELSE Untouched]
            \in [Shard -> [baseline : Maybe(Revision), delta : Maybe(Delta)]]
    BY <1>7 DEF Untouched, Maybe
  <2>2. artifact' \in [Provider -> Maybe(Artifact)]
    BY <1>2, <1>3, <2>1 DEF Inv, Typed, Maybe, Artifact, Run
  <2> QED
    BY <1>1, <2>2 DEF Inv, Typed, Maybe
<1>9. artifact'[p] # None /\ artifact'[p].state = r.state
  <2>1. /\ artifact'[p].state = r.state /\ artifact' \in [Provider -> Maybe(Artifact)]
        /\ artifact'[p] = [state |-> r.state,
              files |-> [s \in Shard |-> IF s \in touched THEN Packaged(r, s, old[s])
                                         ELSE Untouched]]
    BY <1>3, <1>8 DEF Inv, Typed
  <2>2. artifact'[p] \in Artifact
    BY <1>2, <1>7, <2>1 DEF Artifact, Run, Untouched, Maybe
  <2> QED
    BY <2>1, <2>2, NoneIsNoFile
<1>10. ASSUME NEW s \in Shard
       PROVE  /\ s \in touched => File(s)' = Packaged(r, s, old[s])
              /\ s \notin touched => File(s)' = File(s)
  <2>1. CASE Owner[s] = p
    <3>1. File(s)' = IF s \in touched THEN Packaged(r, s, old[s]) ELSE Untouched
      BY <1>3, <1>9, <2>1 DEF File, Inv, Typed
    <3>2. s \notin touched => File(s) = Untouched
      BY <1>1, <1>2, <2>1 DEF RunSound, File
    <3> QED
      BY <3>1, <3>2
  <2>2. CASE Owner[s] # p
    <3>1. artifact'[Owner[s]] = artifact[Owner[s]]
      BY <1>3, <2>2, PipelineAssumption DEF Inv, Typed
    <3> QED
      BY <1>4, <2>2, <3>1 DEF File
  <2> QED
    BY <2>1, <2>2
<1>11. /\ Past' = Past /\ Gone'
       /\ \A s \in Shard : Before(s)' = Before(s) /\ BeforeRows(s)' = BeforeRows(s)
  <2>1. Past' = Past /\ Gone'
    BY <1>1, PastStays DEF Inv, Typed
  <2> QED
    BY <1>1, <2>1 DEF Before, BeforeRows, RowsAt
<1>12. ASSUME NEW s \in Shard, Touched(File(s))
       PROVE  /\ Touched(File(s))'
              /\ RowsOf(File(s)) \in Nat /\ RowsOf(File(s))' \in Nat
              /\ RowsOf(File(s)) <= RowsOf(File(s))'
              /\ s \in touched => r.rebuild /\ File(s)'.baseline # None
  <2>1. RowsOf(File(s)) \in Nat
    BY <1>12, FileRows DEF Inv
  <2>2. CASE s \in touched
    <3>1. r.rebuild
      BY <1>2, <1>4, <1>12, <2>2 DEF RunSound, File, Touched, Untouched
    <3> QED
      BY <1>4, <1>7, <1>10, <1>12, <2>1, <2>2, <3>1 DEF BuiltSound
  <2>3. CASE s \notin touched
    BY <1>10, <1>12, <2>1, <2>3
  <2> QED
    BY <2>2, <2>3
<1>13. ASSUME NEW a \in Assets, Stands(a)
       PROVE  Stands(a)'
  <2>1. WithToday(a)' = WithToday(a)
    BY <1>1 DEF WithToday
  <2>2. ASSUME NEW s \in Shard
        PROVE  /\ a.baseline[s] # None => File(s)'.baseline # None
               /\ a.delta[s] # None => File(s)'.delta = a.delta[s] \/ File(s)'.baseline # None
               /\ Touched(FileOf(a, s)) => RowsOf(FileOf(a, s)) <= RowsOf(File(s))'
    <3>1. CASE ~Touched(FileOf(a, s))
      BY <3>1 DEF Touched, FileOf
    <3>2. CASE Touched(FileOf(a, s))
      <4>1. Touched(File(s)) /\ RowsOf(FileOf(a, s)) <= RowsOf(File(s))
        BY <1>13, <3>2 DEF Stands, Touched, FileOf
      <4>2. RowsOf(FileOf(a, s)) <= RowsOf(File(s))'
        BY <1>12, <3>2, <4>1, AssetsTyped
      <4> QED
        BY <1>10, <1>12, <1>13, <4>1, <4>2 DEF Stands
    <3> QED
      BY <3>1, <3>2
  <2> QED
    BY <1>1, <1>11, <1>13, <2>1, <2>2 DEF Stands
<1>14. ASSUME NEW s \in Shard, NEW v \in Nat, Backed(v, s)
       PROVE  Backed(v, s)'
  <2>1. CASE Touched(File(s))
    <3>1. v <= RowsOf(File(s))'
      BY <1>12, <1>14, <2>1 DEF Backed
    <3> QED
      BY <1>12, <2>1, <3>1 DEF Backed
  <2>2. CASE ~Touched(File(s)) /\ s \in touched
    <3>1. Before(s) # None /\ v <= BeforeRows(s) /\ BeforeRows(s) <= r.built[s]
      BY <1>4, <1>14, <2>2 DEF Backed, BuiltSound
    <3>2. BeforeRows(s) \in Nat /\ r.built[s] \in Nat
      BY <1>4, <2>2, <3>1, BeforeTyped DEF Inv
    <3>3. v <= r.built[s]
      BY <3>1, <3>2
    <3> QED
      BY <1>7, <1>10, <2>2, <3>3 DEF Backed
  <2>3. CASE ~Touched(File(s)) /\ s \notin touched
    BY <1>10, <1>11, <1>14, <2>3 DEF Backed
  <2> QED
    BY <2>1, <2>2, <2>3
<1>15. ASSUME NEW s \in Shard PROVE FileSound(s)'
  <2>1. CASE s \in touched
    BY <1>1, <1>4, <1>7, <1>10, <1>11, <2>1 DEF FileSound, BuiltSound
  <2>2. CASE s \notin touched
    BY <1>1, <1>10, <1>11, <2>2 DEF FileSound, Inv
  <2> QED
    BY <2>1, <2>2
<1>16. ASSUME NEW q \in Provider, NEW s \in Shard,
              artifact'[q] # None, artifact'[q].state[s] # None
       PROVE  Backed(artifact[q].state[s], s)'
  <2>1. CASE q # p
    <3>1. artifact'[q] = artifact[q]
      BY <1>3, <2>1 DEF Inv, Typed
    <3>2. artifact[q] \in Artifact
      BY <1>16, <3>1 DEF Inv, Typed, Maybe
    <3>3. artifact[q].state[s] \in Nat
      BY <1>16, <3>1, <3>2, Numbers DEF Maybe, Artifact, State
    <3> QED
      BY <1>14, <1>16, <3>1, <3>3 DEF Inv, StatesBacked
  <2>2. CASE q = p
    <3>1. artifact'[q].state[s] = r.state[s] /\ r.state[s] # None
      BY <1>9, <1>16, <2>2
    <3>2. r.state[s] \in Nat
      BY <1>2, <3>1, Numbers DEF Run, State, Maybe
    <3>3. CASE s \in touched
      BY <1>4, <1>7, <1>10, <3>1, <3>3 DEF Backed, BuiltSound
    <3>4. CASE s \notin touched
      BY <1>1, <1>2, <1>14, <3>1, <3>2, <3>4 DEF RunSound
    <3> QED
      BY <3>3, <3>4
  <2> QED
    BY <2>1, <2>2
<1>17. ASSUME NEW q \in Provider, run'[q] # None
       PROVE  RunSound(q)'
  <2>1. q # p /\ run'[q] = run[q] /\ RunSound(q) /\ run[q] \in Run
    BY <1>1, <1>17 DEF Inv, Typed, Maybe
  <2>2. artifact'[q] = artifact[q]
    BY <1>3, <2>1 DEF Inv, Typed
  <2>3. ASSUME NEW s \in Shard
        PROVE  /\ run[q].built[s] # None => BuiltSound(q, s)'
               /\ s \notin run[q].due /\ run[q].built[s] = None /\ run[q].state[s] # None =>
                     Backed(run[q].state[s], s)'
    <3>1. ASSUME run[q].built[s] # None PROVE BuiltSound(q, s)'
      <4>1. s \notin touched
        BY <1>4, <2>1, <3>1 DEF RunSound
      <4> QED
        BY <1>1, <1>10, <1>11, <2>1, <3>1, <4>1 DEF RunSound, BuiltSound
    <3>2. run[q].state[s] # None => run[q].state[s] \in Nat
      BY <2>1, Numbers DEF Run, State, Maybe
    <3> QED
      BY <1>14, <2>1, <3>1, <3>2 DEF RunSound
  <2> QED
    BY <1>1, <1>11, <2>1, <2>2, <2>3 DEF RunSound
<1>18. JobSound' /\ (release[day] # None => Stands(release[day]))'
  <2>1. publish # None => publish.assets \in Assets
    BY DEF Inv, Typed, Maybe, Job
  <2>2. release[day] # None => release[day] \in Assets
    BY <1>6, ReleaseTyped DEF Inv
  <2> QED
    BY <1>1, <1>13, <2>1, <2>2 DEF Inv, JobSound
<1>19. \A s \in Shard : (Before(s) # None => BeforeRows(s) <= upstream[s])'
  BY <1>1, <1>11 DEF Inv
<1> QED
  BY <1>8, <1>11, <1>15, <1>16, <1>17, <1>18, <1>19 DEF Inv, StatesBacked

(* Where the entries of a new manifest start: from those of the past, or   *)
(* from those of the release of the day that is to be replaced.            *)
LEMMA BeforeIs ==
    ASSUME AsDocumented, Inv, NEW before \in Fetched("manifest", Newest, Nothing), NEW s \in Shard
    PROVE  /\ before[s] \in Maybe(ManifestEntry)
           /\ release[day] = None => before[s] = Before(s)
           /\ release[day] # None => before[s] = release[day].manifest[s]
           /\ ~Touched(File(s)) => before[s] = Before(s)
<1>1. Newest = (IF release[day] # None THEN day ELSE Past) /\ day # 0
  BY NewestIs, PipelineAssumption DEF Inv, Typed, Day
<1>2. before = IF Newest = 0 THEN Nothing ELSE release[Newest].manifest
  <2>1. Newest # 0 => release[Newest] # None
    BY <1>1 DEF Inv, Gone, IsPast
  <2> QED
    BY <2>1 DEF Fetched, AsDocumented
<1>3. CASE release[day] = None
  BY <1>1, <1>2, <1>3, BeforeTyped DEF Before, Inv, Nothing, Maybe
<1>4. CASE release[day] # None
  <2>1. before = release[day].manifest /\ release[day] \in Assets /\ Stands(release[day])
    BY <1>1, <1>2, <1>4, ReleaseTyped DEF Inv, Typed
  <2>2. ~Touched(File(s)) => ~Touched(FileOf(release[day], s))
    BY <2>1, NoneIsNoFile, AssetsTyped DEF Stands, Touched, FileOf, Maybe
  <2> QED
    BY <1>4, <2>1, <2>2, AssetsTyped DEF Stands
<1> QED
  BY <1>3, <1>4

(* A delta extends a baseline of the past, or lists itself once more.      *)
LEMMA Extends ==
    ASSUME AsDocumented, Inv, NEW before \in Fetched("manifest", Newest, Nothing), NEW s \in Shard,
           File(s).delta # None, before[s] # None
    PROVE  /\ File(s).baseline = None
           /\ before[s].baseline = Past /\ Past # 0
           /\ release[Past] # None /\ release[Past].baseline[s] # None
           /\ before[s].deltas # <<>> => \A i \in DOMAIN before[s].deltas :
                                             before[s].deltas[i] = File(s).delta
           /\ release[day] = None => before[s].deltas = <<>>
<1> DEFINE x == File(s).delta
           e == before[s]
<1>1. /\ File(s).baseline = None /\ Past # 0 /\ x.from = Past /\ x.to = day
      /\ x.old = release[Past].baseline[s]
  BY DEF Inv, FileSound
<1>2. x \in Delta /\ x.old \in Revision /\ x.old # None
  BY FileTyped, Numbers DEF Inv, Maybe, Delta
<1>3. Past \in Day /\ release[Past] \in Assets /\ release[Past] # None /\ Sound(release, Past)
  BY <1>1, BeforeTyped, NoneIsNoFile DEF Inv
<1>4. Before(s) = Fresh(Past)
  BY <1>1, <1>2, <1>3 DEF Sound, Before
<1>5. CASE e = Before(s)
  BY <1>1, <1>2, <1>3, <1>4, <1>5 DEF Fresh
<1>6. CASE e # Before(s)
  <2> DEFINE a == release[day]
  <2>1. a # None /\ e = a.manifest[s] /\ e \in ManifestEntry
    BY <1>6, BeforeIs DEF Maybe
  <2>2. a \in Assets /\ Stands(a) /\ WithToday(a) = release /\ day \in Day
    BY <2>1, ReleaseTyped, WithTodayIs DEF Inv, Typed
  <2>3. Touched(FileOf(a, s)) /\ a.baseline[s] = None
    BY <1>1, <1>6, <2>1, <2>2 DEF Stands
  <2>4. a.delta[s] = x /\ e.head = day /\ Supported(release, s, e)
    BY <1>1, <2>1, <2>2, <2>3 DEF Stands, Sound, Touched, FileOf
  <2>5. e # Fresh(e.head)
    BY <2>3, <2>4 DEF Supported, Fresh
  <2> QED
    BY <1>1, <1>2, <1>3, <2>1, <2>4, <2>5 DEF Supported
<1> QED
  BY <1>5, <1>6

LEMMA AppendedOnce ==
    ASSUME NEW S, NEW q \in Seq(S), NEW x \in S, \A i \in DOMAIN q : q[i] = x
    PROVE  /\ Append(q, x) \in Seq(S) /\ Append(q, x) # <<>>
           /\ \A i \in DOMAIN Append(q, x) : Append(q, x)[i] = x
OBVIOUS

LEMMA NewStands ==
    ASSUME AsDocumented, Inv, NEW before \in Fetched("manifest", Newest, Nothing),
           NEW state \in State,
           \A s \in Shard : File(s).delta # None => before[s] # None,
           \A s \in Shard : state[s] # None => Backed(state[s], s)
    PROVE  NewAssets(before, state) \in Assets /\ Stands(NewAssets(before, state))
<1> DEFINE a == NewAssets(before, state)
           rel == WithToday(a)
<1>1. day \in Day /\ day \in Nat /\ Past \in Nat /\ Past < day
  BY Numbers DEF Inv, Typed, Gone, IsPast
<1>2. ASSUME NEW s \in Shard
      PROVE  /\ File(s) \in [baseline : Maybe(Revision), delta : Maybe(Delta)]
             /\ a.baseline[s] = File(s).baseline /\ a.delta[s] = File(s).delta
             /\ a.manifest[s] = Entry(File(s), before[s])
             /\ a.state[s] = state[s]
             /\ FileOf(a, s) = File(s)
  BY FileTyped DEF Inv, NewAssets, FileOf
<1>3. ASSUME NEW s \in Shard, File(s).baseline # None
      PROVE  /\ a.manifest[s] = Fresh(day) /\ a.manifest[s] \in ManifestEntry
  <2>1. a.manifest[s] = Fresh(day)
    BY <1>2, <1>3 DEF Entry, Fresh
  <2>2. <<>> \in Seq(Delta)
    OBVIOUS
  <2>3. Fresh(day) \in ManifestEntry
    BY <1>1, <2>2 DEF Fresh, ManifestEntry
  <2> QED
    BY <2>1, <2>3
<1>4. ASSUME NEW s \in Shard, File(s).delta # None
      PROVE  LET e == a.manifest[s]
                 x == File(s).delta
             IN  /\ e \in ManifestEntry /\ e # None
                 /\ e.head = day /\ e.baseline = Past /\ Past \in Day
                 /\ release[Past] # None /\ release[Past].baseline[s] # None
                 /\ File(s).baseline = None
                 /\ e.deltas # <<>> /\ \A i \in DOMAIN e.deltas : e.deltas[i] = x
                 /\ x.from = Past /\ x.to = day /\ x.old = release[Past].baseline[s]
  <2> DEFINE b == before[s]
             x == File(s).delta
  <2>1. b \in ManifestEntry /\ x \in Delta
    BY <1>2, <1>4, BeforeIs DEF Maybe
  <2>2. /\ File(s).baseline = None /\ b.baseline = Past /\ Past # 0
        /\ release[Past] # None /\ release[Past].baseline[s] # None
        /\ b.deltas # <<>> => \A i \in DOMAIN b.deltas : b.deltas[i] = x
    BY <1>4, Extends
  <2>3. a.manifest[s] = [b EXCEPT !.head = day, !.deltas = Append(@, x)]
    BY <1>2, <1>4, <2>2 DEF Entry
  <2>4. b.deltas \in Seq(Delta) /\ \A i \in DOMAIN b.deltas : b.deltas[i] = x
    BY <2>1, <2>2 DEF ManifestEntry
  <2>5. /\ Append(b.deltas, x) \in Seq(Delta) /\ Append(b.deltas, x) # <<>>
        /\ \A i \in DOMAIN Append(b.deltas, x) : Append(b.deltas, x)[i] = x
    BY <2>1, <2>4, AppendedOnce
  <2>6. a.manifest[s] = [baseline |-> b.baseline, head |-> day, deltas |-> Append(b.deltas, x)]
    BY <2>1, <2>3 DEF ManifestEntry
  <2>7. a.manifest[s] \in ManifestEntry
    BY <1>1, <2>1, <2>5, <2>6 DEF ManifestEntry
  <2>8. x.from = Past /\ x.to = day /\ x.old = release[Past].baseline[s]
    BY <1>4 DEF Inv, FileSound
  <2>9. Past \in Day
    BY <2>2, BeforeTyped DEF Inv
  <2>10. /\ a.manifest[s].head = day /\ a.manifest[s].baseline = Past
         /\ a.manifest[s].deltas = Append(b.deltas, x) /\ a.manifest[s] # None
    BY <2>2, <2>6, <2>7, NoneIsNoFile
  <2> QED
    BY <2>2, <2>5, <2>7, <2>8, <2>9, <2>10
<1>5. ASSUME NEW s \in Shard, ~Touched(File(s))
      PROVE  a.manifest[s] = Before(s)
  BY <1>2, <1>5, BeforeIs DEF Entry, Touched
<1>6. a \in Assets
  <2>1. \A s \in Shard : a.manifest[s] \in Maybe(ManifestEntry)
    BY <1>3, <1>4, <1>5, BeforeTyped DEF Touched, Maybe, Inv
  <2>2. \A s \in Shard : Entry(File(s), before[s]) \in Maybe(ManifestEntry)
    BY <1>2, <2>1
  <2> QED
    BY <1>2, <2>2 DEF NewAssets, Assets, Manifest
<1>7. rel[day] = a /\ a # None /\ \A d \in Day : d # day => rel[d] = release[d]
  BY <1>6, WithTodayIs DEF Inv
<1>8. ASSUME NEW s \in Shard
      PROVE  /\ a.manifest[s] # None =>
                   a.manifest[s].head <= day /\ Supported(rel, s, a.manifest[s])
             /\ a.baseline[s] # None => a.manifest[s] = Fresh(day)
             /\ a.state[s] # None =>
                   /\ a.manifest[s] # None
                   /\ a.state[s] <= RowsIn(rel, a.manifest[s].head, s)
  <2> DEFINE e == a.manifest[s]
  <2>1. CASE File(s).baseline # None
    <3>1. e = Fresh(day) /\ e \in ManifestEntry /\ e # None
      BY <1>3, <2>1, NoneIsNoFile
    <3>2. Supported(rel, s, e)
      BY <1>2, <1>7, <2>1, <3>1 DEF Supported, Fresh
    <3>3. RowsIn(rel, e.head, s) = RowsOf(File(s)) /\ e.head = day
      BY <1>2, <1>7, <3>1 DEF RowsIn, Fresh
    <3>4. state[s] # None => state[s] <= RowsOf(File(s))
      BY <2>1 DEF Backed, Touched
    <3> QED
      BY <1>1, <1>2, <3>1, <3>2, <3>3, <3>4
  <2>2. CASE File(s).delta # None
    <3>1. Supported(rel, s, e)
      BY <1>1, <1>2, <1>4, <1>7, <2>2 DEF Supported
    <3>2. RowsIn(rel, e.head, s) = RowsOf(File(s)) /\ e.head = day /\ e # None
      BY <1>2, <1>4, <1>7, <2>2 DEF RowsIn
    <3>3. state[s] # None => state[s] <= RowsOf(File(s))
      BY <2>2 DEF Backed, Touched
    <3> QED
      BY <1>1, <1>2, <1>4, <2>2, <3>1, <3>2, <3>3
  <2>3. CASE ~Touched(File(s))
    <3>1. e = Before(s) /\ a.baseline[s] = None
      BY <1>2, <1>5, <2>3 DEF Touched
    <3>2. state[s] # None => Before(s) # None /\ state[s] <= BeforeRows(s)
      BY <2>3 DEF Backed
    <3>3. ASSUME e # None
          PROVE  e.head <= day /\ Supported(rel, s, e) /\ RowsIn(rel, e.head, s) = BeforeRows(s)
      <4>1. e.head <= Past /\ Supported(release, s, e) /\ e \in ManifestEntry
        BY <3>1, <3>3, BeforeTyped DEF Inv
      <4>2. e.head \in Day /\ e.baseline \in Day /\ e.baseline <= e.head
        BY <4>1, SupportedRows DEF Inv, Typed
      <4>3. e.head \in Nat /\ e.baseline \in Nat
        BY <4>2, Numbers
      <4>4. e.head < day /\ e.baseline < day
        BY <1>1, <4>1, <4>2, <4>3
      <4>5. rel[e.head] = release[e.head] /\ rel[e.baseline] = release[e.baseline]
        BY <1>1, <1>7, <4>2, <4>3, <4>4
      <4>6. Supported(rel, s, e)
        BY <4>1, <4>5 DEF Supported
      <4>7. RowsIn(rel, e.head, s) = BeforeRows(s)
        BY <3>1, <4>5, RowsAtRowsIn DEF RowsIn, BeforeRows
      <4> QED
        BY <1>1, <4>3, <4>4, <4>6, <4>7
    <3> QED
      BY <1>2, <3>1, <3>2, <3>3
  <2> QED
    BY <2>1, <2>2, <2>3 DEF Touched
<1>9. Sound(rel, day)
  BY <1>7, <1>8 DEF Sound
<1>10. ASSUME NEW s \in Shard
       PROVE  /\ a.baseline[s] = None \/ a.delta[s] = None
              /\ Touched(FileOf(a, s)) => RowsOf(FileOf(a, s)) <= RowsOf(File(s))
  <2>1. Touched(File(s)) => RowsOf(File(s)) \in Nat
    BY FileRows DEF Inv
  <2> QED
    BY <1>2, <2>1 DEF Inv, FileSound
<1>11. \A s \in Shard : a.delta[s] # None => a.manifest[s] # None /\ a.manifest[s].head = day
  BY <1>2, <1>4
<1> QED
  BY <1>2, <1>5, <1>6, <1>9, <1>10, <1>11 DEF Stands

LEMMA AssembleInv ==
    ASSUME AsDocumented, Inv, Assemble
    PROVE  Inv'
<1> DEFINE ready == {p \in Provider : artifact[p] # None}
<1>1. publish = None
      /\ UNCHANGED <<day, upstream, run, artifact, release, latest, mirror, replaced, lost>>
  BY DEF Assemble
<1>2. PICK before \in Fetched("manifest", Newest, Nothing), 
           rank \in Bijection(ready, 1..Cardinality(ready)), state \in State :
        /\ \A s \in Shard : File(s).delta # None => before[s] # None
        /\ Merged(ready, rank, state)
        /\ publish' = [step |-> "create", assets |-> NewAssets(before, state)]
  BY DEF Assemble
<1>3. ASSUME NEW s \in Shard, state[s] # None PROVE Backed(state[s], s)
  <2>1. \E p \in ready : state[s] = artifact[p].state[s]
    BY <1>2, <1>3 DEF Merged
  <2> QED
    BY <1>3, <2>1 DEF Inv, StatesBacked
<1>4. NewAssets(before, state) \in Assets /\ Stands(NewAssets(before, state))
  BY <1>2, <1>3, NewStands
<1>5. publish' \in Job /\ publish'.assets = NewAssets(before, state) /\ publish'.step = "create"
  BY <1>2, <1>4 DEF Job
<1>6. Typed'
  BY <1>1, <1>5 DEF Inv, Typed, Maybe
<1> QED
  BY <1>1, <1>4, <1>5, <1>6, JobSteps DEF Inv, Typed

-----------------------------------------------------------------------------
(* The invariant holds, so every release there is is sound.                *)

LEMMA InvNext ==
    ASSUME AsDocumented, Inv, Next
    PROVE  Inv'
<1>1. CASE NewDay
  BY <1>1, NewDayInv
<1>2. CASE \E s \in Shard : UpstreamChanges(s)
  BY <1>2, UpstreamChangesInv
<1>3. CASE \E p \in Provider : \E force \in BOOLEAN : Discover(p, force)
  BY <1>3, DiscoverInv
<1>4. CASE \E p \in Provider : \E s \in Shard : Ingest(p, s)
  BY <1>4, IngestInv
<1>5. CASE \E p \in Provider : Bundle(p) \/ RunFails(p)
  BY <1>5, BundleInv, RunFailsInv
<1>6. CASE Assemble
  BY <1>6, AssembleInv
<1>7. CASE DeleteRelease \/ CreateRelease \/ DropLatest \/ CreateLatest \/ PushMirror
           \/ PublishDies \/ ClientUpdate
  BY <1>7, PublishInv
<1> QED
  BY <1>1, <1>2, <1>3, <1>4, <1>5, <1>6, <1>7 DEF Next

LEMMA InvStutter ==
    ASSUME Inv, UNCHANGED vars
    PROVE  Inv'
<1>1. /\ UNCHANGED <<day, upstream, run, artifact, publish, release, latest, mirror,
                     replaced, lost>>
  BY DEF vars
<1> QED
  BY <1>1, JobSteps DEF Inv, Typed, JobSound

THEOREM Invariance == AsDocumented /\ Spec => []Inv
<1>1. Init => Inv
  BY InitInv
<1>2. AsDocumented /\ Inv /\ [Next]_vars => Inv'
  BY InvNext, InvStutter
<1>3. AsDocumented => AsDocumented'
  BY DEF AsDocumented
<1> QED
  BY <1>1, <1>2, <1>3, PTL DEF Spec

LEMMA EveryReleaseSound ==
    ASSUME Inv, NEW r \in Released
    PROVE  r \in Day /\ release[r] \in Assets /\ Sound(release, r)
<1>1. r \in Day /\ release[r] # None /\ release[r] \in Assets
  BY ReleaseTyped DEF Released, Inv
<1>2. CASE r = day
  BY <1>1, <1>2, WithTodayIs DEF Inv, Stands
<1>3. CASE r # day
  <2>1. r <= Past /\ Past < day
    BY <1>1, <1>3 DEF Inv, Gone, IsPast
  <2>2. r \in Nat /\ Past \in Nat /\ day \in Nat
    BY <1>1, Numbers DEF Inv, Gone, Typed
  <2>3. r < day
    BY <2>1, <2>2
  <2> QED
    BY <1>1, <2>3 DEF Inv, Gone
<1> QED
  BY <1>2, <1>3

LEMMA EntrySound ==
    ASSUME Inv, NEW r \in Released, NEW s \in Shard, release[r].manifest[s] # None
    PROVE  LET e == release[r].manifest[s] IN
           /\ e \in ManifestEntry /\ e.head <= r /\ Supported(release, s, e)
           /\ e.head \in Day /\ e.baseline \in Day
           /\ release[e.head] \in Assets /\ release[e.baseline] \in Assets
<1> DEFINE e == release[r].manifest[s]
<1>1. release[r] \in Assets /\ Sound(release, r)
  BY EveryReleaseSound
<1>2. e \in ManifestEntry
  BY <1>1, AssetsTyped DEF Maybe
<1>3. e.head <= r /\ Supported(release, s, e)
  BY <1>1 DEF Sound
<1>4. e.head \in Day /\ e.baseline \in Day
  BY <1>2 DEF ManifestEntry
<1> QED
  BY <1>2, <1>3, <1>4, ReleaseTyped DEF Inv, Supported

(* Every asset that the manifest of a release points to exists: a client   *)
(* never meets a 404 on a chain it was given (publish job, build_manifest). *)
THEOREM ServableAlways == AsDocumented /\ Spec => []ManifestServable
<1>1. ASSUME Inv PROVE ManifestServable
  <2> SUFFICES ASSUME NEW r \in Released, NEW s \in Shard, release[r].manifest[s] # None
               PROVE  LET e == release[r].manifest[s] IN
                      /\ release[e.baseline] # None /\ release[e.baseline].baseline[s] # None
                      /\ \A i \in DOMAIN e.deltas :
                             LET d == e.deltas[i] IN
                                 release[d.to] # None /\ release[d.to].delta[s] = d
    BY DEF ManifestServable
  <2> DEFINE e == release[r].manifest[s]
  <2>1. e \in ManifestEntry /\ Supported(release, s, e)
    BY <1>1, EntrySound
  <2>2. CASE e = Fresh(e.head)
    <3>1. e.deltas = <<>>
      BY <2>2 DEF Fresh
    <3> QED
      BY <2>1, <3>1 DEF Supported
  <2>3. CASE e # Fresh(e.head)
    BY <2>1, <2>3 DEF Supported
  <2> QED
    BY <2>2, <2>3
<1> QED
  BY <1>1, Invariance, PTL

(* No indicator is published for a shard that no release carries: what     *)
(* discover takes for unchanged is in the manifest, at that revision.      *)
THEOREM NeverForgotten == AsDocumented /\ Spec => []NothingForgotten
<1>1. ASSUME Inv PROVE NothingForgotten
  <2> SUFFICES ASSUME NEW r \in Released, NEW s \in Shard, release[r].state[s] # None
               PROVE  /\ release[r].manifest[s] # None
                      /\ release[r].state[s] <= RowsAt(release[r].manifest[s].head, s)
    BY DEF NothingForgotten
  <2>1. Sound(release, r)
    BY <1>1, EveryReleaseSound
  <2> QED
    BY <2>1, RowsAtRowsIn DEF Sound
<1> QED
  BY <1>1, Invariance, PTL

-----------------------------------------------------------------------------
(* Walking a chain.                                                        *)

LEMMA LastOfPrefix ==
    ASSUME NEW n \in Nat \ {0}
    PROVE  Last(1..n) = n /\ First(1..n) = 1
<1>1. n \in 1..n /\ (\A j \in 1..n : j <= n) /\ 1 \in 1..n /\ (\A j \in 1..n : 1 <= j)
  OBVIOUS
<1>2. \A i \in 1..n : (\A j \in 1..n : j <= i) => i = n
  BY <1>1
<1>3. \A i \in 1..n : (\A j \in 1..n : i <= j) => i = 1
  BY <1>1
<1> QED
  BY <1>1, <1>2, <1>3 DEF Last, First

(* A chain of one delta, however often it is listed, leads to its rows.    *)
LEMMA WalkedAll ==
    ASSUME NEW rows, NEW q \in Seq(Delta), q # <<>>,
           NEW x, x = q[1], \A i \in DOMAIN q : q[i] = x
    PROVE  /\ rows \in {x.old, x.new} => Walked(rows, q, DOMAIN q) = x.new
           /\ Walked(rows, q, DOMAIN q) \in {x.new, Mixed}
<1>1. DOMAIN q = 1..Len(q) /\ Len(q) \in Nat \ {0} /\ Last(DOMAIN q) = Len(q) /\ DOMAIN q # {}
  BY LastOfPrefix
<1> DEFINE met(i) == LET done == {j \in DOMAIN q : j < i}
                     IN  IF done = {} THEN rows ELSE q[Last(done)].new
<1>2. ASSUME NEW i \in DOMAIN q PROVE met(i) \in {rows, x.new}
  <2> DEFINE done == {j \in DOMAIN q : j < i}
  <2>1. CASE done = {}
    BY <2>1
  <2>2. CASE done # {}
    <3>1. i \in Nat /\ i - 1 \in Nat \ {0} /\ done = 1..(i - 1) /\ i - 1 \in DOMAIN q
      BY <1>1, <2>2
    <3>2. Last(done) = i - 1
      BY <3>1, LastOfPrefix
    <3> QED
      BY <2>2, <3>1, <3>2
  <2> QED
    BY <2>1, <2>2
<1>3. Walked(rows, q, DOMAIN q) =
          IF \A i \in DOMAIN q : met(i) \in {q[i].old, q[i].new} THEN x.new ELSE Mixed
  BY <1>1 DEF Walked
<1>4. \A i \in DOMAIN q : {q[i].old, q[i].new} = {x.old, x.new}
  OBVIOUS
<1> HIDE DEF met
<1> QED
  BY <1>2, <1>3, <1>4

(* The first release of a day lists no delta twice.                        *)
Short(m) == \A s \in Shard : m[s] # None => \A i \in DOMAIN m[s].deltas : i = 1

Once ==
    replaced = 0 =>
        /\ \A r \in Released : Short(release[r].manifest)
        /\ publish # None /\ release[day] = None => Short(publish.assets.manifest)

LEMMA NewIsShort ==
    ASSUME AsDocumented, Inv, Once, replaced = 0, release[day] = None,
           NEW before \in Fetched("manifest", Newest, Nothing), NEW state \in State,
           \A s \in Shard : File(s).delta # None => before[s] # None
    PROVE  Short(NewAssets(before, state).manifest)
<1> SUFFICES ASSUME NEW s \in Shard, Entry(File(s), before[s]) # None,
                    NEW i \in DOMAIN Entry(File(s), before[s]).deltas
             PROVE  i = 1
  BY DEF Short, NewAssets
<1>1. before[s] = Before(s) /\ before[s] \in Maybe(ManifestEntry)
  BY BeforeIs
<1>2. CASE File(s).baseline # None
  BY <1>2 DEF Entry
<1>3. CASE File(s).baseline = None /\ File(s).delta # None
  <2>1. before[s].deltas = <<>> /\ before[s] \in ManifestEntry
    BY <1>1, <1>3, Extends DEF Maybe
  <2>2. Entry(File(s), before[s]) = [before[s] EXCEPT !.head = day, !.deltas = Append(@, File(s).delta)]
    BY <1>3 DEF Entry
  <2>3. Entry(File(s), before[s]).deltas = <<File(s).delta>>
    BY <2>1, <2>2 DEF ManifestEntry
  <2> QED
    BY <2>3
<1>4. CASE ~Touched(File(s))
  <2>1. Before(s) # None /\ i \in DOMAIN Before(s).deltas
    BY <1>1, <1>4 DEF Entry, Touched
  <2>2. Past \in Released /\ Before(s) = release[Past].manifest[s]
    BY <2>1, BeforeTyped, NoneIsNoFile DEF Inv, Released
  <2> QED
    BY <2>1, <2>2 DEF Once, Short
<1> QED
  BY <1>2, <1>3, <1>4 DEF Touched

LEMMA OnceNext ==
    ASSUME AsDocumented, Inv, Once, [Next]_vars
    PROVE  Once'
<1>1. replaced \in Nat /\ day \in Day
  BY PipelineAssumption DEF Inv, Typed
<1>2. CASE release' = release /\ replaced' = replaced /\ day' = day /\ publish' # None
           /\ publish # None /\ publish'.assets = publish.assets
  BY <1>2 DEF Once, Released
<1>3. CASE release' = release /\ replaced' = replaced /\ publish' = None
  BY <1>3 DEF Once, Released
<1>4. CASE Assemble
  <2> DEFINE ready == {p \in Provider : artifact[p] # None}
  <2>1. PICK before \in Fetched("manifest", Newest, Nothing),
             rank \in Bijection(ready, 1..Cardinality(ready)), state \in State :
          /\ \A s \in Shard : File(s).delta # None => before[s] # None
          /\ publish' = [step |-> "create", assets |-> NewAssets(before, state)]
    BY <1>4 DEF Assemble
  <2>2. release' = release /\ replaced' = replaced /\ day' = day
    BY <1>4 DEF Assemble
  <2>3. replaced = 0 /\ release[day] = None => Short(publish'.assets.manifest)
    BY <2>1, NewIsShort
  <2> QED
    BY <2>2, <2>3 DEF Once, Released
<1>5. CASE DeleteRelease
  BY <1>1, <1>5 DEF DeleteRelease, Once
<1>6. CASE CreateRelease
  <2>1. /\ release' = [release EXCEPT ![day] = publish.assets] /\ release[day] = None
        /\ publish # None /\ day' = day /\ replaced' = replaced /\ publish.assets \in Assets
    BY <1>6 DEF CreateRelease, Inv, Typed, Maybe, Job
  <2>2. release'[day] = publish.assets /\ publish.assets # None
    BY <1>1, <2>1, NoneIsNoFile DEF Inv, Typed
  <2>3. ASSUME replaced = 0, NEW r \in Released' PROVE Short(release'[r].manifest)
    BY <1>1, <2>1, <2>2, <2>3 DEF Once, Released, Inv, Typed
  <2> QED
    BY <2>1, <2>2, <2>3 DEF Once
<1>7. CASE DropLatest \/ CreateLatest
  <2>1. publish # None /\ publish \in Job
    BY <1>7 DEF DropLatest, CreateLatest, Inv, Typed, Maybe
  <2>2. publish' \in Job /\ publish' # None /\ publish'.assets = publish.assets
    BY <1>7, <2>1, NoneIsNoFile DEF DropLatest, CreateLatest, Job
  <2> QED
    BY <1>2, <1>7, <2>1, <2>2 DEF DropLatest, CreateLatest
<1>8. CASE PushMirror \/ PublishDies
  BY <1>3, <1>8 DEF PushMirror, PublishDies
<1>9. CASE UNCHANGED <<day, release, replaced, publish>>
  BY <1>9 DEF Once, Released
<1>10. CASE NewDay
  BY <1>3, <1>10 DEF NewDay
<1>11. CASE \/ \E s \in Shard : UpstreamChanges(s)
            \/ \E p \in Provider :
                  \/ \E force \in BOOLEAN : Discover(p, force)
                  \/ \E s \in Shard : Ingest(p, s)
                  \/ Bundle(p)
                  \/ RunFails(p)
            \/ ClientUpdate
            \/ UNCHANGED vars
  BY <1>9, <1>11 DEF UpstreamChanges, Discover, Ingest, Bundle, RunFails, ClientUpdate, vars
<1> QED
  BY <1>4, <1>5, <1>6, <1>7, <1>8, <1>10, <1>11 DEF Next

THEOREM OnceInvariance == AsDocumented /\ Spec => [](Inv /\ Once)
<1>1. Init => Once
  BY DEF Init, Once, Released
<1>2. AsDocumented /\ Inv /\ Once /\ [Next]_vars => Once'
  BY OnceNext
<1>3. AsDocumented => AsDocumented'
  BY DEF AsDocumented
<1> QED
  BY <1>1, <1>2, <1>3, Invariance, PTL DEF Spec

(* A client that starts from the baseline of a release and walks its       *)
(* deltas arrives at the rows that were built for the head, and no delta   *)
(* is missing on the way (chain.go, build_manifest.py).                    *)
THEOREM ChainsSound == AsDocumented /\ Spec => []ChainSound
<1>1. ASSUME Inv, Once PROVE ChainSound
  <2> SUFFICES ASSUME NEW r \in Released, NEW s \in Shard, release[r].manifest[s] # None
               PROVE  LET e == release[r].manifest[s] IN
                      /\ Walked(RowsAt(e.baseline, s), e.deltas, DOMAIN e.deltas) = RowsAt(e.head, s)
                      /\ replaced = 0 =>
                             \A i \in DOMAIN e.deltas :
                                e.deltas[i].from = IF i = 1 THEN e.baseline ELSE e.deltas[i - 1].to
    BY DEF ChainSound
  <2> DEFINE e == release[r].manifest[s]
  <2>1. e \in ManifestEntry /\ Supported(release, s, e)
    BY <1>1, EntrySound
  <2>2. CASE e = Fresh(e.head)
    <3>1. e.deltas = <<>> /\ e.baseline = e.head
      BY <2>2 DEF Fresh
    <3>2. DOMAIN e.deltas = {}
      BY <3>1
    <3> QED
      BY <3>1, <3>2 DEF Walked
  <2>3. CASE e # Fresh(e.head)
    <3> DEFINE x == release[e.head].delta[s]
    <3>1. /\ release[e.head].baseline[s] = None /\ release[e.baseline].baseline[s] # None
          /\ x.from = e.baseline /\ x.old = release[e.baseline].baseline[s]
          /\ e.deltas # <<>> /\ \A i \in DOMAIN e.deltas : e.deltas[i] = x
      BY <2>1, <2>3 DEF Supported
    <3>2. e.deltas \in Seq(Delta) /\ 1 \in DOMAIN e.deltas
      <4>1. e.deltas \in Seq(Delta)
        BY <2>1 DEF ManifestEntry
      <4> HIDE DEF x, e
      <4> QED
        BY <3>1, <4>1
    <3>3. RowsAt(e.baseline, s) = x.old /\ RowsAt(e.head, s) = x.new
      BY <3>1 DEF RowsAt
    <3>4. Walked(x.old, e.deltas, DOMAIN e.deltas) = x.new
      <4>1. x = e.deltas[1]
        BY <3>1, <3>2
      <4> HIDE DEF x, e
      <4> QED
        BY <3>1, <3>2, <4>1, WalkedAll
    <3>5. replaced = 0 => \A i \in DOMAIN e.deltas : i = 1
      BY <1>1 DEF Once, Short
    <3> QED
      BY <3>1, <3>3, <3>4, <3>5
  <2> QED
    BY <2>2, <2>3
<1> QED
  BY <1>1, OnceInvariance, PTL

-----------------------------------------------------------------------------
(* The client.                                                             *)

(* All the deltas of an entry are the same one, so a client that needs     *)
(* any needs them all.                                                     *)
Uniform(m) == \A s \in Shard : m[s] # None =>
                  \A i \in DOMAIN m[s].deltas : m[s].deltas[i] = m[s].deltas[1]

Offered == {latest, mirror} \ {None}

ClientInv ==
    /\ client \in [version : 0..MaxDay, rows : Maybe(Revision \cup {Mixed}), synced : BOOLEAN]
    /\ \A m \in Offered : Uniform(m)
    /\ replaced = 0 =>
          /\ \A m \in Offered : \E r \in Released : m = release[r].manifest
          /\ client.version # 0 =>
                client.version \in Released /\ client.rows = RowsAt(client.version, Watched)

LEMMA PublishedUniform ==
    ASSUME Inv, publish # None
    PROVE  Uniform(publish.assets.manifest) /\ publish.assets.manifest \in Manifest
<1> DEFINE a == publish.assets
           rel == WithToday(a)
<1>1. a \in Assets /\ Stands(a)
  BY DEF Inv, JobSound, Typed, Maybe, Job
<1>2. rel[day] = a
  BY <1>1, WithTodayIs DEF Inv
<1>3. ASSUME NEW s \in Shard, a.manifest[s] # None, NEW i \in DOMAIN a.manifest[s].deltas
      PROVE  a.manifest[s].deltas[i] = a.manifest[s].deltas[1]
  <2>1. a.manifest[s] \in ManifestEntry /\ Supported(rel, s, a.manifest[s])
    BY <1>1, <1>2, <1>3, AssetsTyped DEF Stands, Sound, Maybe
  <2>2. a.manifest[s].deltas \in Seq(Delta)
    BY <2>1 DEF ManifestEntry
  <2>3. 1 \in DOMAIN a.manifest[s].deltas
    BY <1>3, <2>2
  <2>4. a.manifest[s].deltas = <<>> \/
        \A j \in DOMAIN a.manifest[s].deltas :
            a.manifest[s].deltas[j] = rel[a.manifest[s].head].delta[s]
    <3>1. CASE a.manifest[s] = Fresh(a.manifest[s].head)
      BY <3>1 DEF Fresh
    <3>2. CASE a.manifest[s] # Fresh(a.manifest[s].head)
      BY <2>1, <3>2 DEF Supported
    <3> QED
      BY <3>1, <3>2
  <2> QED
    BY <1>3, <2>3, <2>4
<1> QED
  BY <1>1, <1>3 DEF Uniform, Assets

(* What an update may leave the client with.                               *)
LEMMA Installed ==
    ASSUME Inv, NEW e \in ManifestEntry, NEW synced \in BOOLEAN,
           InstallBaseline(e, synced)
    PROVE  /\ client' \in [version : 0..MaxDay, rows : Maybe(Revision \cup {Mixed}), synced : BOOLEAN]
           /\ client'.version = e.baseline /\ e.baseline \in Released
           /\ client'.rows = RowsAt(e.baseline, Watched)
<1>1. e.baseline \in Day /\ Watched \in Shard
  BY PipelineAssumption DEF ManifestEntry
<1>2. release[e.baseline] # None /\ Served(e.baseline, "baseline") = release[e.baseline].baseline[Watched]
      /\ release[e.baseline].baseline[Watched] # None
  BY DEF InstallBaseline, Served
<1>3. release[e.baseline].baseline[Watched] \in Revision
  BY <1>1, <1>2, ReleaseTyped, AssetsTyped DEF Inv, Maybe
<1>4. e.baseline \in 0..MaxDay
  BY <1>1, Numbers DEF Day
<1> QED
  BY <1>1, <1>2, <1>3, <1>4 DEF InstallBaseline, Released, RowsAt, Maybe

LEMMA ClientUpdateInv ==
    ASSUME Inv, Once, ClientInv, ClientUpdate
    PROVE  ClientInv'
<1>1. UNCHANGED <<release, latest, mirror, replaced>>
  BY DEF ClientUpdate
<1>2. PICK m \in Offered : m[Watched] # None /\ UpdateFrom(m[Watched], m = latest)
  BY DEF ClientUpdate, Offered
<1> DEFINE e == m[Watched]
           v == client.version
           chain == Chain(e, v)
           x == e.deltas[1]
<1>3. Watched \in Shard /\ m \in Manifest /\ e \in ManifestEntry
  BY <1>2, PipelineAssumption DEF Offered, Inv, Typed, Manifest, Maybe
<1>4. /\ client \in [version : 0..MaxDay, rows : Maybe(Revision \cup {Mixed}), synced : BOOLEAN]
      /\ \A i \in DOMAIN e.deltas : e.deltas[i] = x
  BY <1>2, <1>3 DEF ClientInv, Uniform
<1>5. e.deltas \in Seq(Delta) /\ e.head \in Day
  BY <1>3 DEF ManifestEntry
<1>6. Offered' = Offered /\ Released' = Released
  BY <1>1 DEF Offered, Released
<1> SUFFICES /\ client' \in [version : 0..MaxDay, rows : Maybe(Revision \cup {Mixed}), synced : BOOLEAN]
             /\ replaced = 0 /\ client'.version # 0 =>
                   /\ client'.version \in Released
                   /\ client'.rows = RowsAt(client'.version, Watched)
  BY <1>1, <1>6 DEF ClientInv, RowsAt
<1>7. CASE InstallBaseline(e, m = latest)
  BY <1>3, <1>7, Installed
<1>8. CASE client' = [client EXCEPT !.synced = (m = latest)]
  BY <1>4, <1>8 DEF ClientInv
<1>9. CASE /\ chain # {} /\ e.deltas[First(chain)].from = v
           /\ \A i \in chain : Served(e.deltas[i].to, "delta") = e.deltas[i]
           /\ client' = [version |-> e.head, rows |-> Walked(client.rows, e.deltas, chain),
                         synced |-> (m = latest)]
  <2>1. chain \subseteq DOMAIN e.deltas /\ e.deltas # <<>>
    BY <1>5, <1>9 DEF Chain
  <2>2. x \in Delta /\ 1 \in DOMAIN e.deltas
    BY <1>5, <2>1
  <2>3. chain = DOMAIN e.deltas
    BY <1>4, <1>9, <2>1 DEF Chain
  <2>4. Walked(client.rows, e.deltas, chain) \in {x.new, Mixed}
    BY <1>4, <1>5, <2>1, <2>3, WalkedAll
  <2>5. client' \in [version : 0..MaxDay, rows : Maybe(Revision \cup {Mixed}), synced : BOOLEAN]
    BY <1>5, <1>9, <2>2, <2>4, Numbers DEF Delta, Day, Maybe
  <2>6. ASSUME replaced = 0
        PROVE  /\ client'.version \in Released
               /\ client'.rows = RowsAt(client'.version, Watched)
    <3>1. PICK r \in Released : e = release[r].manifest[Watched] /\ e # None
      BY <1>2, <2>6 DEF ClientInv
    <3>2. Supported(release, Watched, e) /\ e.head \in Released
      <4>1. /\ Supported(release, Watched, release[r].manifest[Watched])
            /\ release[r].manifest[Watched].head \in Day
        BY <1>3, <3>1, EntrySound
      <4>2. Supported(release, Watched, e) /\ e.head \in Day
        BY <3>1, <4>1
      <4>3. release[e.head] # None
        BY <4>2 DEF Supported
      <4> QED
        BY <4>2, <4>3 DEF Released
    <3>3. DOMAIN e.deltas = {1}
      BY <1>3, <2>2, <2>6, <3>1 DEF Once, Short
    <3>4. First(chain) = 1
      BY <1>5, <2>1, <2>3, LastOfPrefix
    <3>5. x.from = v /\ v # 0 /\ client.rows = RowsAt(v, Watched)
      <4>1. x.from = v
        BY <1>9, <3>4
      <4>2. x.from \in Day /\ 0 \notin Day
        BY <2>2, PipelineAssumption DEF Delta, Day
      <4> QED
        BY <2>6, <4>1, <4>2 DEF ClientInv
    <3>6. e # Fresh(e.head)
      BY <2>1 DEF Fresh
    <3>7. /\ release[e.head].baseline[Watched] = None
          /\ x = release[e.head].delta[Watched]
          /\ x.from = e.baseline
          /\ x.old = release[e.baseline].baseline[Watched]
          /\ release[e.baseline].baseline[Watched] # None
      BY <2>2, <3>2, <3>6 DEF Supported
    <3>8. client.rows = x.old
      BY <3>5, <3>7 DEF RowsAt
    <3>9. Walked(client.rows, e.deltas, chain) = x.new
      BY <1>4, <1>5, <2>1, <2>3, <3>8, WalkedAll
    <3> QED
      BY <1>9, <3>2, <3>7, <3>9 DEF RowsAt
  <2> QED
    BY <2>5, <2>6
<1> QED
  <2> HIDE DEF e, v, chain
  <2>1. UpdateFrom(e, m = latest)
    BY <1>2 DEF e
  <2> QED
    BY <1>7, <1>8, <1>9, <2>1 DEF UpdateFrom, e, v, chain

LEMMA ClientNext ==
    ASSUME Inv, Once, ClientInv, [Next]_vars
    PROVE  ClientInv'
<1>1. replaced \in Nat /\ day \in Day
  BY PipelineAssumption DEF Inv, Typed
<1>2. CASE UNCHANGED <<release, latest, mirror, replaced, client>>
  BY <1>2 DEF ClientInv, Offered, Released, RowsAt
<1>3. CASE DeleteRelease
  BY <1>1, <1>3 DEF DeleteRelease, ClientInv, Offered
<1>4. CASE CreateRelease
  <2>1. /\ release' = [release EXCEPT ![day] = publish.assets] /\ release[day] = None
        /\ publish # None /\ publish.assets \in Assets
        /\ UNCHANGED <<latest, mirror, replaced, client>>
    BY <1>4 DEF CreateRelease, Inv, Typed, Maybe, Job
  <2>2. \A r \in Released : r \in Released' /\ release'[r] = release[r]
    BY <1>1, <2>1 DEF Released, Inv, Typed
  <2>3. Offered' = Offered
    BY <2>1 DEF Offered
  <2>4. \A r \in Released : RowsAt(r, Watched)' = RowsAt(r, Watched)
    BY <2>2 DEF RowsAt
  <2>5. replaced' = 0 => \A m \in Offered' : \E r \in Released' : m = release'[r].manifest
    BY <2>1, <2>2, <2>3 DEF ClientInv
  <2>6. replaced' = 0 /\ client'.version # 0 =>
           client'.version \in Released' /\ client'.rows = RowsAt(client.version, Watched)'
    BY <2>1, <2>2, <2>4 DEF ClientInv
  <2> QED
    BY <2>1, <2>3, <2>5, <2>6 DEF ClientInv
<1>5. CASE DropLatest
  <2>1. Offered' \subseteq Offered /\ UNCHANGED <<release, replaced, client>>
    BY <1>5 DEF DropLatest, Offered
  <2> QED
    BY <2>1 DEF ClientInv, Released, RowsAt
<1>6. CASE CreateLatest \/ PushMirror
  <2>1. publish # None /\ publish.step \in {"latest", "mirror"}
    BY <1>6 DEF CreateLatest, PushMirror
  <2>2. /\ Uniform(publish.assets.manifest) /\ release[day] = publish.assets
        /\ day \in Released
    <3>1. publish.assets \in Assets
      BY <2>1 DEF Inv, Typed, Maybe, Job
    <3> QED
      BY <1>1, <2>1, <3>1, PublishedUniform, NoneIsNoFile DEF Inv, JobSound, Released
  <2>3. /\ Offered' \subseteq Offered \cup {publish.assets.manifest}
        /\ UNCHANGED <<release, replaced>>
        /\ client'.version = client.version /\ client'.rows = client.rows
        /\ client' \in [version : 0..MaxDay, rows : Maybe(Revision \cup {Mixed}), synced : BOOLEAN]
    BY <1>6 DEF CreateLatest, PushMirror, Offered, ClientInv
  <2>4. \A m \in Offered' : Uniform(m)
    BY <2>2, <2>3 DEF ClientInv
  <2>5. Released' = Released /\ \A d : RowsAt(d, Watched)' = RowsAt(d, Watched)
    BY <2>3 DEF Released, RowsAt
  <2>6. replaced = 0 => \A m \in Offered' : \E r \in Released : m = release[r].manifest
    BY <2>2, <2>3 DEF ClientInv
  <2>7. replaced = 0 /\ client'.version # 0 =>
           client'.version \in Released /\ client'.rows = RowsAt(client.version, Watched)
    BY <2>3 DEF ClientInv
  <2>8. \A m : Uniform(m)' = Uniform(m)
    BY DEF Uniform
  <2> QED
    BY <2>3, <2>4, <2>5, <2>6, <2>7, <2>8 DEF ClientInv
<1>7. CASE ClientUpdate
  BY <1>7, ClientUpdateInv
<1>8. CASE \/ NewDay
           \/ \E s \in Shard : UpstreamChanges(s)
           \/ \E p \in Provider :
                 \/ \E force \in BOOLEAN : Discover(p, force)
                 \/ \E s \in Shard : Ingest(p, s)
                 \/ Bundle(p)
                 \/ RunFails(p)
           \/ Assemble \/ PublishDies
           \/ UNCHANGED vars
  BY <1>2, <1>8 DEF NewDay, UpstreamChanges, Discover, Ingest, Bundle, RunFails, Assemble,
                    PublishDies, vars
<1> QED
  BY <1>3, <1>4, <1>5, <1>6, <1>7, <1>8 DEF Next

THEOREM ClientInvariance == AsDocumented /\ Spec => [](Inv /\ ClientInv)
<1>1. Init => ClientInv
  <2>1. ASSUME Init
        PROVE  /\ client \in [version : 0..MaxDay, rows : Maybe(Revision \cup {Mixed}), synced : BOOLEAN]
               /\ Offered = {} /\ client.version = 0
    BY <2>1, PipelineAssumption DEF Init, Maybe, Offered
  <2> QED
    BY <2>1 DEF ClientInv
<1>2. Inv /\ Once /\ ClientInv /\ [Next]_vars => ClientInv'
  BY ClientNext
<1> QED
  BY <1>1, <1>2, OnceInvariance, PTL DEF Spec

(* Every file is of its kind: no delta is made without the baseline it     *)
(* starts from, and no client has rows of an unknown origin.               *)
THEOREM TypeCorrect == AsDocumented /\ Spec => []TypeOK
<1>1. Inv /\ ClientInv => TypeOK
  BY DEF Inv, Typed, ClientInv, TypeOK
<1> QED
  BY <1>1, ClientInvariance, PTL

(* A client that says it is at version v has the rows built for v, through *)
(* whichever manifest it came there, if no release was replaced.           *)
THEOREM ClientsExact == AsDocumented /\ Spec => []ClientExact
<1>1. ClientInv => ClientExact
  BY DEF ClientInv, ClientExact
<1> QED
  BY <1>1, ClientInvariance, PTL

-----------------------------------------------------------------------------
(* The manifest behind the CDN.                                            *)

Reaches(m, s) == m[s] # None /\ mirror[s].head <= m[s].head

MirrorInv ==
    mirror # None /\ ~lost => \A s \in Shard : mirror[s] # None =>
        /\ publish # None => Reaches(publish.assets.manifest, s)
        /\ \/ publish # None /\ publish.step = "recreate"
           \/ Newest # 0 /\ Reaches(release[Newest].manifest, s)

LEMMA AssembledReaches ==
    ASSUME AsDocumented, Inv, NEW s \in Shard, mirror # None, mirror[s] # None,
           Newest # 0, Reaches(release[Newest].manifest, s),
           NEW before \in Fetched("manifest", Newest, Nothing), NEW state \in State
    PROVE  Reaches(NewAssets(before, state).manifest, s)
<1> DEFINE n == release[Newest].manifest[s]
           new == Entry(File(s), before[s])
<1>1. Newest = (IF release[day] # None THEN day ELSE Past) /\ day \in Nat
      /\ Past \in Nat /\ Past < day
  BY NewestIs, Numbers DEF Inv, Typed, Gone, IsPast
<1>2. Newest \in Released
  BY <1>1, Numbers DEF Inv, Typed, Released, Gone, IsPast, Day
<1>3. n \in ManifestEntry /\ n.head <= Newest /\ n.head \in Nat
  BY <1>2, EntrySound, Numbers DEF Reaches
<1>4. before[s] = n
  BY <1>1, BeforeIs DEF Before
<1>5. mirror[s] \in ManifestEntry /\ mirror[s].head \in Nat
  BY Numbers DEF Inv, Typed, Maybe, Manifest, ManifestEntry
<1>6. mirror[s].head <= n.head /\ mirror[s].head <= day
  BY <1>1, <1>3, <1>5 DEF Reaches
<1>7. new = n \/ (new # None /\ new.head = day)
  <2>1. CASE File(s).baseline # None
    <3>1. new = Fresh(day) /\ day \in Day
      BY <2>1 DEF Entry, Fresh, Inv, Typed
    <3>2. <<>> \in Seq(Delta)
      OBVIOUS
    <3>3. Fresh(day) \in ManifestEntry
      BY <3>1, <3>2 DEF Fresh, ManifestEntry
    <3> QED
      BY <3>1, <3>3, NoneIsNoFile DEF Fresh
  <2>2. CASE File(s).baseline = None /\ File(s).delta # None
    <3> DEFINE x == File(s).delta
    <3>1. x \in Delta /\ day \in Day
      BY <2>2, FileTyped DEF Inv, Typed, Maybe
    <3>2. new = [n EXCEPT !.head = day, !.deltas = Append(@, x)]
      BY <1>4, <2>2 DEF Entry
    <3>3. new = [baseline |-> n.baseline, head |-> day, deltas |-> Append(n.deltas, x)]
      BY <1>3, <3>2 DEF ManifestEntry
    <3>4. Append(n.deltas, x) \in Seq(Delta)
      BY <1>3, <3>1 DEF ManifestEntry
    <3>5. new \in ManifestEntry
      BY <1>3, <3>1, <3>3, <3>4 DEF ManifestEntry
    <3>6. new.head = day
      BY <3>3
    <3> HIDE DEF new
    <3> QED
      BY <3>5, <3>6, NoneIsNoFile
  <2>3. CASE File(s).baseline = None /\ File(s).delta = None
    BY <1>4, <2>3 DEF Entry
  <2> QED
    BY <2>1, <2>2, <2>3
<1>8. NewAssets(before, state).manifest[s] = new
  BY DEF NewAssets
<1> HIDE DEF new
<1> QED
  BY <1>3, <1>6, <1>7, <1>8, NoneIsNoFile DEF Reaches

LEMMA MirrorNext ==
    ASSUME AsDocumented, Inv, MirrorInv, [Next]_vars
    PROVE  /\ MirrorInv'
           /\ \A s \in Shard : mirror # None /\ mirror[s] # None /\ ~lost /\ mirror' # mirror =>
                  mirror'[s] # None /\ mirror[s].head <= mirror'[s].head
<1>1. day \in Day /\ day \in Nat /\ lost \in BOOLEAN
  BY Numbers DEF Inv, Typed
<1>2. ASSUME publish # None
      PROVE  publish \in Job /\ publish.assets \in Assets /\ publish.assets # None
             /\ publish.assets.manifest \in Manifest
  BY <1>2, NoneIsNoFile DEF Inv, Typed, Maybe, Job, Assets
<1>3. release' = release => Newest' = Newest
  BY DEF Newest, Released
<1>4. ASSUME release[day] # None PROVE Newest = day /\ day # 0
  BY <1>1, <1>4, NewestIs, PipelineAssumption DEF Inv, Day
<1>5. CASE UNCHANGED <<publish, release, mirror, lost>>
  BY <1>3, <1>5 DEF MirrorInv, Reaches
<1>6. CASE Assemble
  <2> DEFINE ready == {p \in Provider : artifact[p] # None}
  <2>1. PICK before \in Fetched("manifest", Newest, Nothing),
             rank \in Bijection(ready, 1..Cardinality(ready)), state \in State :
          publish' = [step |-> "create", assets |-> NewAssets(before, state)]
    BY <1>6 DEF Assemble
  <2>2. publish = None /\ UNCHANGED <<release, mirror, lost>>
    BY <1>6 DEF Assemble
  <2>3. ASSUME NEW s \in Shard, mirror # None, ~lost, mirror[s] # None
        PROVE  /\ Reaches(NewAssets(before, state).manifest, s)
               /\ Newest # 0 /\ Reaches(release[Newest].manifest, s)
    BY <2>2, <2>3, AssembledReaches DEF MirrorInv
  <2>4. publish'.assets.manifest = NewAssets(before, state).manifest
    BY <2>1
  <2> QED
    BY <1>3, <2>2, <2>3, <2>4 DEF MirrorInv, Reaches
<1>7. CASE DeleteRelease
  <2>1. publish # None /\ UNCHANGED <<mirror, lost>> /\ publish' = [publish EXCEPT !.step = "recreate"]
    BY <1>7 DEF DeleteRelease
  <2>2. publish'.step = "recreate" /\ publish'.assets = publish.assets
        /\ publish' \in Job /\ publish' # None
    BY <1>2, <2>1, NoneIsNoFile DEF Job
  <2> QED
    BY <2>1, <2>2 DEF MirrorInv, Reaches
<1>8. CASE CreateRelease
  <2>1. publish # None /\ UNCHANGED <<mirror, lost>>
        /\ release' = [release EXCEPT ![day] = publish.assets]
        /\ publish' = [publish EXCEPT !.step = "drop"]
    BY <1>8 DEF CreateRelease
  <2>2. publish'.assets = publish.assets
    BY <1>2, <2>1 DEF Job
  <2>3. release'[day] = publish.assets /\ \A d \in Day : d # day => release'[d] = release[d]
    BY <1>1, <2>1 DEF Inv, Typed
  <2>4. Newest' = day /\ day # 0
    <3>1. \A d \in Day : release[d] # None => d <= Past \/ d = day
      BY DEF Inv, Gone, IsPast
    <3>2. Past < day /\ Past \in Nat
      BY Numbers DEF Inv, Gone, IsPast
    <3>3. day \in Released' /\ \A d \in Released' : d <= day
      BY <1>1, <1>2, <2>1, <2>3, <3>1, <3>2, Numbers DEF Released
    <3>4. \A d \in Released' : (\A k \in Released' : k <= d) => d = day
      BY <1>1, <3>3, Numbers DEF Released
    <3>5. day # 0
      BY <1>1, PipelineAssumption DEF Day
    <3> QED
      BY <3>3, <3>4, <3>5 DEF Newest
  <2> QED
    BY <2>1, <2>2, <2>3, <2>4 DEF MirrorInv, Reaches
<1>9. CASE DropLatest \/ CreateLatest
  <2>1. publish # None /\ publish.step # "recreate" /\ UNCHANGED <<mirror, lost, release>>
        /\ publish'.assets = publish.assets
    BY <1>2, <1>9 DEF DropLatest, CreateLatest, Job
  <2> QED
    BY <1>3, <2>1 DEF MirrorInv, Reaches
<1>10. CASE PushMirror
  <2>1. publish # None /\ publish.step = "mirror" /\ UNCHANGED <<lost, release>>
        /\ mirror' = publish.assets.manifest /\ publish' = None
    BY <1>10 DEF PushMirror
  <2>2. release[day] = publish.assets /\ Newest' = day /\ day # 0
    BY <1>2, <1>3, <1>4, <2>1 DEF Inv, JobSound
  <2>3. \A s \in Shard : mirror'[s] # None => mirror'[s].head \in Nat
    BY <1>2, <2>1, Numbers DEF Manifest, Maybe, ManifestEntry
  <2>4. MirrorInv'
    BY <2>1, <2>2, <2>3 DEF MirrorInv, Reaches
  <2>5. \A s \in Shard : mirror # None /\ mirror[s] # None /\ ~lost =>
            mirror'[s] # None /\ mirror[s].head <= mirror'[s].head
    BY <2>1 DEF MirrorInv, Reaches
  <2> QED
    BY <2>4, <2>5
<1>11. CASE PublishDies
  <2>1. publish # None /\ publish' = None /\ UNCHANGED <<mirror, release>>
        /\ lost' = (lost \/ publish.step = "recreate")
    BY <1>11 DEF PublishDies
  <2> QED
    BY <1>1, <1>3, <2>1 DEF MirrorInv, Reaches
<1>12. CASE \/ NewDay
            \/ \E s \in Shard : UpstreamChanges(s)
            \/ \E p \in Provider :
                  \/ \E force \in BOOLEAN : Discover(p, force)
                  \/ \E s \in Shard : Ingest(p, s)
                  \/ Bundle(p)
                  \/ RunFails(p)
            \/ ClientUpdate
            \/ UNCHANGED vars
  BY <1>5, <1>12 DEF NewDay, UpstreamChanges, Discover, Ingest, Bundle, RunFails,
                     ClientUpdate, vars
<1> QED
  BY <1>6, <1>7, <1>8, <1>9, <1>10, <1>11, <1>12 DEF Next

(* While every previous manifest could be downloaded and no release has    *)
(* been lost, the manifest behind the CDN never loses a shard nor goes     *)
(* back: what a failed provider leaves out is carried over.  A download    *)
(* that fails (build_manifest.sh, which goes on with an empty manifest) is *)
(* excluded by AsDocumented, and does lose shards.                         *)
THEOREM MirrorNeverGoesBack == AsDocumented /\ Spec => MirrorAdvances
<1>1. Init => MirrorInv
  BY DEF Init, MirrorInv
<1>2. AsDocumented /\ Inv /\ MirrorInv /\ [Next]_vars => MirrorInv'
  BY MirrorNext
<1>3. AsDocumented /\ Inv /\ MirrorInv /\ [Next]_vars =>
          [\A s \in Shard : mirror # None /\ mirror[s] # None /\ ~lost =>
               mirror'[s] # None /\ mirror[s].head <= mirror'[s].head]_mirror
  BY MirrorNext
<1>4. AsDocumented => AsDocumented'
  BY DEF AsDocumented
<1> QED
  BY <1>1, <1>2, <1>3, <1>4, Invariance, PTL DEF Spec, MirrorAdvances
=============================================================================
