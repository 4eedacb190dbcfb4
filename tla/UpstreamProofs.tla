--------------------------- MODULE UpstreamProofs ---------------------------
(***************************************************************************)
(* Proofs about Upstream, for any sources, price lists and bounds.         *)
(*                                                                         *)
(* Versions only go up (Times).  While a list is fetched, what has arrived *)
(* is of the version the index names, or of one not older than the run     *)
(* (Arrived); what lies in the directory when all has arrived is the whole *)
(* list (Ready).  The ETag kept, once a shard was built of its list, is     *)
(* that of the shard, or older than the provider's (Cached), so a 304 names *)
(* the shard's version (ReuseSound).  A price that has been looked up, had  *)
(* an answer and is not reported was close to it (LookedUp).                *)
(***************************************************************************)
EXTENDS Upstream, FiniteSetTheorems, TLAPS

Absent == Versions \union {F!None}

Typed ==
  /\ upstream \in Versions /\ src \in Sources /\ runs \in 0..MaxRuns /\ fresh \in BOOLEAN
  /\ pc \in {"idle", "head", "index", "getting", "failing", "fetched", "reused", "failed"}
  /\ reached \in {"elsewhere", "fetched", "built", "released"}
  /\ {pin, etag, seen} \subseteq Absent
  /\ got \in [F!Parts -> Absent] /\ raw \in [F!Parts -> Absent] /\ dir \in [F!Parts -> Absent]
  /\ tries \in [F!Parts -> 0..Retries]
  /\ shard.of \in [F!Parts -> Absent] /\ released.of \in [F!Parts -> Absent]

Times ==
  /\ began \in 1..upstream /\ etag <= upstream
  /\ pc \in {"head", "reused"} => src.shape = "offer"
  /\ pc \in {"index", "failing"} => src.shape = "regions"
  /\ src.shape # "regions" => raw = F!Nothing /\ pin = F!None
  /\ src.shape # "offer" => etag = F!None
  /\ pc \in {"idle", "failed", "head", "index"} => got = F!Nothing /\ pin = F!None

(* A part received. *)
Arrived ==
  pc \in {"getting", "failing"} =>
    IF src.shape = "regions"
    THEN fresh => /\ pin \in began..upstream
                  /\ \A p \in F!Parts : /\ {raw[p], dir[p]} \subseteq {pin, F!None}
                                        /\ got[p] # F!None => pin \in {raw[p], dir[p]}
    ELSE \A p \in F!Parts : got[p] # F!None =>
           /\ got[p] \in began..upstream
           /\ src.shape # "pages" => dir[p] = got[p]
           /\ src.shape = "offer" => seen <= got[p]

(* All parts, about to become a shard. *)
Ready ==
  /\ pc = "index" /\ fresh => raw = F!Nothing /\ dir = F!Nothing
  /\ pc = "getting" /\ src.shape = "offer" => seen # F!None /\ seen <= upstream
  /\ pc = "fetched" =>
       /\ fresh \/ src.shape # "regions" => \A p \in F!Parts : dir[p] \in began..upstream
       /\ src.shape = "regions" /\ fresh => \A p, q \in F!Parts : dir[p] = dir[q]
       /\ src.shape = "offer" => \A p \in F!Parts : etag <= dir[p]

(* The list that the ETag kept stands for. *)
Cached ==
  etag # F!None =>
    /\ reached \in {"built", "released"} =>
         \A p \in F!Parts : shard.of[p] = etag \/ etag < upstream
    /\ reached = "released" =>
         \A p \in F!Parts : released.of[p] = etag \/ etag < upstream

(* A 304: what Release and Reuse may make the shard of today. *)
ReuseSound ==
  pc = "reused" =>
    /\ reached \in {"built", "released"} => \A p \in F!Parts : shard.of[p] = seen
    /\ reached = "released" => \A p \in F!Parts : released.of[p] = seen

FInv == Typed /\ Times /\ Arrived /\ Ready /\ ListWhole /\ Cached /\ ReuseSound

fetchVariables ==
  <<src, runs, fresh, began, pc, pin, got, tries, raw, dir, etag, seen, reached, shard,
    released>>
-----------------------------------------------------------------------------
LEMMA Initially == Init => FInv
<1> SUFFICES ASSUME Init PROVE FInv
  OBVIOUS
<1> USE DEF Init, F!FetchInit, F!Nothing, F!None, F!Parts
<1>1. upstream \in Versions
  BY BoundsPositive DEF Versions
<1>2. 0 \in 0..Retries /\ 0 \in 0..MaxRuns
  BY BoundsPositive
<1>3. shard.of = [p \in src.parts |-> upstream]
  OBVIOUS
<1>4. Typed
  BY <1>1, <1>2, <1>3 DEF Typed, Absent
<1>5. Times /\ Arrived /\ Ready /\ Cached /\ ReuseSound
  BY <1>1 DEF Times, Arrived, Ready, Cached, ReuseSound, Versions
<1>6. ListWhole
  BY <1>1 DEF ListWhole, WholeShard, Versions
<1> QED
  BY <1>4, <1>5, <1>6 DEF FInv

(* The provider going on does not make what was fetched worse. *)
LEMMA PricesGoOn ==
  ASSUME FInv, F!UpstreamChanges, UNCHANGED fetchVariables
  PROVE  FInv'
BY BoundsPositive
   DEF FInv, Typed, Times, Arrived, Ready, ListWhole, WholeShard, Cached, ReuseSound, Absent,
       Versions, F!UpstreamChanges, fetchVariables, F!Parts, F!Nothing, F!None

LEMMA NotModifiedKeeps ==
  ASSUME FInv, UNCHANGED upstream, F!NotModified
  PROVE  FInv'
<1> USE BoundsPositive
    DEF Versions, Absent, F!NotModified, F!run, F!requests, F!files, F!Parts, F!Nothing, F!None, F!Exit,
        F!Asking, F!Resting
<1>1. Typed'
  BY DEF FInv, Typed
<1>2. Times'
  BY DEF FInv, Typed, Times
<1>3. Arrived'
  BY DEF FInv, Typed, Times, Arrived
<1>4. Ready'
  BY DEF FInv, Typed, Times, Arrived, Ready
<1>5. ListWhole'
  BY DEF FInv, Typed, Times, Ready, ListWhole, WholeShard
<1>6. Cached'
  BY DEF FInv, Typed, Times, Ready, Cached
<1>7. ReuseSound'
  BY DEF FInv, Typed, Times, Cached, ReuseSound
<1> QED
  BY <1>1, <1>2, <1>3, <1>4, <1>5, <1>6, <1>7 DEF FInv

LEMMA ModifiedKeeps ==
  ASSUME FInv, UNCHANGED upstream, F!Modified
  PROVE  FInv'
<1> USE BoundsPositive
    DEF Versions, Absent, F!Modified, F!run, F!requests, F!files, F!Parts, F!Nothing, F!None, F!Exit,
        F!Asking, F!Resting
<1>1. Typed'
  BY DEF FInv, Typed
<1>2. Times'
  BY DEF FInv, Typed, Times
<1>3. Arrived'
  BY DEF FInv, Typed, Times, Arrived
<1>4. Ready'
  BY DEF FInv, Typed, Times, Arrived, Ready
<1>5. ListWhole'
  BY DEF FInv, Typed, Times, Ready, ListWhole, WholeShard
<1>6. Cached'
  BY DEF FInv, Typed, Times, Ready, Cached
<1>7. ReuseSound'
  BY DEF FInv, Typed, Times, Cached, ReuseSound
<1> QED
  BY <1>1, <1>2, <1>3, <1>4, <1>5, <1>6, <1>7 DEF FInv

LEMMA ReadIndexKeeps ==
  ASSUME FInv, UNCHANGED upstream, F!ReadIndex
  PROVE  FInv'
<1> USE BoundsPositive
    DEF Versions, Absent, F!ReadIndex, F!run, F!requests, F!files, F!Parts, F!Nothing, F!None, F!Exit,
        F!Asking, F!Resting
<1>1. Typed'
  BY DEF FInv, Typed
<1>2. Times'
  BY DEF FInv, Typed, Times
<1>3. Arrived'
  BY DEF FInv, Typed, Times, Ready, Arrived
<1>4. Ready'
  BY DEF FInv, Typed, Times, Arrived, Ready
<1>5. ListWhole'
  BY DEF FInv, Typed, Times, Ready, ListWhole, WholeShard
<1>6. Cached'
  BY DEF FInv, Typed, Times, Ready, Cached
<1>7. ReuseSound'
  BY DEF FInv, Typed, Times, Cached, ReuseSound
<1> QED
  BY <1>1, <1>2, <1>3, <1>4, <1>5, <1>6, <1>7 DEF FInv

LEMMA AskFailsKeeps ==
  ASSUME FInv, UNCHANGED upstream, F!AskFails
  PROVE  FInv'
<1> USE BoundsPositive
    DEF Versions, Absent, F!AskFails, F!run, F!requests, F!files, F!Parts, F!Nothing, F!None, F!Exit,
        F!Asking, F!Resting
<1>1. Typed'
  BY DEF FInv, Typed
<1>2. Times'
  BY DEF FInv, Typed, Times
<1>3. Arrived'
  BY DEF FInv, Typed, Times, Arrived
<1>4. Ready'
  BY DEF FInv, Typed, Times, Arrived, Ready
<1>5. ListWhole'
  BY DEF FInv, Typed, Times, Ready, ListWhole, WholeShard
<1>6. Cached'
  BY DEF FInv, Typed, Times, Ready, Cached
<1>7. ReuseSound'
  BY DEF FInv, Typed, Times, Cached, ReuseSound
<1> QED
  BY <1>1, <1>2, <1>3, <1>4, <1>5, <1>6, <1>7 DEF FInv

LEMMA PoolEndsKeeps ==
  ASSUME FInv, UNCHANGED upstream, F!PoolEnds
  PROVE  FInv'
<1> USE BoundsPositive
    DEF Versions, Absent, F!PoolEnds, F!run, F!requests, F!files, F!Parts, F!Nothing, F!None, F!Exit,
        F!Asking, F!Resting
<1>1. Typed'
  BY DEF FInv, Typed
<1>2. Times'
  BY DEF FInv, Typed, Times
<1>3. Arrived'
  BY DEF FInv, Typed, Times, Arrived
<1>4. Ready'
  BY DEF FInv, Typed, Times, Arrived, Ready
<1>5. ListWhole'
  BY DEF FInv, Typed, Times, Ready, ListWhole, WholeShard
<1>6. Cached'
  BY DEF FInv, Typed, Times, Ready, Cached
<1>7. ReuseSound'
  BY DEF FInv, Typed, Times, Cached, ReuseSound
<1> QED
  BY <1>1, <1>2, <1>3, <1>4, <1>5, <1>6, <1>7 DEF FInv

LEMMA FetchedKeeps ==
  ASSUME FInv, UNCHANGED upstream, F!Fetched
  PROVE  FInv'
<1> USE BoundsPositive
    DEF Versions, Absent, F!Fetched, F!run, F!requests, F!files, F!Parts, F!Nothing, F!None, F!Exit,
        F!Asking, F!Resting
<1>1. Typed'
  BY DEF FInv, Typed
<1>2. Times'
  BY DEF FInv, Typed, Times, Ready
<1>3. Arrived'
  BY DEF FInv, Typed, Times, Arrived
<1>4. Ready'
  BY DEF FInv, Typed, Times, Arrived, Ready
<1>5. ListWhole'
  BY DEF FInv, Typed, Times, Ready, ListWhole, WholeShard
<1>6. Cached'
  BY DEF FInv, Typed, Times, Ready, Cached
<1>7. ReuseSound'
  BY DEF FInv, Typed, Times, Cached, ReuseSound
<1> QED
  BY <1>1, <1>2, <1>3, <1>4, <1>5, <1>6, <1>7 DEF FInv

LEMMA PublishKeeps ==
  ASSUME FInv, UNCHANGED upstream, F!Publish
  PROVE  FInv'
<1> USE BoundsPositive
    DEF Versions, Absent, F!Publish, F!run, F!requests, F!files, F!Parts, F!Nothing, F!None, F!Exit,
        F!Asking, F!Resting
<1>0. shard'.of = [p \in F!Parts |-> IF dir[p] = F!None THEN raw[p] ELSE dir[p]]
  OBVIOUS
<1>1. Typed'
  <2>1. shard'.of \in [F!Parts -> Absent]
    BY <1>0 DEF FInv, Typed
  <2>2. src' = src /\ F!Nothing \in [F!Parts -> Absent \intersect 0..Retries]
    OBVIOUS
  <2> QED
    BY <2>1, <2>2 DEF FInv, Typed
<1>2. Times'
  BY DEF FInv, Typed, Times
<1>3. Arrived'
  BY DEF FInv, Typed, Times, Arrived
<1>4. Ready'
  BY DEF FInv, Typed, Times, Arrived, Ready
<1>5. ListWhole'
  BY DEF FInv, Typed, Times, Ready, ListWhole, WholeShard
<1>6. Cached'
  BY DEF FInv, Typed, Times, Ready, Cached
<1>7. ReuseSound'
  BY DEF FInv, Typed, Times, Cached, ReuseSound
<1> QED
  BY <1>1, <1>2, <1>3, <1>4, <1>5, <1>6, <1>7 DEF FInv

LEMMA IngestFailsKeeps ==
  ASSUME FInv, UNCHANGED upstream, F!IngestFails
  PROVE  FInv'
<1> USE BoundsPositive
    DEF Versions, Absent, F!IngestFails, F!run, F!requests, F!files, F!Parts, F!Nothing, F!None, F!Exit,
        F!Asking, F!Resting
<1>1. Typed'
  BY DEF FInv, Typed
<1>2. Times'
  BY DEF FInv, Typed, Times
<1>3. Arrived'
  BY DEF FInv, Typed, Times, Arrived
<1>4. Ready'
  BY DEF FInv, Typed, Times, Arrived, Ready
<1>5. ListWhole'
  BY DEF FInv, Typed, Times, Ready, ListWhole, WholeShard
<1>6. Cached'
  BY DEF FInv, Typed, Times, Ready, Cached
<1>7. ReuseSound'
  BY DEF FInv, Typed, Times, Cached, ReuseSound
<1> QED
  BY <1>1, <1>2, <1>3, <1>4, <1>5, <1>6, <1>7 DEF FInv

LEMMA ReuseKeeps ==
  ASSUME FInv, UNCHANGED upstream, F!Reuse
  PROVE  FInv'
<1> USE BoundsPositive
    DEF Versions, Absent, F!Reuse, F!run, F!requests, F!files, F!Parts, F!Nothing, F!None, F!Exit,
        F!Asking, F!Resting
<1>1. Typed'
  BY DEF FInv, Typed
<1>2. Times'
  BY DEF FInv, Typed, Times
<1>3. Arrived'
  BY DEF FInv, Typed, Times, Arrived
<1>4. Ready'
  BY DEF FInv, Typed, Times, Arrived, Ready
<1>5. ListWhole'
  BY DEF FInv, Typed, Times, Ready, ListWhole, WholeShard
<1>6. Cached'
  BY DEF FInv, Typed, Times, Ready, Cached
<1>7. ReuseSound'
  BY DEF FInv, Typed, Times, Cached, ReuseSound
<1> QED
  BY <1>1, <1>2, <1>3, <1>4, <1>5, <1>6, <1>7 DEF FInv

LEMMA KillKeeps ==
  ASSUME FInv, UNCHANGED upstream, F!Kill
  PROVE  FInv'
<1> USE BoundsPositive
    DEF Versions, Absent, F!Kill, F!run, F!requests, F!files, F!Parts, F!Nothing, F!None, F!Exit,
        F!Asking, F!Resting
<1>1. Typed'
  BY DEF FInv, Typed
<1>2. Times'
  BY DEF FInv, Typed, Times
<1>3. Arrived'
  BY DEF FInv, Typed, Times, Arrived
<1>4. Ready'
  BY DEF FInv, Typed, Times, Arrived, Ready
<1>5. ListWhole'
  BY DEF FInv, Typed, Times, Ready, ListWhole, WholeShard
<1>6. Cached'
  BY DEF FInv, Typed, Times, Ready, Cached
<1>7. ReuseSound'
  BY DEF FInv, Typed, Times, Cached, ReuseSound
<1> QED
  BY <1>1, <1>2, <1>3, <1>4, <1>5, <1>6, <1>7 DEF FInv

LEMMA GetPartKeeps ==
  ASSUME FInv, UNCHANGED upstream, NEW p \in F!Parts, F!GetPart(p)
  PROVE  FInv'
<1> USE BoundsPositive
    DEF Versions, Absent, F!GetPart, F!run, F!requests, F!files, F!Parts, F!Nothing, F!None, F!Exit,
        F!Asking, F!Resting
<1>1. Typed'
  BY DEF FInv, Typed
<1>2. Times'
  BY DEF FInv, Typed, Times
<1>3. Arrived'
  <2>1. CASE src.shape = "regions"
    BY <2>1 DEF FInv, Typed, Times, Arrived
  <2>2. CASE src.shape # "regions"
    <3>1. got' = [got EXCEPT ![p] = upstream]
      BY <2>2 DEF FInv, Times
    <3>2. \A q \in src.parts : q # p => dir'[q] = dir[q]
      BY DEF FInv, Typed
    <3>3. src.shape # "pages" => dir'[p] = upstream
      BY <2>2, <3>1, SourcesShaped DEF FInv, Typed
    <3> QED
      BY <2>2, <3>1, <3>2, <3>3 DEF FInv, Typed, Times, Ready, Arrived
  <2> QED
    BY <2>1, <2>2
<1>4. Ready'
  BY DEF FInv, Typed, Times, Arrived, Ready
<1>5. ListWhole'
  BY DEF FInv, Typed, Times, Ready, ListWhole, WholeShard
<1>6. Cached'
  BY DEF FInv, Typed, Times, Ready, Cached
<1>7. ReuseSound'
  BY DEF FInv, Typed, Times, Cached, ReuseSound
<1> QED
  BY <1>1, <1>2, <1>3, <1>4, <1>5, <1>6, <1>7 DEF FInv

LEMMA StripPartKeeps ==
  ASSUME FInv, UNCHANGED upstream, NEW p \in F!Parts, F!StripPart(p)
  PROVE  FInv'
<1> USE BoundsPositive
    DEF Versions, Absent, F!StripPart, F!run, F!requests, F!files, F!Parts, F!Nothing, F!None, F!Exit,
        F!Asking, F!Resting
<1>1. Typed'
  BY DEF FInv, Typed
<1>2. Times'
  BY DEF FInv, Typed, Times
<1>3. Arrived'
  BY DEF FInv, Typed, Times, Arrived
<1>4. Ready'
  BY DEF FInv, Typed, Times, Arrived, Ready
<1>5. ListWhole'
  BY DEF FInv, Typed, Times, Ready, ListWhole, WholeShard
<1>6. Cached'
  BY DEF FInv, Typed, Times, Ready, Cached
<1>7. ReuseSound'
  BY DEF FInv, Typed, Times, Cached, ReuseSound
<1> QED
  BY <1>1, <1>2, <1>3, <1>4, <1>5, <1>6, <1>7 DEF FInv

LEMMA TryAgainKeeps ==
  ASSUME FInv, UNCHANGED upstream, NEW p \in F!Parts, F!TryAgain(p)
  PROVE  FInv'
<1> USE BoundsPositive
    DEF Versions, Absent, F!TryAgain, F!run, F!requests, F!files, F!Parts, F!Nothing, F!None, F!Exit,
        F!Asking, F!Resting
<1>1. Typed'
  BY DEF FInv, Typed
<1>2. Times'
  BY DEF FInv, Typed, Times
<1>3. Arrived'
  BY DEF FInv, Typed, Times, Arrived
<1>4. Ready'
  BY DEF FInv, Typed, Times, Arrived, Ready
<1>5. ListWhole'
  BY DEF FInv, Typed, Times, Ready, ListWhole, WholeShard
<1>6. Cached'
  BY DEF FInv, Typed, Times, Ready, Cached
<1>7. ReuseSound'
  BY DEF FInv, Typed, Times, Cached, ReuseSound
<1> QED
  BY <1>1, <1>2, <1>3, <1>4, <1>5, <1>6, <1>7 DEF FInv

LEMMA GiveUpKeeps ==
  ASSUME FInv, UNCHANGED upstream, NEW p \in F!Parts, F!GiveUp(p)
  PROVE  FInv'
<1> USE BoundsPositive
    DEF Versions, Absent, F!GiveUp, F!run, F!requests, F!files, F!Parts, F!Nothing, F!None, F!Exit,
        F!Asking, F!Resting
<1>1. Typed'
  BY DEF FInv, Typed
<1>2. Times'
  BY DEF FInv, Typed, Times
<1>3. Arrived'
  BY DEF FInv, Typed, Times, Arrived
<1>4. Ready'
  BY DEF FInv, Typed, Times, Arrived, Ready
<1>5. ListWhole'
  BY DEF FInv, Typed, Times, Ready, ListWhole, WholeShard
<1>6. Cached'
  BY DEF FInv, Typed, Times, Ready, Cached
<1>7. ReuseSound'
  BY DEF FInv, Typed, Times, Cached, ReuseSound
<1> QED
  BY <1>1, <1>2, <1>3, <1>4, <1>5, <1>6, <1>7 DEF FInv

LEMMA BeginKeeps ==
  ASSUME FInv, UNCHANGED upstream, NEW empty \in BOOLEAN, F!Begin(empty)
  PROVE  FInv'
<1> USE BoundsPositive
    DEF Versions, Absent, F!Begin, F!run, F!requests, F!files, F!Parts, F!Nothing, F!None, F!Resting
<1>1. Typed'
  <2>1. pc' \in {"head", "index", "fetched", "getting"}
    OBVIOUS
  <2>2. runs' \in 0..MaxRuns
    BY DEF FInv, Typed
  <2>3. F!Nothing \in [F!Parts -> Absent]
    OBVIOUS
  <2>4. raw' \in [F!Parts -> Absent] /\ dir' \in [F!Parts -> Absent] /\ etag' \in Absent
        /\ reached' \in {"elsewhere", "fetched", "built", "released"}
    BY <2>3 DEF FInv, Typed
  <2> QED
    BY <2>1, <2>2, <2>4 DEF FInv, Typed
<1>2. Times'
  BY SourcesShaped DEF FInv, Typed, Times
<1>3. Arrived'
  BY DEF FInv, Typed, Times, Arrived
<1>4. Ready'
  <2>1. src.shape \in {"offer", "regions", "pages", "models"}
    BY SourcesShaped DEF FInv, Typed
  <2>2. fresh' => raw' = F!Nothing /\ dir' = F!Nothing
    OBVIOUS
  <2>3. pc' = "fetched" => src.shape = "regions" /\ ~fresh'
    <3>1. CASE src.shape = "regions"
      BY <2>2, <3>1
    <3>2. CASE src.shape # "regions"
      BY <3>2
    <3> QED
      BY <3>1, <3>2
  <2>4. pc' = "getting" => src.shape # "offer"
    BY <2>1
  <2> QED
    BY <2>2, <2>3, <2>4 DEF Ready
<1>5. ListWhole'
  BY DEF FInv, Typed, Times, Ready, ListWhole, WholeShard
<1>6. Cached'
  BY DEF FInv, Typed, Times, Ready, Cached
<1>7. ReuseSound'
  BY DEF FInv, Typed, Times, Cached, ReuseSound
<1> QED
  BY <1>1, <1>2, <1>3, <1>4, <1>5, <1>6, <1>7 DEF FInv

LEMMA ReleaseKeeps ==
  ASSUME FInv, UNCHANGED upstream, F!Release
  PROVE  FInv'
<1> USE BoundsPositive
    DEF Versions, Absent, F!Release, F!run, F!requests, F!files, F!Parts, F!Nothing, F!None
<1>1. Typed'
  BY DEF FInv, Typed
<1>2. Times' /\ Arrived' /\ Ready'
  BY DEF FInv, Typed, Times, Arrived, Ready
<1>3. ListWhole'
  BY DEF FInv, Typed, Times, ListWhole, WholeShard
<1>4. Cached'
  BY DEF FInv, Typed, Times, Cached
<1>5. ReuseSound'
  BY DEF FInv, Typed, Times, ReuseSound
<1> QED
  BY <1>1, <1>2, <1>3, <1>4, <1>5 DEF FInv

LEMMA TwinFetchesKeeps ==
  ASSUME FInv, UNCHANGED upstream, F!TwinFetches
  PROVE  FInv'
<1> USE BoundsPositive
    DEF Versions, Absent, F!TwinFetches, F!run, F!requests, F!Parts, F!Nothing, F!None, F!Resting
<1>1. Typed'
  BY DEF FInv, Typed
<1>2. Times'
  BY SourcesShaped DEF FInv, Typed, Times
<1>3. Arrived' /\ Ready'
  BY DEF FInv, Typed, Times, Arrived, Ready
<1>4. ListWhole' /\ Cached' /\ ReuseSound'
  BY DEF FInv, Typed, Times, ListWhole, WholeShard, Cached, ReuseSound
<1> QED
  BY <1>1, <1>2, <1>3, <1>4 DEF FInv

LEMMA FetchStays ==
  ASSUME FInv, UNCHANGED upstream, UNCHANGED fetchVariables
  PROVE  FInv'
BY DEF FInv, Typed, Times, Arrived, Ready, ListWhole, WholeShard, Cached, ReuseSound, Absent,
       Versions, fetchVariables, F!Parts, F!Nothing, F!None

LEMMA FetchStepKeeps ==
  ASSUME FInv, UNCHANGED upstream, F!FetchStep
  PROVE  FInv'
BY NotModifiedKeeps, ModifiedKeeps, ReadIndexKeeps, AskFailsKeeps, PoolEndsKeeps, FetchedKeeps,
   PublishKeeps, IngestFailsKeeps, ReuseKeeps, GetPartKeeps, StripPartKeeps, TryAgainKeeps,
   GiveUpKeeps
   DEF F!FetchStep

(* What every step of a fetch keeps, however its requests fail: the parts  *)
(* received are of this run's versions, and what is about to become a      *)
(* shard is complete (ingest_shard.sh, fetch_offer, fetch_skus and so on). *)
THEOREM FetchInvariance == Spec => []FInv
<1>1. FInv /\ [Next]_variables => FInv'
  <2> SUFFICES ASSUME FInv, [Next]_variables PROVE FInv'
    OBVIOUS
  <2>1. CASE Begins
    BY <2>1, BeginKeeps DEF Begins
  <2>2. CASE FetchGoesOn
    BY <2>2, FetchStepKeeps DEF FetchGoesOn
  <2>3. CASE FetchDies
    BY <2>3, KillKeeps DEF FetchDies
  <2>4. CASE CheckBegins
    <3>1. upstream' = upstream /\ fetchVariables' = fetchVariables
      BY <2>4, Zenon DEF CheckBegins, fetchVariables, fetching, V!CheckBegins, V!Skip, V!Sample
    <3> QED
      BY <3>1, FetchStays
  <2>5. CASE CheckGoesOn
    <3>1. upstream' = upstream /\ fetchVariables' = fetchVariables
      BY <2>5, Zenon DEF CheckGoesOn, fetchVariables, fetching
    <3> QED
      BY <3>1, FetchStays
  <2>6. CASE PricesChange
    BY <2>6, PricesGoOn DEF PricesChange, fetching, fetchVariables
  <2>7. CASE UNCHANGED variables
    BY <2>7, FetchStays DEF variables, fetching, fetchVariables
  <2>8. CASE Releases \/ TwinFetches
    BY <2>8, ReleaseKeeps, TwinFetchesKeeps DEF Releases, TwinFetches
  <2> QED
    BY <2>1, <2>2, <2>3, <2>4, <2>5, <2>6, <2>7, <2>8 DEF Next
<1> QED
  BY Initially, <1>1, PTL DEF Spec
-----------------------------------------------------------------------------
(* The check of a published shard. *)

(* Less than one per cent apart. *)
Close(found, listed) == 99 * found < 100 * listed /\ 100 * listed < 101 * found

CTyped ==
  /\ asked \in Absent
  /\ stage \in {"idle", "checking", "passed", "failed", "skipped"}
  /\ sampled \subseteq V!Rows(V!Items)
  /\ left \subseteq sampled /\ missing \subseteq sampled
  /\ {d.row : d \in drift} \subseteq sampled \ left

(* The shard is not made again once it is being checked. *)
Fixed ==
  /\ stage # "idle" => F!Resting
  /\ stage = "idle" => sampled = {} /\ missing = {} /\ drift = {}

(* Answers kept are of versions listed during the run. *)
KeptDuring ==
  stage = "checking" =>
    /\ asked \in 1..upstream
    /\ kept \in [src.parts -> {V!None, V!Failed} \union asked..upstream]

LookedUp ==
  /\ stage \in {"checking", "passed"} =>
       \A r \in V!PrimaryOnly(sampled) \ (missing \union left) :
         \/ \E d \in drift : d.row = r
         \/ r.by = "free"
         \/ \E v \in asked..upstream : \E i \in V!Matches(r, v) : Close(V!Quoted(i), r.usd)
  /\ stage = "passed" => left = {} /\ drift = {}

CInv == CTyped /\ Fixed /\ KeptDuring /\ LookedUp

LEMMA SameCounts ==
  /\ \A S : V!Cardinality(S) = Cardinality(S)
  /\ \A S : V!Min(S) = Min(S) /\ V!Max(S) = Max(S)
BY Zenon DEF V!Cardinality, Cardinality, V!Min, V!Max, Min, Max

LEMMA PickedFromPool ==
  ASSUME NEW chosen, NEW pool, NEW n, NEW s \in V!Pick(chosen, pool, n)
  PROVE  s \subseteq chosen \union pool
BY DEF V!Pick, V!kSubset

(* The strata a sample is made of.                                          *)
RegionsOf(rows) == {r.region : r \in rows}
CountIn(rows, v) == Cardinality({r \in rows : r.region = v})
InRegion(rows) == [v \in RegionsOf(rows) |-> CountIn(rows, v)]
Within(rows, t) == {r \in rows : r.region \in t}
Beyond(rows, t) == {r \in rows : r.region \notin t}
Named(rows, f) == {r \in rows : r.name \in f}

LEMMA Strata ==
  ASSUME NEW rows, NEW s \in V!Samples(rows)
  PROVE  \E f : \E t \in V!Commonest(RegionsOf(rows), InRegion(rows), 3) :
         \E a \in V!Pick({}, Within(rows, t), V!Share(70)) :
         \E b \in V!Pick(a, Beyond(rows, t), V!Share(10)) :
         \E c \in V!Pick(b, Named(rows, f), V!Share(15)) :
           s \in V!Pick(c, rows, Budget)
<1> DEFINE regions == RegionsOf(rows)
           inRegion == InRegion(rows)
           names == {r.name : r \in rows}
           families == V!Max({1, (15 * Budget + 100 * V!Cardinality(names) - 1)
                                   \div (100 * V!Max({1, V!Cardinality(names)}))})
           ofName == [v \in names |-> V!Cardinality({r \in rows : r.name = v})]
           pools == V!Commonest(regions, inRegion, 3) \X V!Commonest(names, ofName, families)
           top(p)  == Within(rows, p[1])
           tail(p) == Beyond(rows, p[1])
           of(p)   == Named(rows, p[2])
           filled(c) == V!Pick(c, rows, Budget)
           named(p, b) == UNION {filled(c) : c \in V!Pick(b, of(p), V!Share(15))}
           spread(p, a) == UNION {named(p, b) : b \in V!Pick(a, tail(p), V!Share(10))}
           begun(p) == UNION {spread(p, a) : a \in V!Pick({}, top(p), V!Share(70))}
<1>1. V!Samples(rows) = UNION {begun(p) : p \in pools}
  <2>1. inRegion = [v \in regions |-> V!Cardinality({r \in rows : r.region = v})]
    BY SameCounts DEF InRegion, CountIn
  <2>2. regions = {r.region : r \in rows}
    BY DEF RegionsOf
  <2> QED
    BY <2>1, <2>2 DEF V!Samples, Within, Beyond, Named
<1>2. PICK p \in pools : s \in begun(p)
  <2> HIDE DEF begun, pools
  <2> QED
    BY <1>1
<1>3. PICK a \in V!Pick({}, top(p), V!Share(70)) : s \in spread(p, a)
  <2> HIDE DEF spread, pools
  <2> QED
    BY <1>2
<1>4. PICK b \in V!Pick(a, tail(p), V!Share(10)) : s \in named(p, b)
  <2> HIDE DEF named, pools, begun
  <2> QED
    BY <1>3
<1>5. PICK c \in V!Pick(b, of(p), V!Share(15)) : s \in filled(c)
  BY <1>4
<1>6. p[1] \in V!Commonest(regions, inRegion, 3)
  <2> HIDE DEF names, families, ofName
  <2> QED
    OBVIOUS
<1> QED
  <2> HIDE DEF pools, begun, spread, named
  <2>1. \E z \in V!Pick(b, Named(rows, p[2]), V!Share(15)) :
          s \in V!Pick(z, rows, Budget)
    BY <1>5
  <2>2. \E y \in V!Pick(a, Beyond(rows, p[1]), V!Share(10)) :
        \E z \in V!Pick(y, Named(rows, p[2]), V!Share(15)) :
          s \in V!Pick(z, rows, Budget)
    BY <1>4, <2>1
  <2>3. \E x \in V!Pick({}, Within(rows, p[1]), V!Share(70)) :
        \E y \in V!Pick(x, Beyond(rows, p[1]), V!Share(10)) :
        \E z \in V!Pick(y, Named(rows, p[2]), V!Share(15)) :
          s \in V!Pick(z, rows, Budget)
    BY <1>3, <2>2
  <2> QED
    BY <1>6, <2>3

(* Only what is in the shard is sampled. *)
LEMMA SampledFromRows ==
  ASSUME NEW rows, NEW s \in V!Samples(rows)
  PROVE  s \subseteq rows
<1>1. PICK f : \E t \in V!Commonest(RegionsOf(rows), InRegion(rows), 3) :
        \E a \in V!Pick({}, Within(rows, t), V!Share(70)) :
        \E b \in V!Pick(a, Beyond(rows, t), V!Share(10)) :
        \E c \in V!Pick(b, Named(rows, f), V!Share(15)) :
          s \in V!Pick(c, rows, Budget)
  BY Strata
<1>2. PICK a, b, c : /\ a \subseteq {} \union rows /\ b \subseteq a \union rows
                     /\ c \subseteq b \union rows /\ s \subseteq c \union rows
  <2>1. PICK t : \E a \in V!Pick({}, Within(rows, t), V!Share(70)) :
                 \E b \in V!Pick(a, Beyond(rows, t), V!Share(10)) :
                 \E c \in V!Pick(b, Named(rows, f), V!Share(15)) :
                   s \in V!Pick(c, rows, Budget)
    BY <1>1
  <2>2. PICK a \in V!Pick({}, Within(rows, t), V!Share(70)) :
          \E b \in V!Pick(a, Beyond(rows, t), V!Share(10)) :
          \E c \in V!Pick(b, Named(rows, f), V!Share(15)) :
            s \in V!Pick(c, rows, Budget)
    BY <2>1
  <2>3. PICK b \in V!Pick(a, Beyond(rows, t), V!Share(10)) :
          \E c \in V!Pick(b, Named(rows, f), V!Share(15)) :
            s \in V!Pick(c, rows, Budget)
    BY <2>2
  <2>4. PICK c \in V!Pick(b, Named(rows, f), V!Share(15)) :
          s \in V!Pick(c, rows, Budget)
    BY <2>3
  <2>5. /\ a \subseteq {} \union Within(rows, t)
        /\ b \subseteq a \union Beyond(rows, t)
        /\ c \subseteq b \union Named(rows, f) /\ s \subseteq c \union rows
    BY <2>2, <2>3, <2>4, PickedFromPool
  <2> QED
    BY <2>5 DEF Within, Beyond, Named
<1> QED
  BY <1>2

LEMMA RowsPriced ==
  ASSUME FInv, NEW r \in V!Rows(V!Items)
  PROVE  r.usd \in Nat /\ r.part \in src.parts /\ (r.by = "free" => r.usd = 0)
<1>1. \A i \in V!Items : i.usd \in Nat /\ i.part \in src.parts /\ (i.by = "free" => i.usd = 0)
  BY ItemsPriced DEF FInv, Typed, V!Items, V!None, F!None, F!Parts, Absent
<1> QED
  BY <1>1 DEF V!Rows, V!Published, V!Cheapest

LEMMA CheckInitially == Init => CInv
BY DEF Init, V!CheckInit, CInv, CTyped, Fixed, KeptDuring, LookedUp, Absent, V!None, F!None

LEMMA ShardFixed ==
  ASSUME src' = src, released' = released
  PROVE  /\ V!Rows(V!Items)' = V!Rows(V!Items)
         /\ \A S : V!PrimaryOnly(S)' = V!PrimaryOnly(S)
         /\ \A r, v : V!Matches(r, v)' = V!Matches(r, v)
<1>1. V!Items' = V!Items
  BY DEF V!Items
<1>2. V!Rows(V!Items)' = V!Rows(V!Items)
  BY <1>1 DEF V!Rows, V!Published, V!Cheapest
<1> QED
  BY <1>2 DEF V!PrimaryOnly, V!Matches, V!Meant, V!SameName

(* Before a check there is nothing to keep. *)
LEMMA NotChecking ==
  ASSUME CInv, stage = "idle", UNCHANGED checking
  PROVE  CInv'
BY DEF CInv, CTyped, Fixed, KeptDuring, LookedUp, checking

(* The provider going on leaves what was found true. *)
LEMMA CheckStays ==
  ASSUME FInv, CInv, upstream \in Nat, upstream' \in Nat, upstream <= upstream',
         UNCHANGED <<src, released, pc, checking>>
  PROVE  CInv'
<1>1. asked \in Nat
  BY DEF CInv, CTyped, Absent, Versions, F!None
<1>2. asked..upstream \subseteq asked..upstream'
  BY <1>1
<1>3. CTyped' /\ Fixed'
  BY ShardFixed DEF CInv, CTyped, Fixed, checking, F!Resting
<1>4. KeptDuring'
  BY <1>2 DEF CInv, KeptDuring, checking
<1>5. LookedUp'
  <2> SUFFICES ASSUME stage \in {"checking", "passed"},
                      NEW r \in V!PrimaryOnly(sampled) \ (missing \union left),
                      ~\E d \in drift : d.row = r
               PROVE  \/ r.by = "free"
                      \/ \E v \in asked..upstream' : \E i \in V!Matches(r, v) :
                           Close(V!Quoted(i), r.usd)
    BY ShardFixed DEF CInv, LookedUp, checking
  <2> QED
    BY <1>2 DEF CInv, LookedUp
<1> QED
  BY <1>3, <1>4, <1>5 DEF CInv

LEMMA SkipKeeps ==
  ASSUME FInv, CInv, F!Resting, UNCHANGED <<upstream, src, released, pc>>, V!Skip
  PROVE  CInv'
BY ShardFixed DEF CInv, CTyped, Fixed, KeptDuring, LookedUp, V!Skip, F!Resting

LEMMA SampleKeeps ==
  ASSUME FInv, CInv, F!Resting, UNCHANGED <<upstream, src, released, pc>>, V!Sample
  PROVE  CInv'
<1>1. PICK s \in V!Samples(V!Rows(V!Items)) : sampled' = s /\ left' = V!PrimaryOnly(s)
  BY DEF V!Sample
<1>2. left' \subseteq sampled' /\ left' = V!PrimaryOnly(sampled)'
  BY <1>1, ShardFixed DEF V!PrimaryOnly
<1>3. missing' = {} /\ drift' = {} /\ stage' = "checking" /\ asked' = upstream
  BY DEF V!Sample, CInv, Fixed
<1>4. asked' \in Versions
  BY <1>3 DEF FInv, Typed
<1>5. CTyped' /\ Fixed'
  BY <1>1, <1>2, <1>3, <1>4, SampledFromRows, ShardFixed
     DEF CTyped, Fixed, Absent, F!Resting
<1>6. KeptDuring'
  BY <1>3, <1>4 DEF KeptDuring, V!Sample, Versions, FInv, Typed, F!Parts
<1>7. LookedUp'
  BY <1>2, <1>3 DEF LookedUp
<1> QED
  BY <1>5, <1>6, <1>7 DEF CInv

LEMMA ReportKeeps ==
  ASSUME FInv, CInv, UNCHANGED <<upstream, src, released, pc>>, V!Report
  PROVE  CInv'
<1>1. CTyped' /\ Fixed' /\ KeptDuring'
  BY ShardFixed DEF CInv, CTyped, Fixed, KeptDuring, V!Report, F!Resting
<1>2. LookedUp'
  BY ShardFixed DEF CInv, LookedUp, V!Report
<1> QED
  BY <1>1, <1>2 DEF CInv

(* An answer, unless there was none, is of a version listed during the run. *)
LEMMA AnswerDuring ==
  ASSUME FInv, CInv, stage = "checking", NEW r \in sampled, V!Answer(r) # V!Failed
  PROVE  V!Answer(r) \in asked..upstream
<1>1. r.part \in src.parts
  BY RowsPriced DEF CInv, CTyped
<1>2. kept[r.part] \in {V!None, V!Failed} \union asked..upstream /\ asked \in 1..upstream
  BY <1>1 DEF CInv, KeptDuring
<1>3. upstream \in asked..upstream
  BY <1>2 DEF FInv, Typed, Versions
<1> QED
  BY <1>2, <1>3 DEF V!Answer

(* The answer kept for the next price of the part. *)
LEMMA KeepsDuring ==
  ASSUME CInv, stage = "checking", UNCHANGED <<upstream, src, stage, asked>>,
         NEW r, NEW v \in {V!Failed} \union asked..upstream, V!Keep(r, v)
  PROVE  KeptDuring'
BY DEF CInv, KeptDuring, V!Keep

LEMMA NoAnswerKeeps ==
  ASSUME FInv, CInv, UNCHANGED <<upstream, src, released, pc>>, NEW r \in left, V!NoAnswer(r)
  PROVE  CInv'
<1>1. KeptDuring'
  BY KeepsDuring DEF V!NoAnswer
<1>2. CTyped' /\ Fixed' /\ LookedUp'
  BY ShardFixed DEF CInv, CTyped, Fixed, LookedUp, V!NoAnswer, F!Resting
<1> QED
  BY <1>1, <1>2 DEF CInv

LEMMA NotListedKeeps ==
  ASSUME FInv, CInv, UNCHANGED <<upstream, src, released, pc>>, NEW r \in left, V!NotListed(r)
  PROVE  CInv'
<1>1. KeptDuring'
  BY KeepsDuring, AnswerDuring DEF V!NotListed, CInv, CTyped
<1>2. CTyped' /\ Fixed' /\ LookedUp'
  BY ShardFixed DEF CInv, CTyped, Fixed, LookedUp, V!NotListed, F!Resting
<1> QED
  BY <1>1, <1>2 DEF CInv

(* What is free is not reported. *)
LEMMA TakenAsFreeKeeps ==
  ASSUME FInv, CInv, UNCHANGED <<upstream, src, released, pc>>, NEW r \in left, V!TakenAsFree(r)
  PROVE  CInv' /\ drift' = drift
<1>1. drift' = drift
  BY RowsPriced DEF CInv, CTyped, V!TakenAsFree
<1>2. KeptDuring'
  BY DEF V!TakenAsFree, CInv, KeptDuring
<1>3. CTyped' /\ Fixed' /\ LookedUp'
  BY <1>1, ShardFixed DEF CInv, CTyped, Fixed, LookedUp, V!TakenAsFree, F!Resting
<1> QED
  BY <1>1, <1>2, <1>3 DEF CInv

(* What does not drift is close. *)
LEMMA NoDriftIsClose ==
  ASSUME NEW listed \in Nat, NEW found \in Nat, ~V!Drifts(listed, found)
  PROVE  Close(found, listed)
BY DEF V!Drifts, V!Abs, Close

LEMMA CompareKeeps ==
  ASSUME FInv, CInv, UNCHANGED <<upstream, src, released, pc>>, NEW r \in left, V!Compare(r)
  PROVE  CInv'
<1>1. r \in sampled /\ stage = "checking" /\ stage' = stage /\ left' = left \ {r}
      /\ UNCHANGED <<sampled, missing, asked>>
  BY DEF CInv, CTyped, V!Compare
<1>2. V!Answer(r) \in asked..upstream
  BY <1>1, AnswerDuring DEF V!Compare
<1>3. KeptDuring'
  BY <1>1, <1>2, KeepsDuring DEF V!Compare
<1>4. PICK found \in V!Found(r, V!Answer(r)) :
        drift' = IF V!Drifts(r.usd, found) THEN drift \union {[row |-> r, found |-> found]}
                                           ELSE drift
  BY DEF V!Compare
<1>5. PICK i \in V!Matches(r, V!Answer(r)) : found = V!Quoted(i)
  BY DEF V!Found
<1>6. found \in Nat /\ r.usd \in Nat
  <2>1. V!Answer(r) \in Versions
    BY <1>1, <1>2, BoundsPositive DEF FInv, Typed, CInv, KeptDuring, Versions
  <2>2. i \in Listing[src.name][V!Answer(r)]
    BY DEF V!Matches
  <2>3. src \in Sources
    BY DEF FInv, Typed
  <2> QED
    BY <1>1, <1>5, <2>1, <2>2, <2>3, ItemsPriced, RowsPriced DEF CInv, CTyped, V!Quoted
<1>7. CTyped' /\ Fixed'
  BY <1>1, <1>4, ShardFixed DEF CInv, CTyped, Fixed, V!Compare, F!Resting
<1>8. LookedUp'
  <2>1. \/ \E d \in drift' : d.row = r
        \/ \E v \in asked..upstream : \E j \in V!Matches(r, v) :
             Close(V!Quoted(j), r.usd)
    <3>1. CASE V!Drifts(r.usd, found)
      <4>1. [row |-> r, found |-> found] \in drift'
        BY <1>4, <3>1
      <4> QED
        BY <4>1
    <3>2. CASE ~V!Drifts(r.usd, found)
      BY <1>2, <1>5, <1>6, <3>2, NoDriftIsClose
    <3> QED
      BY <3>1, <3>2
  <2>2. drift \subseteq drift'
    BY <1>4
  <2> QED
    BY <1>1, <2>1, <2>2, ShardFixed DEF CInv, LookedUp
<1> QED
  BY <1>3, <1>7, <1>8 DEF CInv
-----------------------------------------------------------------------------
(* What every step of a check keeps beside it (run_validation): the sample *)
(* is of the shard's rows, and each answer is of a version listed since    *)
(* the check began.                                                        *)
THEOREM CheckInvariance == Spec => [](FInv /\ CInv)
<1>1. CInv /\ FInv /\ [Next]_variables => CInv'
  <2> SUFFICES ASSUME FInv, CInv, [Next]_variables PROVE CInv'
    OBVIOUS
  <2>1. CASE Begins
    BY <2>1, NotChecking DEF Begins
  <2>2. CASE FetchGoesOn
    <3>1. pc \notin {"idle", "failed"}
      BY <2>2 DEF FetchGoesOn, F!FetchStep, F!NotModified, F!Modified, F!ReadIndex, F!AskFails,
                  F!PoolEnds, F!Fetched, F!Publish, F!IngestFails, F!Reuse, F!GetPart,
                  F!StripPart, F!TryAgain, F!GiveUp, F!Asking
    <3> QED
      BY <2>2, <3>1, NotChecking DEF CInv, CTyped, Fixed, F!Resting, FetchGoesOn
  <2>3. CASE FetchDies
    BY <2>3, NotChecking DEF CInv, CTyped, Fixed, F!Resting, FetchDies, F!Kill
  <2>4. CASE CheckBegins
    BY <2>4, SkipKeeps, SampleKeeps DEF CheckBegins, V!CheckBegins, fetching
  <2>5. CASE CheckGoesOn
    BY <2>5, ReportKeeps, TakenAsFreeKeeps, NoAnswerKeeps, NotListedKeeps, CompareKeeps
       DEF CheckGoesOn, V!CheckStep, fetching
  <2>6. CASE PricesChange
    <3>1. upstream \in Nat /\ upstream' = upstream + 1
      BY <2>6 DEF PricesChange, F!UpstreamChanges, FInv, Typed, Versions
    <3> QED
      BY <2>6, <3>1, CheckStays DEF PricesChange, fetching
  <2>7. CASE UNCHANGED variables
    <3>1. upstream \in Nat
      BY DEF FInv, Typed, Versions
    <3> QED
      BY <2>7, <3>1, CheckStays DEF variables, fetching
  <2>8. CASE Releases \/ TwinFetches
    BY <2>8, NotChecking DEF Releases, TwinFetches
  <2> QED
    BY <2>1, <2>2, <2>3, <2>4, <2>5, <2>6, <2>7, <2>8 DEF Next
<1> QED
  BY FetchInvariance, CheckInitially, <1>1, PTL DEF Spec
-----------------------------------------------------------------------------
(* What a drift record stands on. *)

(* Nothing is of a version still to come. *)
Past ==
  /\ pin <= upstream
  /\ \A p \in F!Parts :
       /\ got[p] <= upstream /\ raw[p] <= upstream /\ dir[p] <= upstream
       /\ shard.of[p] <= upstream /\ released.of[p] <= upstream

(* A price that drifts was found for a sampled row, in a list published     *)
(* since the check began, which was no earlier than the release was made.   *)
DriftFound ==
  /\ left \subseteq V!PrimaryOnly(sampled)
  /\ stage = "checking" \/ drift # {} =>
       \A p \in F!Parts : released.of[p] <= asked
  /\ \A d \in drift :
       /\ d.row \in V!PrimaryOnly(sampled)
       /\ \E v \in asked..upstream :
            d.found \in V!Found(d.row, v) \ {0} /\ V!Drifts(d.row.usd, d.found)

DInv == Past /\ DriftFound

(* A fetch moves versions around, or takes the provider's.                  *)
LEMMA VersionsMove ==
  ASSUME FInv, UNCHANGED upstream, F!FetchStep
  PROVE  /\ src' = src
         /\ pin' \in {F!None, pin, upstream}
         /\ \A p \in F!Parts :
              /\ got'[p] \in {F!None, got[p], pin, upstream}
              /\ raw'[p] \in {F!None, raw[p], pin, upstream}
              /\ dir'[p] \in {F!None, dir[p], got[p], raw[p], pin, upstream}
              /\ shard'.of[p] \in {shard.of[p], released.of[p], raw[p], dir[p]}
              /\ released'.of[p] = released.of[p]
<1> USE DEF FInv, Typed, F!run, F!requests, F!files, F!Parts, F!Nothing, F!Exit
<1>1. CASE F!NotModified \/ F!Modified
  BY <1>1 DEF F!NotModified, F!Modified
<1>2. CASE F!ReadIndex \/ F!AskFails \/ F!PoolEnds
  BY <1>2 DEF F!ReadIndex, F!AskFails, F!PoolEnds
<1>3. CASE F!Fetched
  BY <1>3 DEF F!Fetched
<1>4. CASE F!Publish
  BY <1>4 DEF F!Publish
<1>5. CASE F!IngestFails \/ F!Reuse
  BY <1>5 DEF F!IngestFails, F!Reuse
<1>6. ASSUME NEW p \in F!Parts, F!GetPart(p) \/ F!StripPart(p) \/ F!TryAgain(p) \/ F!GiveUp(p)
      PROVE  /\ src' = src
             /\ pin' \in {F!None, pin, upstream}
             /\ \A q \in F!Parts :
                  /\ got'[q] \in {F!None, got[q], pin, upstream}
                  /\ raw'[q] \in {F!None, raw[q], pin, upstream}
                  /\ dir'[q] \in {F!None, dir[q], got[q], raw[q], pin, upstream}
                  /\ shard'.of[q] \in {shard.of[q], released.of[q], raw[q], dir[q]}
                  /\ released'.of[q] = released.of[q]
  <2>1. CASE F!GetPart(p)
    BY <2>1 DEF F!GetPart
  <2>2. CASE F!StripPart(p)
    BY <2>2 DEF F!StripPart
  <2>3. CASE F!TryAgain(p) \/ F!GiveUp(p)
    BY <2>3 DEF F!TryAgain, F!GiveUp
  <2> QED
    BY <1>6, <2>1, <2>2, <2>3
<1> QED
  BY <1>1, <1>2, <1>3, <1>4, <1>5, <1>6 DEF F!FetchStep

LEMMA PastKept ==
  ASSUME FInv, CInv, Past, [Next]_variables
  PROVE  Past'
<1>1. /\ upstream \in Nat /\ pin \in Nat
      /\ \A p \in F!Parts : {got[p], raw[p], dir[p], shard.of[p], released.of[p]} \subseteq Nat
  BY DEF FInv, Typed, Absent, Versions, F!None
<1>2. CASE Begins
  <2>1. PICK empty \in BOOLEAN : F!Begin(empty)
    BY <1>2 DEF Begins
  <2>2. /\ UNCHANGED <<upstream, src, pin, got, shard, released>>
        /\ \A p \in F!Parts : raw'[p] \in {raw[p], 0} /\ dir'[p] \in {dir[p], 0}
    BY <1>2, <2>1 DEF Begins, F!Begin, F!run, F!requests, F!files, F!Nothing, F!None
  <2> QED
    BY <1>1, <2>2 DEF Past, F!Parts
<1>3. CASE FetchGoesOn
  BY <1>1, <1>3, VersionsMove DEF FetchGoesOn, Past, F!Parts, F!None
<1>4. CASE FetchDies
  BY <1>1, <1>4 DEF FetchDies, Past, F!Kill, F!Exit, F!Parts, F!Nothing, F!None, F!run, F!files
<1>5. CASE CheckBegins \/ CheckGoesOn \/ UNCHANGED variables
  <2>1. UNCHANGED <<upstream, src, pin, got, raw, dir, shard, released>>
    <3>1. CASE CheckBegins
      BY <3>1, Zenon DEF CheckBegins, fetching, V!CheckBegins, V!Skip, V!Sample
    <3>2. CASE CheckGoesOn
      BY <3>2, Zenon DEF CheckGoesOn, fetching
    <3>3. CASE UNCHANGED variables
      BY <3>3 DEF variables, fetching
    <3> QED
      BY <1>5, <3>1, <3>2, <3>3
  <2> QED
    BY <2>1 DEF Past, F!Parts
<1>6. CASE PricesChange
  <2>1. upstream' = upstream + 1 /\ UNCHANGED <<src, pin, got, raw, dir, shard, released>>
    BY <1>6 DEF PricesChange, F!UpstreamChanges, fetching
  <2> QED
    BY <1>1, <2>1 DEF Past, F!Parts
<1>7. CASE Releases \/ TwinFetches
  <2>1. /\ UNCHANGED <<upstream, src, pin, got, raw, dir, shard>>
        /\ \A p \in F!Parts : released'.of[p] \in {released.of[p], shard.of[p]}
    BY <1>7 DEF Releases, TwinFetches, F!Release, F!TwinFetches, F!run, F!requests, F!files
  <2> QED
    BY <2>1 DEF Past, F!Parts
<1> QED
  BY <1>2, <1>3, <1>4, <1>5, <1>6, <1>7 DEF Next

LEMMA FoundFixed ==
  ASSUME src' = src
  PROVE  /\ \A S : V!PrimaryOnly(S)' = V!PrimaryOnly(S)
         /\ \A r, v : V!Found(r, v)' = V!Found(r, v)
<1>1. \A r, v : V!Matches(r, v)' = V!Matches(r, v)
  BY DEF V!Matches, V!Meant, V!SameName
<1> QED
  BY <1>1 DEF V!PrimaryOnly, V!Found, V!Quoted

(* Versions that are published later leave what was found.                  *)
LEMMA FoundStays ==
  ASSUME FInv, CInv, DriftFound, upstream' \in Nat, upstream <= upstream',
         UNCHANGED <<src, released, sampled, drift, asked>>,
         left' \subseteq left, stage' = "checking" => stage = "checking"
  PROVE  DriftFound'
<1>1. asked \in Nat /\ upstream \in Nat
  BY DEF CInv, CTyped, FInv, Typed, Absent, Versions, F!None
<1>2. asked..upstream \subseteq asked..upstream'
  BY <1>1
<1> QED
  BY <1>2, FoundFixed DEF DriftFound, F!Parts

LEMMA CompareFinds ==
  ASSUME FInv, CInv, DInv, UNCHANGED <<upstream, src, released, pc>>, NEW r \in left, V!Compare(r)
  PROVE  DriftFound'
<1>1. /\ stage = "checking" /\ r \in V!PrimaryOnly(sampled) /\ r \in sampled
      /\ UNCHANGED <<sampled, asked>> /\ left' \subseteq left
  BY DEF DInv, DriftFound, CInv, CTyped, V!Compare
<1>2. V!Answer(r) \in asked..upstream
  BY <1>1, AnswerDuring DEF V!Compare
<1>3. PICK found \in V!Found(r, V!Answer(r)) \ {0} :
        drift' = IF V!Drifts(r.usd, found) THEN drift \union {[row |-> r, found |-> found]}
                                           ELSE drift
  BY DEF V!Compare
<1>4. left' \subseteq V!PrimaryOnly(sampled)'
  BY <1>1, FoundFixed DEF DInv, DriftFound
<1>5. \A p \in F!Parts : released.of[p] <= asked
  BY <1>1 DEF DInv, DriftFound
<1>6. ASSUME NEW d \in drift'
      PROVE  /\ d.row \in V!PrimaryOnly(sampled)
             /\ \E v \in asked..upstream :
                  d.found \in V!Found(d.row, v) \ {0} /\ V!Drifts(d.row.usd, d.found)
  <2>1. CASE d \in drift
    BY <2>1 DEF DInv, DriftFound
  <2>2. CASE d \notin drift
    <3>1. d.row = r /\ d.found = found /\ V!Drifts(r.usd, found)
      BY <1>3, <1>6, <2>2
    <3> QED
      BY <1>1, <1>2, <1>3, <3>1
  <2> QED
    BY <2>1, <2>2
<1> QED
  BY <1>1, <1>4, <1>5, <1>6, FoundFixed DEF DriftFound, F!Parts

LEMMA CheckStepFinds ==
  ASSUME FInv, CInv, DInv, UNCHANGED <<upstream, src, released, pc>>, V!CheckStep
  PROVE  DriftFound'
<1>1. upstream' \in Nat /\ upstream <= upstream'
  BY DEF FInv, Typed, Versions
<1>2. CASE V!Report
  BY <1>1, <1>2, FoundStays DEF V!Report, DInv
<1>3. ASSUME NEW r \in left, V!NoAnswer(r) \/ V!NotListed(r)
      PROVE  DriftFound'
  BY <1>1, <1>3, FoundStays DEF V!NoAnswer, V!NotListed, DInv
<1>4. ASSUME NEW r \in left, V!TakenAsFree(r)
      PROVE  DriftFound'
  BY <1>1, <1>4, TakenAsFreeKeeps, FoundStays DEF V!TakenAsFree, DInv
<1> QED
  BY <1>2, <1>3, <1>4, CompareFinds DEF V!CheckStep

(* Versions are not from the future, and prices that drift were found       *)
(* after the shard was made: get_region_prices and the like, fed by         *)
(* ingest_shard.sh and asked by run_validation.                             *)
THEOREM DriftInvariance == Spec => []DInv
<1>1. Init => DInv
  <2>1. Init => Past
    BY BoundsPositive DEF Init, F!FetchInit, Past, F!Nothing, F!None, F!Parts, Versions
  <2> QED
    BY <2>1 DEF Init, V!CheckInit, DInv, DriftFound
<1>2. FInv /\ CInv /\ DInv /\ [Next]_variables => DInv'
  <2> SUFFICES ASSUME FInv, CInv, DInv, [Next]_variables PROVE DInv'
    OBVIOUS
  <2>1. Past'
    BY PastKept DEF DInv
  <2> SUFFICES DriftFound'
    BY <2>1 DEF DInv
  <2>2. ASSUME stage = "idle", UNCHANGED checking
        PROVE  DriftFound'
    BY <2>2 DEF DriftFound, CInv, CTyped, Fixed, checking
  <2>3. upstream \in Nat
    BY DEF FInv, Typed, Versions
  <2>4. CASE Begins
    BY <2>2, <2>4 DEF Begins
  <2>5. CASE FetchGoesOn
    <3>1. pc \notin {"idle", "failed"}
      BY <2>5 DEF FetchGoesOn, F!FetchStep, F!NotModified, F!Modified, F!ReadIndex, F!AskFails,
                  F!PoolEnds, F!Fetched, F!Publish, F!IngestFails, F!Reuse, F!GetPart,
                  F!StripPart, F!TryAgain, F!GiveUp, F!Asking
    <3> QED
      BY <2>2, <2>5, <3>1 DEF CInv, CTyped, Fixed, F!Resting, FetchGoesOn
  <2>6. CASE FetchDies
    BY <2>2, <2>6 DEF CInv, CTyped, Fixed, F!Resting, FetchDies, F!Kill
  <2>7. CASE CheckBegins
    <3>1. CASE V!Skip
      BY <2>2, <2>3, <2>7, <3>1, FoundStays DEF CheckBegins, V!Skip, DInv
    <3>2. CASE V!Sample
      <4>1. PICK s \in V!Samples(V!Rows(V!Items)) : sampled' = s /\ left' = V!PrimaryOnly(s)
        BY <3>2 DEF V!Sample
      <4>2. drift' = {} /\ asked' = upstream /\ UNCHANGED <<src, released>>
        BY <2>7, <3>2 DEF CheckBegins, V!Sample, CInv, Fixed
      <4>3. left' \subseteq V!PrimaryOnly(sampled)'
        BY <4>1, <4>2, FoundFixed
      <4> QED
        BY <4>2, <4>3 DEF DriftFound, DInv, Past, F!Parts
    <3> QED
      BY <2>7, <3>1, <3>2 DEF CheckBegins, V!CheckBegins
  <2>8. CASE CheckGoesOn
    BY <2>8, CheckStepFinds DEF CheckGoesOn, fetching
  <2>9. CASE PricesChange
    BY <2>3, <2>9, FoundStays
       DEF PricesChange, F!UpstreamChanges, fetching, checking, DInv
  <2>10. CASE UNCHANGED variables
    BY <2>3, <2>10, FoundStays DEF variables, checking, DInv
  <2>11. CASE Releases \/ TwinFetches
    BY <2>2, <2>11 DEF Releases, TwinFetches
  <2> QED
    BY <2>1, <2>4, <2>5, <2>6, <2>7, <2>8, <2>9, <2>10, <2>11 DEF Next
<1> QED
  BY CheckInvariance, <1>1, <1>2, PTL DEF Spec
(* Elements of a finite set that differ make it larger than one.            *)
LEMMA TwoAtLeast ==
  ASSUME NEW S, IsFiniteSet(S), NEW a \in S, NEW b \in S, a # b
  PROVE  Cardinality(S) > 1
<1>1. IsFiniteSet({a}) /\ Cardinality({a}) = 1
  BY FS_Singleton
<1>2. {a} \subseteq S /\ {a} # S
  OBVIOUS
<1> QED
  BY <1>1, <1>2, FS_Subset, FS_CardinalityType

(* As many values as arguments, at most.                                    *)
LEMMA FinitelyMany ==
  ASSUME NEW S, IsFiniteSet(S), NEW f, f = [x \in S |-> f[x]]
  PROVE  IsFiniteSet({f[x] : x \in S}) /\ Cardinality({f[x] : x \in S}) <= Cardinality(S)
<1>1. f \in Surjection(S, {f[x] : x \in S})
  BY DEF Surjection
<1> QED
  BY <1>1, FS_Surjection

LEMMA SamePrefixes ==
  \A a, b : V!IsStrictPrefix(a, b) <=> IsStrictPrefix(a, b)
BY Zenon DEF V!IsStrictPrefix, IsStrictPrefix, V!IsPrefix, IsPrefix

(* A finite list has finitely many prices, so two of them are counted.      *)
LEMMA TwoPrices ==
  ASSUME NEW M, IsFiniteSet(M), NEW i \in M, NEW j \in M
  PROVE  /\ i.usd # j.usd => Cardinality({x.usd : x \in M}) > 1
         /\ V!Quoted(i) # V!Quoted(j) => Cardinality({V!Quoted(x) : x \in M}) > 1
<1>1. ASSUME i.usd # j.usd
      PROVE  Cardinality({x.usd : x \in M}) > 1
  <2> DEFINE f == [x \in M |-> x.usd]
             S == {f[x] : x \in M}
  <2>1. IsFiniteSet(S)
    BY FinitelyMany
  <2>2. i.usd \in S /\ j.usd \in S /\ S = {x.usd : x \in M}
    OBVIOUS
  <2> HIDE DEF S
  <2> QED
    BY <1>1, <2>1, <2>2, TwoAtLeast
<1>2. ASSUME V!Quoted(i) # V!Quoted(j)
      PROVE  Cardinality({V!Quoted(x) : x \in M}) > 1
  <2> DEFINE f == [x \in M |-> V!Quoted(x)]
             S == {f[x] : x \in M}
  <2>1. IsFiniteSet(S)
    BY FinitelyMany
  <2>2. V!Quoted(i) \in S /\ V!Quoted(j) \in S /\ S = {V!Quoted(x) : x \in M}
    OBVIOUS
  <2> HIDE DEF S
  <2> QED
    BY <1>2, <2>1, <2>2, TwoAtLeast
<1> QED
  BY <1>1, <1>2

(* Where the lookup of a row is exact, the item the row was made of is      *)
(* among those found, and no other price is.                                *)
LEMMA OwnItemFound ==
  ASSUME FInv, NEW r \in V!PrimaryOnly(V!Rows(V!Items)), NEW v, v = released.of[r.part],
         NEW found \in V!Found(r, v) \ {0}, V!Drifts(r.usd, found)
  PROVE  Inexact(r, v)
<1> SUFFICES ASSUME ~Inexact(r, v) PROVE FALSE
  OBVIOUS
<1>1. PICK i \in V!Items :
        /\ r.sku = i.sku /\ r.name = i.name /\ r.region = i.region /\ r.dim = i.dim
        /\ r.tier = i.tier /\ r.usd = i.usd /\ r.by = i.by /\ r.part = i.part /\ i.sku # <<>>
  BY DEF V!PrimaryOnly, V!Rows, V!Published
<1>2. i \in Listing[src.name][v] /\ v \in Versions /\ src \in Sources
  BY <1>1 DEF FInv, Typed, Absent, V!Items, V!None, F!None
<1>3. {i.usd, i.lot, i.tier} \subseteq Nat /\ i.by \in Lookups
  BY <1>2, ItemsPriced
<1>4. PICK j \in V!Matches(r, v) : found = V!Quoted(j)
  BY DEF V!Found
<1>5. j \in Listing[src.name][v] /\ j.usd \in Nat /\ j.lot \in Nat /\ V!Meant(r, j)
  BY <1>2, <1>4, ItemsPriced DEF V!Matches
<1>6. found # r.usd /\ r.usd > 0
  <2>1. r.usd # 0
    BY DEF Inexact
  <2>2. found \in Nat \ {0}
    BY <1>4, <1>5 DEF V!Quoted
  <2> QED
    BY <1>1, <1>3, <2>1, <2>2 DEF V!Drifts, V!Abs
<1>7. IsFiniteSet(V!Matches(r, v))
  <2>1. V!Matches(r, v) \subseteq Listing[src.name][v]
    BY DEF V!Matches
  <2> QED
    BY <1>2, <2>1, ListsFinite, FS_Subset
<1>8. found = j.usd
  <2>1. j.lot = 1
    BY <1>4 DEF Inexact
  <2> QED
    BY <1>4, <1>5, <2>1 DEF V!Quoted
<1>9. V!Meant(r, i) => i \in V!Matches(r, v)
  BY <1>2 DEF V!Matches
<1>10. CASE r.by = "sku"
  <2>1. PICK k \in V!Matches(r, v) : k.sku = r.sku
    BY <1>10 DEF Inexact
  <2>2. /\ k \in Listing[src.name][v] /\ k.tier = 0 /\ i.tier = 0
        /\ k.id = k.sku \/ IsStrictPrefix(k.id, k.sku)
    BY <1>1, <1>10, <2>1, SamePrefixes DEF V!Matches, V!Meant, Inexact
  <2>3. k.dim = i.dim
    <3>1. \A x, y \in Listing[src.name][v] :
            /\ x.by = "sku" /\ (src.primary # {} => x.dim \in src.primary) /\ x.sku = y.sku
            /\ y.id = y.sku \/ IsStrictPrefix(y.id, y.sku)
            => y.dim = x.dim
      BY <1>2, OwnId
    <3>2. i.by = "sku" /\ (src.primary # {} => i.dim \in src.primary) /\ i.sku = k.sku
      BY <1>1, <1>10, <2>1 DEF V!PrimaryOnly
    <3> QED
      BY <1>2, <2>2, <3>1, <3>2
  <2>4. i.usd = k.usd
    <3>1. \A x, y \in Listing[src.name][v] :
            x.sku = y.sku /\ x.sku # <<>> /\ x.dim = y.dim /\ x.tier = y.tier
              /\ x.by # "endpoint" => x.usd = y.usd
      BY <1>2, TiersPriced
    <3>2. i.sku = k.sku /\ i.sku # <<>> /\ i.by = "sku"
      BY <1>1, <1>10, <2>1
    <3> QED
      BY <1>2, <2>2, <2>3, <3>1, <3>2
  <2>5. k.usd = j.usd
    <3>1. ~(Cardinality({x.usd : x \in V!Matches(r, v)}) > 1)
      BY <1>10 DEF Inexact
    <3> QED
      BY <1>4, <1>7, <2>1, <3>1, TwoPrices
  <2> QED
    BY <1>1, <1>6, <2>4, <2>5, <1>8
<1>11. CASE r.by \in {"title", "words", "head", "endpoint"}
  <2>1. V!Meant(r, i)
    BY <1>1, <1>2, <1>6, <1>11, NamesKept DEF V!Meant, V!SameName
  <2>2. i.usd # j.usd
    BY <1>1, <1>6, <1>8
  <2>3. Cardinality({x.usd : x \in V!Matches(r, v)}) > 1
    BY <1>4, <1>7, <1>9, <2>1, <2>2, TwoPrices
  <2> QED
    BY <1>11, <2>3 DEF Inexact
<1>12. CASE r.by \in {"alike", "meter", "meterid"}
  <2>1. ~(Cardinality({V!Quoted(x) : x \in V!Matches(r, v)}) > 1)
    BY <1>12, SameCounts DEF V!Found
  <2>2. V!Meant(r, i)
    <3>1. CASE r.by = "alike" \/ r.by = "meterid"
      BY <1>1, <1>2, <1>6, <3>1, NamesKept DEF V!Meant, V!SameName
    <3>2. CASE r.by = "meter"
      <4>1. PICK k \in V!Matches(r, v) : k.sku = r.sku /\ k.dim = r.dim
        BY <3>2 DEF Inexact
      <4>2. k \in Listing[src.name][v] /\ k.meter = r.name
        BY <3>2 DEF V!Matches, V!Meant, V!SameName
      <4>3. k.meter = i.meter
        BY <1>1, <1>2, <4>1, <4>2, SkusStay
      <4> QED
        BY <1>1, <1>6, <3>2, <4>2, <4>3 DEF V!Meant, V!SameName
    <3> QED
      BY <1>12, <3>1, <3>2
  <2>3. V!Quoted(i) = i.usd
    <3>1. i.lot = 1
      BY <1>9, <2>2 DEF Inexact
    <3> QED
      BY <1>3, <3>1 DEF V!Quoted
  <2>4. V!Quoted(i) # V!Quoted(j)
    BY <1>1, <1>4, <1>6, <2>3
  <2>5. i \in V!Matches(r, v) /\ j \in V!Matches(r, v)
    BY <1>4, <1>9, <2>2
  <2> QED
    BY <1>7, <2>1, <2>4, <2>5, TwoPrices
<1>13. CASE r.by \in {"free", "none"}
  BY <1>5, <1>13 DEF V!Meant
<1> QED
  BY <1>1, <1>3, <1>10, <1>11, <1>12, <1>13 DEF Lookups
-----------------------------------------------------------------------------
(* The variables of a fetch (ingest_shard.sh) and of a check (driver.py)   *)
(* keep their types, for any sources, price lists and numbers of attempts. *)
THEOREM TypeCorrect == Spec => []TypeOK
<1>1. FInv /\ CInv => TypeOK
  BY DEF FInv, Typed, CInv, CTyped, TypeOK, Absent, V!None, F!None
<1> QED
  BY CheckInvariance, <1>1, PTL

(* However its requests fail and whenever it is killed, a run publishes no *)
(* price list that lacks a part or has one from before the run, nor        *)
(* regions of two versions: fetch_offer, fetch_offer_regions_stripped,     *)
(* fetch_skus, fetch_prices, openrouter's fetch.                           *)
THEOREM ListWholeCorrect == Spec => []ListWhole
<1>1. FInv => ListWhole
  BY DEF FInv
<1> QED
  BY FetchInvariance, <1>1, PTL

(* The release taken for today's shard on a 304 is of the version the       *)
(* provider names, if the list whose ETag is kept was this source's own, was *)
(* built and released; whatever fails, is killed, released or fetched by the *)
(* other source of the URL in between: fetch_offer, ingest_shard.sh.        *)
THEOREM ReuseHonestCorrect == Spec => []ReuseHonest
<1>1. FInv => ReuseHonest
  BY DEF FInv, ReuseSound, ReuseHonest
<1> QED
  BY FetchInvariance, <1>1, PTL

(* A passing check has found every price that it got an answer for close   *)
(* to one listed during the check: run_validation and the revalidators.    *)
THEOREM NothingOverlookedCorrect == Spec => []NothingOverlooked
<1>1. CInv => NothingOverlooked
  BY DEF CInv, LookedUp, NothingOverlooked, Close
<1> QED
  BY CheckInvariance, <1>1, PTL

(* A check reports a drift only when the provider has changed its prices    *)
(* since the version the row is of, or when the lookup is inexact for that   *)
(* row in one of the ways Inexact lists: run_validation and the revalidators. *)
THEOREM DriftMeansChangeCorrect == Spec => []DriftMeansChange
<1>1. FInv /\ CInv /\ DInv => DriftMeansChange
  <2> SUFFICES ASSUME FInv, CInv, DInv, NEW d \in drift,
                      ~(upstream > released.of[d.row.part])
               PROVE  Inexact(d.row, upstream)
    BY DEF DriftMeansChange
  <2>1. d.row \in V!PrimaryOnly(sampled) /\ d.row \in V!Rows(V!Items)
    BY DEF DInv, DriftFound, CInv, CTyped, V!PrimaryOnly
  <2>2. d.row \in V!PrimaryOnly(V!Rows(V!Items)) /\ d.row.part \in F!Parts
    BY <2>1, RowsPriced DEF V!PrimaryOnly, F!Parts
  <2>3. PICK v \in asked..upstream :
          d.found \in V!Found(d.row, v) \ {0} /\ V!Drifts(d.row.usd, d.found)
    BY DEF DInv, DriftFound
  <2>4. released.of[d.row.part] = upstream /\ v = upstream
    <3>1. released.of[d.row.part] <= asked /\ released.of[d.row.part] <= upstream
      BY <2>2 DEF DInv, DriftFound, Past
    <3>2. asked \in Nat /\ upstream \in Nat /\ released.of[d.row.part] \in Nat
      BY <2>2 DEF FInv, Typed, CInv, CTyped, Absent, Versions, F!None
    <3> QED
      BY <2>3, <3>1, <3>2
  <2> QED
    BY <2>2, <2>3, <2>4, OwnItemFound
<1> QED
  BY FetchInvariance, CheckInvariance, DriftInvariance, <1>1, PTL
=============================================================================
